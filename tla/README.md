# A verification of Jobs_Scraper_Global in TLA+

Jobs_Scraper_Global collects job postings from many sources. The processor
(`src/scraper-go`, Go) runs the sources on a schedule, deduplicates and
classifies what they return, keeps a durable catalog in PostgreSQL and projects
it into indexes in Valkey. The backend (`src/backend`, TypeScript) answers
searches from these indexes, caches the pages, and keeps users, saved jobs and
permissions. Two frontends sit on top of the backend: the dashboard of a user
(`src/frontend`) and the administration panel (`src/front_admin`).

The modules here model the parts that run concurrently, cross two stores, recover
from failure, or hold two pieces of state together. TLC checks them on small
instances; TLAPS proves the most important facts for every value of the constants.

Contents: 1 inventory, 2 modules and how they correspond to the code, 3 runs and
bounds, 4 fairness, 5 proofs, 6 where code and documents disagree, 7 what is not
modelled, 8 plan.

## 1. Inventory

### Distributed run lock (`scraper-go/internal/runlock`)

State: the Valkey keys `scraper:run:lock` (a random token with a PTTL) and
`scraper:run:state` (a hash with the run's id, with a PTTL); per lease a context,
a ticker, a safety timer and a renewal goroutine. Operations: `Acquire` (`SET NX PX`,
then `WriteState`, then the timers), `renew` (a script fenced by the token, under a
deadline of its own), `Release` (stop the goroutine, then a fenced script). Used by
the scheduler, the manual trigger and the on-demand search. Hard: replies are lost,
commands are repeated by the client library or executed after their sender gave up,
processes die, and the lease must end before its key does. Correct when a lease
inside its safety margin owns the key, no late command of one run touches the lock or
the state of another, and orphaned locks go away.

### Scheduler, manual trigger, shutdown (`internal/cronjob`, `cmd/server`)

State: `running`, `stopped`, the stop channel, a WaitGroup, the background context.
Operations: the cron goroutine, `RunNow` behind `POST /admin/scrape`, the run under
the lock with its deferred calls, `Status`, `Stop`, `Shutdown`. Hard: triggers race
`Stop`; runs of one process overlap between the release of the lock and the last
deferred call. Correct when the WaitGroup counts the runs and shutdown ends with every
counted run over.

### On-demand search and source cadence (`pipeline/search.go`, `inflight`, `source_schedule.go`)

State: kept answers, the flights of a process by key, the gate key of one source with a
TTL of twelve hours. Operations: look up, join or start a flight, look up once more, take
the run lock, collect, store. Hard: a flight runs in its first caller's context; the gate
is passed by runs of the scheduler too. Correct when nothing is collected while its answer
is kept and the source is asked once in its cadence.

### Collection run (`internal/pipeline/pipeline.go`, `budget.go`)

State: two bounded channels of tasks and results, one of jobs, permits per provider
and in all, one context. Operations: the producer that takes turns between providers,
the workers, `acquire`/`release` of the two permits, the goroutine that closes the
results, the caller that hands jobs to the processing stage. Hard: cancellation at
every select, full queues, the order of closing. Correct when limits hold, success
means that every task was called and every job processed, and a run always returns
with nothing left behind.

### Processing stage (`internal/pipeline/process.go`, `internal/dedup`)

State: the window, the keys seen and the keys already flushed, the copy of what was
persisted, the buffer for the index. Operations: deduplicate, merge, classify, persist
in chunks, index in batches, merge late duplicates, flush at the end. Hard: partial
failure between chunks and between the stores, late duplicates. Correct when nothing
confirmed by the catalog is lost to the index, unless the index itself fails, and no
older revision is indexed last.

### Durable catalog, index namespaces, maintenance (`internal/catalog`, `internal/jobindex`, `internal/catalogops`, `cmd/catalog`)

State: `job_catalog` with revision, expiry and `indexed_revision`; in Valkey the active
version, the search generation, and per namespace documents, membership entries, index,
expiries and SETs by family. Operations: save, deactivate, expire, reclassify,
rebuild and publish, rollback, apply, mark as indexed, under advisory locks that are
shared or exclusive. Hard: no transaction spans both stores; writes arrive late,
twice or never; publications come between a read and its use; keys expire on their
own. Correct when projections never run ahead of the catalog or go back, and
`indexed_revision` tells the truth.

### Backend search and page cache (`backend/src/modules/jobs`, `lib/cache.ts`)

State: pages in Valkey under a key that contains the generation, per process a map
of the queries under way, the old global set of jobs until the first index is published.
Operations: read the generation, join a query or start one, read a page and check the
generation again, snapshot and hydrate batch by batch, filter, rank by the profile, write
a page if the generation is unchanged; clear the legacy keys. Hard: the index changes and
jobs expire between any two of these steps; failures are shared with those who joined;
a page is put together out of several reads. Correct when no page that can still be served
differs from what a query would find, no answer is older than its request, the next page
goes on where the one before ended, and everyone who waits is answered.

### Accounts, personal data, e-mail (`modules/users`, `modules/auth`, `modules/email`, `scripts`)

State: users, identities, credentials, row locks; personal data as typed or protected with
the hash it is found by; the queue of welcome mails. Operations: sign-in through a
provider, registration, login, linking, disconnecting, deletion; seed and backfill of a
deployment; queue, worker, retry, stall. Hard: find-then-create races, two disconnections
at once, a deployment that dies between rows while an older one serves, a mail that was
taken although its worker died. Correct when everyone can sign in, a new user is welcomed
once, and what is served is protected, found and complete.

### Saved jobs, administration, limits (`modules/savedJobs`, `modules/notifications`, `modules/admin`, `middleware`)

State: saved jobs with history and notes, notices, rules by role, accounts, the audit
trail, counts per window, labels of metrics. Operations: updates in one transaction or
several statements, rules replaced one by one, checks on every request, two commands per
counted request. Hard: concurrent updates of one row, pages that grow stale, a window that
ends between two commands. Correct when a history leads to its status, administrators do
not undo each other, and no window lets more through than allowed.

### Keyword queue (`kwsync`, `lib/kwsync.ts`, `keywords`)

State: a pending list in Valkey, a stored list. Operations: push, consume, save, replace.
Hard: read, delete and save are separate steps.

### Dashboard and panel (`frontend`, `front_admin`)

State: what each page holds of the answers it got: session, filters and link, searches,
tracked jobs and their local copy, the detail of one job, profile, preferences and checklist;
polling resources, the console of the scrapers, metric panels, the list of users, notices.
Operations: clicks, timers, effects after a rendering, answers. Hard: answers in any order,
timers and effects that act on an earlier state, several effects of one rendering. Correct
when what a page shows is what it asked for last, and what was entered is what is kept.

### How they interact

`cronjob` and the admin endpoint ask `runlock` for a lease and give its context to
the pipeline. The collection run feeds the processing stage through a bounded channel.
The stage commits to the catalog, then writes the active namespace, then confirms
`indexed_revision`. Maintenance commands work on the same rows and namespaces under
the advisory locks. Every change of the active namespace increments the search
generation, by which the backend's cached pages are keyed. Both frontends see only the
backend's answers; the panel sees the processor through the backend and through the state
the processor publishes.

## 2. Modules

The processor:

| module | models | state in the code |
| --- | --- | --- |
| `ExclusiveLease` | what the run lock promises: one owner, fuel, end | abstract |
| `RunLock` | `runlock.go`, `valkey.go` | `lock`, `state`: the two keys; `pc`, `ctx`, `renewer`, `tick`, `pending`, `safety`: one lease; `op`, `res`, `left`: the call under way and its deadline; `stray`: commands without a listener |
| `Scheduler` | `cronjob.go`, shutdown in `server.go`, the admin handlers | `running`, `stopped`, `active` (the WaitGroup), `bg`, `shut`; `owner` is the lock as `ExclusiveLease` gives it |
| `OnDemandSearch` | `search.go`, `inflight`, `source_schedule.go` | `ask`, `flight`, `holder` (the lock), `answers`, `gate` of the cadence |
| `Collection`, `MCCollection` | `pipeline.go`, `budget.go` | the three channels, the permits, one `pc` per worker, `gather` for the caller, `stage` for the processing stage |
| `ProcessStage` | `process.go`, `dedup.go`, `normalize.go` | `window` is `pending`, `seen`, `flushed`, `known` (`persistedByID`), `buffer` (`indexBuf`); `catalog` and `index` stand for the stores |
| `CatalogIndex` | `store.go`, `index.go`, `maintenance.go`, `cmd/catalog` | `row`, `seq` in PostgreSQL; `active`, `gen`, `made`, `kept`, `member`, `index`, `fset`, `until`, `idx` in Valkey; `op`, `pc`, `plan`, `ver`, `from`, `at` of each command |
| `MCProcessor` | the last two side by side | |
| `KeywordQueue` | `kwsync.go`, `lib/kwsync.ts`, the keyword routes | `pending`, `store`, `read`, `existing`, the users' `rows` |

The backend:

| module | models | state in the code |
| --- | --- | --- |
| `SearchCache` | `jobSearchCache.ts`, `valkeySearchCache.adapter.ts`, `valkeyJobSearch.adapter.ts`, `jobSearch.repository.ts` | `cache`, `flight` (`inFlight`), per request `gen`, `query`, `page`, `leader`; `index`, `version`, `counter`, `now` as its environment |
| `PagedSearch` | `searchJobs.service.ts`, `jobSearch.repository.ts`, `lib/cache.ts` | `docs`, `members`, the batches (`windows`, `seen`, `cursor`) and the page (`using`, `ranked`, `ids`, `page`, `total`, `lost`, `orphans`) |
| `LegacyIndex` | `lib/cache.ts` (clear), `seedCatalogJobs.ts` | `keys`, `active`, the clear, the seed and the first rebuild |
| `JobMatching` | `jobSearch.filter.ts`, `professionalTaxonomy.ts`, `jobMatch.ts`, `jobProfileMatch.ts` | an advertisement, a user and what the user knows |
| `KeywordKeys` | `index.go` and `lib/cache.ts`: the sets of a keyword | the sets written for an advertisement and those a search reads |
| `Accounts` | `modules/auth`, `modules/users`, `modules/admin/users` | `users`, `accounts`, `passwords`, `draft` (uncommitted), `locks`, `cookie`, `welcomed`, `req` |
| `UserPii` | `users.mapper.ts`, `users.repository.ts`, `lib/security`, `scripts` | `rows`, `creds`, `demo`, the deployment's `job`, `serving` |
| `MailDelivery` | `modules/email`, start and stop of the server | `mails` and `holding` (BullMQ and its worker), `welcome`, `server`, `valkey` |
| `SavedJobs` | `modules/savedJobs`, `modules/notifications` | `jobs`, `events`, `notes`, `notices`, `locks` |
| `AdminDesk` | `modules/admin/permissions`, `modules/admin/users`, the two pages | `override`, `account`, `badge`, `sheet`, `row`, `req` |
| `RequestPath` | `app.ts`, `middleware`, `routes`, `rateLimit.ts` | `override`, `answer`; `counter`, `shared`, one `try` per request |
| `Listings` | no component: what `sort` and `filter` leave of an array, by positions | |
| `MCBackend` | the components above but `SearchCache`, with `OnDemandSearch` | `part` |

The frontends:

| module | models | state in the code |
| --- | --- | --- |
| `SignInPages` | `AppRoutes`, `domains/auth`, `RegisterFormPanel` | the tab, the cookie (`jar`), calls under way; the field of the telephone |
| `Recommendations`, `JobFilters`, `JobListing` | `NewDashboardPage`, `useDashboardJobs`, `JobFilter`, `dashboardJobsApi`, `JobTable` | filters, timers and requests; the link and what the backend reads of it; rows, scores, pager |
| `TrackedJobs`, `JobDialog` | `useDashboardJobs`, `Header`, `JobDetailModal`, `ApplicationNotesSection` | the list, its copy in `localStorage`, the menu's notices; history and notes of one job |
| `ProfileDesk` | `useUserDashboardData`, `userDashboardApi`, the forms | `row` and `skills` stored, `page` shown, the checklist's timer |
| `AdminPanel` | `useAuth`, `pollingResource`, `useOperationalSnapshot` | session, resource, requests in flight |
| `ScraperConsole` | `useScrapers`, `scraperClient`, `catalogInventory` | the processor, the console, triggers and what the audit trail says; the jobs by source |
| `MetricPanels`, `SystemStatus` | `metrics.service`, `ObservabilityPage`, `health.service`, `dashboard.service`, their pages | panels and series; statuses, readings and the chart |
| `AuditTrail`, `UserDirectory`, `PanelNotices` | `AuditPage`, `UsersPage`, `NotificationButton` and what they ask | the rows stored, the walk through them, the list, the bell |
| `MCFrontends` | all of these | `part` |

Proofs: `RunLockProofs`, `SchedulerProofs`, `CollectionProofs`, `ProcessorProofs` (the catalog and
the processing stage), `SearchCacheProofs`, `UserProofs` (`Accounts`, and the lemmas about
`SavedJobs` and `PagedSearch`), `BackendProofs` (the theorems of `MCBackend`) and
`FrontendProofs` (those of `MCFrontends`).

`MCProcessor`, `MCBackend` and `MCFrontends` put components that share no state side by
side: `part` is chosen at the start, the chosen component takes the steps, the others
stand still in a state of their own. So one run answers one kind of question for many
components, and a property is stated for each of them in one definition.

Components that do meet, meet at their interfaces. `RunLock` is shown to implement
`ExclusiveLease`, and `Scheduler` and `OnDemandSearch` use the lock as that module
describes it: an owner that may change by itself only to nobody. `Collection` sees the
processing stage as the reader of its queue that goes on reading after an error, which is
what `ProcessStage` does; `ProcessStage` sees the run as an input that may end or be canceled
at any moment. `ProcessStage` writes both stores as their own operations do;
`CatalogIndex` models these stores with everybody else who writes them. `SearchCache`
takes over one fact that `CatalogIndex` checks and `ProcessorProofs` proves: a change of
what searches show moves the generation in the same step (`ChangesAreAnnounced`).
`MailDelivery` begins where a request of `Accounts` has committed a new user.

Notes on how far each one goes:

* **RunLock.** A command is sent, executed at Valkey, answered. The caller may give up
  at any moment; the command is then in `stray` and may be executed later. The client
  may also send a command again. Time is discrete: `Tick` lets every timer and PTTL
  count down and does not pass the deadline of a call. A token and a run id are both the
  run. The fields of the state hash other than the run id are left out.
* **Scheduler.** The deferred calls of a run are separate steps in the code's order,
  since this order is what the findings are about. `lastRunAt`, `lastJobs` and metrics
  are left out.
* **OnDemandSearch.** What a run collects is `Collection`'s and `ProcessStage`'s. The lock
  is granted or not; other processes hold it too.
* **Collection.** Adapters return jobs or an error, and how many jobs is a constant of
  the adapter. A check of the context belongs to the step before it, since a
  cancellation right after the check is the same as one in the select that follows.
* **ProcessStage.** The durable mode: the staged `:next` sets of the Valkey-only mode
  and their reconciliation are left out. A job is what its identity and fate depend on
  (external id, name, URL, description, scope), and of two values the larger is the
  longer string. A failed save may have committed. The lookup of a document that is not
  in memory (`process.go:233`) is left out: every flushed ID is in memory. A
  cancellation that comes before the last flush of the buffer ends the stage without an
  error; the check at the end of `runWithConcurrency` turns that into one, which
  is in `Collection`. Revisions count per document here, and globally in `CatalogIndex`.
* **CatalogIndex.** A payload is the revision that wrote it, a classification the family
  it indexes the job under. Writes to Valkey may be repeated, may fail with the
  write done, and may be the last thing a crashing worker did. The advisory lock ends with
  its worker. The manifest of a draft is not seen to expire during its rebuild, and
  that of the bootstrap namespace counts as written; both only add behaviours in
  which a rollback is possible. The compatibility keys outside the namespaces are left
  out except `scraper:job:<id>:idx`, which the script reads.
* **SearchCache.** All requests ask for one page with the same filters, so the key of a
  page is its generation; others never meet these. A request's clock is read before
  the script is sent and may lag behind Valkey's, back to the arrival of the request;
  clocks of different machines agree. When a request has gone, its slot takes the next
  one, so the two slots stand for any number of requests of which two are open at a time.
  The write's comparison of generations is there, but it is the generation
  inside the key, rather than this comparison, that keeps a late page from being served.
* **PagedSearch.** A job is its position in the order of the index. Documents expire and an
  index is published between two batches. Structured filters of the index are one set of
  matching jobs. Before the first index the candidates are those of the global set or, in
  a search by keywords, of the union of their sets (`Tagged`), which a page reads and never
  changes: `removeOrphanIds` takes IDs out of the global set alone. So `NextPageGoesOn` bounds what
  the next page repeats by the orphans the page before left in the set it read; without keywords
  and with a removal that succeeds there are none. It is said of searches between which no job
  comes and no index is published, and of pages whose relevance could be read: where
  `orderIdsByProfileRelevance` falls back on the plain order, the two pages are of two orders.
* **RequestPath.** A label is a mount and a template. A guard mounted before a router
  answers while the path is still cut to what is below the mount, so its label is
  `TurnedAway`; where a route was reached, or none was and the mounts were left again, it is
  that of the route or of the whole path (`CountedAs`, `NotRouted`).
* **JobListing.** What a search reads of the user (`Readings`) may be nothing, the profile, or also
  the preferences. For a job of the families Product and Design the backend counts the words of its
  vocabulary, the user's level and the preferences, and gives no score without any of them; the
  page then makes one of its own, of the technologies alone. Years and weights of skills
  are one and the same, and keywords stored as preferences are not counted.
* **Listings.** Sorted and filtered sequences as functions of their positions and of the set that
  is kept. `SortSeq` and `SelectSeq` take operators, which no proof can instantiate.
* **JobMatching, KeywordKeys.** Rules over text with the text as a sequence of words: the
  first gains a word, a skill or a preference per step, so that a property may compare an
  advertisement with the same one completed.
* **Accounts.** PostgreSQL at READ COMMITTED: a statement sees what is committed, an insert
  waits for another's uncommitted unique value, a failed statement dooms its transaction.
* **UserPii.** A protected value is the text it decrypts to, a hash the normal form.
* **MailDelivery.** BullMQ is external, taken from how it is used: at least once, with
  attempts and stalls counted.
* **Frontends.** A browser runs one callback at a time: an action is a callback with the
  effects that run after it, and an answer comes whenever it comes. Markup is left out.

The bounds of the models are constants named as such in the modules: `MaxStray`
(`RunLock`), `MaxTime`, `MaxRevision` (`CatalogIndex`), `Fallible` (`Collection`),
`MaxReceived` (`ProcessStage`), `MaxTime`, `MaxChanges`, `MaxVersion` (`SearchCache`), and
the `Max...` constants of the components of `MCBackend` and `MCFrontends`.

## 3. Runs

Each property is stated in a comment beside its definition.

| run | instance | what it shows |
| --- | --- | --- |
| `runlock` | two runs, TTL 3, one stray command | a lease inside its margin owns the key (`SafeLeaseOwnsLock`), old commands do not take the state of another run (`StateFenced`), the keys implement `ExclusiveLease` (`ServiceSpec`) |
| `runlock_liveness` | two runs, TTL 2, no resending | `Release` returns (`ReleaseCompletes`), a lost lease is canceled (`LostLeaseCanceled`) |
| `runlock_overrun` | TTL 6, renewal every 2, prompt goroutines | counterexample, see section 6 |
| `scheduler` | the cron goroutine, two manual triggers, foreign owners | shutdown outlives what it counted (`ShutdownOutlivesCounted`), everything drains and returns (`RunsDrain`) |
| `scheduler_shutdown` | the same | counterexample, see section 6 |
| `collection` | two providers, three adapters, five tasks, two workers | limits (`WithinBudget`), completeness (`SuccessIsComplete`), clean return (`NothingOutlivesRun`, `RunReturns`) |
| `processor` | the catalog: two jobs, two families, two workers, one new namespace, lifetime 1, two revisions; the stage: six jobs received, windows of three, batches of two | nothing uncommitted is shown, marks are true, a job never goes back, publications lose nothing and are announced (`OnlyCommitted`, `ConfirmedIsShown`, `ReclassifiesCurrent`, `SearchNeverGoesBack`, `PublishLosesNothing`, `ChangesAreAnnounced`); nothing confirmed is forgotten, nothing older is queued (`ConfirmedIsIndexed`, `SuccessIsSearchable`, `IndexFollowsCatalog`) |
| `catalog_expiry` | the catalog with a shorter clock | counterexample, see section 6 |
| `search_cache` | `SearchCache`: two open requests, two processes, one job, one change, one tick | `CacheIsExact`, `NothingStaleServed`, `SingleFlight`, `RequestsEnd` |
| `backend` | `MCBackend`: the twelve components named in it, one at a time | sign-in and welcome (`EveryUserCanSignIn`, `WelcomedOnceOnly`), histories (`HistoryExplainsStatus`), pages (`PagesContinue`), limits (`OnlySoMany`), personal data (`ServedIsProtected`), administration (`OnlyWhatWasChosen`), the legacy keys (`ActiveIsSpared`), rules over text (`MatchingIsSound`) |
| `frontends` | `MCFrontends`: the sixteen pages and panels named in it, one at a time | what is shown was read (`ReadingIsHonest`, `ListIsAsked`), searches follow the filters (`SearchedAsChosen`), notices come once (`NoticeOnce`), what is entered is kept (`EnteredIsKept`) |
| `keyword_queue` | two requests, two keywords | counterexample, see section 6 |

`TypesHold` is the type invariant of each component of the last two; the other modules
have theirs (`TypeOK`) in the invariants of section 5.

Why the instances are large enough. Every property about a lock relates one owner to
one intruder, so two runs suffice, and one stray command is enough to be the late
one; TTL 3 with a renewal every unit leaves room for a renewal that fails and one
that succeeds before the safety timer. Two manual triggers and the cron goroutine give a
run that releases, one that follows, and one that passed the check of `stopped`. Five
tasks exceed the queue of tasks by one and three jobs exceed the queue of
jobs by one, so every sender blocks somewhere; two providers share two workers under
a provider limit of one, and an override (3) that the global limit cuts to two. Six
jobs through a window of three give two windows and late duplicates in between;
a window of three with chunks of two gives a chunk after a failed or successful one.
In the catalog two workers on two jobs give each of the pairs of operations, with a job
that one touches and the other does not; two revisions are enough for an old write
after a new one. In `search_cache` the job is there at the start or not, lives one
unit or two, and may be replaced, removed or moved to a new namespace under a leader, a
joiner and a second process.

In `backend` three requests of one person with two identities and a second e-mail meet at
the unique keys, and two of them at the last two ways to sign in; two administrators make two
changes; four jobs in batches of two and pages of two, with three that match and one preferred,
give a page that is filled from the next batch, a next page and an orphan, of the global set or of
the three jobs of the keywords; two windows of two
units fit into four ticks; two people, four ways to type e-mails and three deployments
give a deployment that dies and the one that follows while a backend serves; two attempts, one
stall and three faults let the worker die with a mail the provider has; two searchers and two
keys give a flight with a joiner and a second flight for the lock; two saved jobs with two
statuses give a history with every kind of event; four words make an advertisement that a filter,
a skill or a preference reads in two ways. In `frontends` three requests
or calls are enough for an answer that is overtaken by a later one while a third is under way,
and two openings, visits or attempts for an answer that comes to the wrong one. Of jobs that
differ only by name one that is absent stands first (`SavedInOrder`, `KeptInOrder`), a symmetry of
the instance; the list of users has one filter besides its search, and the audit list is loaded
twice, which is one load that overtakes another.

Deadlock is checked in every run but `search_cache`, `backend`, `frontends` and
`keyword_queue`, where the clock, the requests and the users stop at their bounds;
`Collection` and `ProcessStage` have an explicit final stuttering step.

## 4. Fairness

Only the liveness properties need it, and each assumption is tied to the code.

* `RunLock`: time passes; the goroutines of Go are scheduled; a call returns, since
  deadlines or the client's timeouts bound it (weak fairness). `SafetyExpires` has
  strong fairness: select picks among ready channels at random, so a safety timer that
  is ready again and again is picked. Nothing makes Valkey answer, a run start, or a run
  release its lease in time, and a process may crash.
* `Scheduler`: an `Acquire` returns, a run ends (the scrape has a timeout and obeys its
  context) with its deferred calls, and the goroutine that waits on the WaitGroup runs.
  Neither `Stop` nor the deadline of `Shutdown` has to come: a shutdown returns
  without that deadline.
* `Collection`: every goroutine is scheduled, and adapters return (HTTP with timeouts
  under the run's context). Nothing has to cancel the run.
* `SearchCache`: Valkey answers or fails, and the event loop runs what is ready: each
  request that can take a step takes one. Requests need not come; a joiner is served
  by its leader's steps alone.

`MCProcessor`, `MCBackend` and `MCFrontends` are checked for safety only.

## 5. Proofs

The theorems hold for every value of the constants that satisfies the named assumptions.
Those say what the code enforces or what a model value is:

* `ConfigAssumption` (`RunLock`): `0 < RenewInterval < TTL`, which `Config.Validate` enforces;
* `CallAssumption` (`RunLock`): `Acquire`'s two calls take at most `AcquireTimeout <= RenewInterval`.
  `Acquire` has no deadline of its own; the bound is that of the client library with the
  configured values. `SafeLeaseOwnsLock` needs it, since the safety timer starts only
  after `WriteState`;
* `LimitAssumption` (`Collection`): limits and the queue are positive, as the configuration makes them;
* `AccountsAssumption`, `CatalogAssumption`, `TimeAssumption` and the assumptions of components joined
  in the `MCAssumption` of `MCProcessor`, `MCBackend` and `MCFrontends`: functions have their domains, bounds are numbers, special values such as
  `None`, `Forever` and `Bootstrap` are none of the others; of `UserPii` also that there are two
  people, since the seed's user is one of those whose rows are told apart;
* `TriggerAssumption` (`Scheduler`): the slots for manual triggers are finitely many (the
  WaitGroup is compared with a cardinality).

**RunLock.** `SafeLeaseOwnsLock` alone is not inductive: whether the next answer keeps it
depends on what is under way. The invariant is

    IInv == TypeOK /\ Control /\ StraysEnded /\ Confirmed /\ SafeLeaseOwnsLock

`Control` ties the stage of the calling goroutine to the renewal goroutine, the command
under way and the context. `Confirmed` is the heart: an answer "yes" that has not been
read yet was given no longer ago than the call has lasted, so the key is owned and
outlasts what the timers will be set to. `StraysEnded` says that a release left
behind belongs to a run that is over, so no late release frees the lock of a
live run. The proof that a step keeps `IInv` has one step per action; what a command may
do to the keys is a lemma (`ExecuteEffect`) used by every action that executes one.
From `IInv` follow `TypeCorrect`, `LeaseSafety`, `StateIsFenced` and `Refinement`,
the step simulation of `ExclusiveLease` under the mapping owner <- `lock.run`,
fuel <- `lock.ttl`, ended <- the runs that are releasing, done or crashed.

**Scheduler.** The invariant adds to the three checked ones that what `Stop`
found (`awaited`) is counted still. The counter is compared with the cardinality of
the counted triggers; `CountedFinite` and `MoveKeepsCount` isolate the facts about
finite sets. From it follow `TypeCorrect`, `RunningIsSound`, `WaitGroupIsExact` and
`ShutdownWaits`.

**Collection.** The invariant has six parts, because what success means is spread over three
channels and all goroutines:

    IInv == Shape /\ SlotsAreHeld /\ EndsInOrder /\ InOnePlace /\ NoneIsLost /\ JobsAreCounted

`SlotsAreHeld` counts each semaphore against the workers that took it, which gives
`BudgetIsKept`. `EndsInOrder` is the order of winding up (producer, workers, results, jobs,
verdict), which gives `RunLeavesNothing`. `InOnePlace` says that a task is in one queue, with one
worker or settled, never twice; `NoneIsLost` that without a cancellation each task made is
somewhere; `JobsAreCounted` that what was handed over of a task's jobs is what came back.
Together they give `SuccessMeansAll`. Sequences enter through two lemmas about what an append
and a tail do to membership, distinctness and counts.

**CatalogIndex** (`ProcessorProofs`). None of the six properties is inductive. The invariant joins the leases and
stages (`Lease`), that no plan and no entry is ahead of its row and says at the row's revision what
the row says (`Plans`, `Entries`), that an entry outlasts its job, that whoever still carries
an older revision of a vouched job finds its entry at the row's revision, and one that does not
expire (`Fenced`, `LateInv`), and that what is about to be published fits the catalog
(`ValidInv`). The late write is thus refused by the script's comparison; only the exclusive lease
moves the active namespace, and then nobody carries anything older. From it follow `TypeCorrect`,
`CatalogComesFirst`, `MarksAreTrue`, `NothingNewerIsOverwritten`, and the action properties
`RevisionsOnlyRise`, `NothingIsLost` and `GenerationMoves`.

**ProcessStage** (`ProcessorProofs`). The stage works through folds over batches, so its proof
begins with what a fold keeps when each of its steps keeps it: an induction by smallest
counterexample over the positions of the sequence, since the library's rules cannot be
instantiated. The invariant is

    StageInv == TypeOK /\ Flow /\ MemoryInv /\ NothingMore /\ Searchable /\ Approvals

`Flow` says that whatever waits for the catalog has an ID and that only the persisting stage has
anything waiting. `MemoryInv` ties the run's memory to the stores: what it knows is in the
catalog, and what is queued is what it knows, also after a late duplicate was merged.
`NothingMore` accounts without an error for every row of the catalog, `Searchable` for every
known document in the index or the queue, `Approvals` for every job that was approved. From it
follow `StageTypeCorrect`, `IndexFollowsCatalogAlways`, `ConfirmedIsIndexedAlways` and
`SuccessIsSearchableAlways`; `ProcessorIsBoth` carries what is proved of either part of
`MCProcessor` to the whole.

**SearchCache.** `SingleFlight` needs to know that no request outside the stages of a query
is in the map, since such a request draws a new generation and process; `FlightsAreUnderWay`
says so, and needs nothing but the shape of the local state (`Shape`). Their
conjunction is inductive: only `Lead` adds to the map, and it looks first;
`FlightShrinks` covers every other step. From it follow `OneQueryPerKey` and
`NoSettledFlight`. That both reads of the map and the insertion are one step is the
event loop's doing: there is no await between `jobSearchCache.ts:69` and line 120.

`CachedPagesAreExact` and `NothingStale` need more. The counter and the version move with every
change of the index, so that a generation that is still current (`Current`) names the index a query
found. A page that is cached or about to be written under a current generation holds
exactly the indexed jobs that had not expired when it was made; a page is kept no longer than the
earliest expiry among its jobs; and a generation that is not current never becomes so again. For
answers, a page of a request is compared with the counter and the clock at its arrival, and a
joiner shares a generation with its leader, so it is served nothing older than itself.

**Accounts** (`UserProofs`). `EveryUserCanSignIn` is kept by the row locks: a disconnection has locked what it
counted, and what it locked is still there and its user's (`LocksStand`), so two of them cannot
count on one another's. That a request deletes or welcomes only what it made itself is `OwnInv`:
a draft has the name of its request, a request that calls its user new has made it and has not
welcomed it before. From `TypeOK`, `OwnInv`, `LocksStand` and `OldAreNotWelcomed` follow
`EveryoneCanSignIn` and `NewUsersAreWelcomedOnce`.

**The backend's other components** (`BackendProofs`). Each has an invariant of its own;
`BackendInv` says that the component `part` names keeps it, and the theorems are of `MCBackend`.

* *RequestPath*, its limits (`LimitsHold`): the windows of a key begin at least `Window` apart, and the requests counted
  in one window got different counts (`Distinct`, from `Remembered`: nobody in the newest window got
  more than the counter has now). Those that pass map one to one into `1..Allowed`, whence the
  bound on their number. The counter may lose its expiry, be reset or be replaced by the
  process's own.
* *OnDemandSearch* (also `LimitsHold`): the key of the cadence outlasts the last turn
  (`GateIsKept`), and a flight that collects found its answer missing after it held the lock.
* *RequestPath*, its routes (`LimitsHold`, `ChosenIsKept`): no router asks for more than the default level of
  the rule of a route in it. A label is of a template or of the list, and the label of a request is its
  own exactly when it was routed, was refused for its origin while on the list, or asked for the
  connections without a session: each answer is compared with the ways a route can be named
  (`OwnNames`).
* *AdminDesk* (`ChosenIsKept`): what a page shows otherwise than it was read was chosen on it since,
  and what is asked for a user is not what the page shows of it; so a statement changes only
  what its administrator chose, however stale the page.
* *LegacyIndex* (`PublishedIndexIsSpared`): an index is active exactly when it was published, and
  the script that deletes looks first.
* *MailDelivery* (`WelcomeIsSentForAReason`): a mail was taken no more often than attempts and stalls
  were counted, and once more only from the moment the provider may have it until the worker says what
  became of it; a worker whose lock is lost has its stall counted before the mail is handed out
  again.
* *UserPii* (`WhatIsServedIsProtected`): hashes are unique, and while no backend is up what the job
  still has to write is what the table holds; what it no longer has is protected unless the job
  failed, in which case no backend is started.

* *SavedJobs* (`HistoryIsKept`): an update that has locked its row knows the status it has, since
  no two requests hold one row (`LockTells`); so what it writes begins where the history ends, and a
  deletion takes the history with the row.
* *PagedSearch* (`PagesGoOn`): the batches read so far are a stretch of the order of the index, what
  they kept is that stretch without what expired, and what is held for ranking is the best of them
  (`PagedInv`). Of an old set, nothing on a page ranks behind the place where the next one starts by
  more than the orphans left ahead of it (`Answered`); so what the next page repeats lies in the first
  `left` places of its window. The lemmas before it are about orders: the members of a finite set in the order of
  their ranks, the first few kept while more come, and a slice of a slice.
* `TypesAreKept` joins the shapes of all twelve (`ShapesInv`).

**The pages** (`FrontendProofs`). Each has its invariant. Most of them say the same in the terms of
one page: an answer under way carries what it was asked for, and the page remembers which of
them it still waits for, so an answer that is let in is of what is on the screen.

* *Recommendations* (`AsChosen`): requests are numbered, the latest one has the number the page
  waits for, and each carries the filters it was made with (`SearchInv`). So a page that is
  shown is of the filters on the screen, or a timer or a request for these is pending.
* *TrackedJobs*, *PanelNotices* (`NoticesAreOnce`): a local notice gets in only where none reads the
  same, and the feed replaces only what the feed brought; the notices of the panel whose time runs are
  those that were raised last, and those over the page are of them, newest first (`Timed`, `IsStack`),
  so whoever was dropped has as many above as fit.
* *AdminPanel*, *SignInPages*, *JobDialog*, *MetricPanels*, *SystemStatus*, *ScraperConsole*
  (`ReadIsHonest`): data are of the session that asked, since a new session starts a new generation
  (`PanelInv`); a form is busy exactly while its own call is under way, and a tab that is left
  alone comes home (`SignInInv`); a history is of the open job or says that it is loading
  (`DialogInv`); series are of the chosen range or there are none (`MetricInv`); a reading that is
  not marked as old is the last one answered (`StatusInv`); what the console tells of a trigger
  is what became of it, and its button is freed (`ConsoleInv`). `RefusedAsksNoMore`, a part of
  `AsChosen`, comes from `MetricInv`.
* *AuditTrail* (`AuditListsWhatIsAsked`): a request under way counted no more rows than match now,
  since the trail only grows, and the offset is a multiple of the page's length below what was counted
  (`AuditInv`); so the page number on the screen is of a page that exists.
* *JobFilters* (`FiltersAreRead`): what was parsed last is of the filters on the screen, since every
  change of these forgets it, and without a rendering to come the link has them (`FiltersInv`). It
  assumes that no menu of places offers "Todos" or "default" as a place of its own.
* *SignInPages*, the telephone (`EnteredIsSent`): the mask keeps every digit of a text it lets in
  (`NormalizedKeeps`), and puts a plus before it only where one was meant or where there are more
  digits than a number without its country has (`RegisterInv`). With it, `IntentKept` from
  `SignInInv`.

Only model-checked, and why:

* all liveness: proofs under fairness and of ENABLED are not in the prover's reach;
* `MatchingIsSound`: the rules over text are folds over words and sets whose result the property
  compares for two texts, one of which extends the other. The lemmas about folds in `ProcessorProofs`
  give what one fold keeps, not how two of them compare;
* `EnteredIsKept`, `ListIsAsked` and the `TypesHold` of `MCFrontends`: they range over all pages,
  and the invariants above are of twelve of the sixteen. Proved are, of `EnteredIsKept`, what it says of
  `register`, `filters` and `signin`, and of `ListIsAsked` what it says of `audit` and `filters`. What is left are the
  tables that are sorted and walked through (`listing`, `users`), the profile, the notes of a job, and
  sums over the rows of the inventory and the bars of the charts. See section 8.

No module that is proved about uses RECURSIVE operators.

## 6. Where the code and its documents disagree

Shown by a run:

* `runlock_overrun` (`runlock.go:230`): `renew` runs inside the select arm of the tick, so
  nobody watches the safety timer until it returns, and a tick that is ready with the timer
  may be taken first. A lease stays live after its key expired and a second run starts,
  even in a process that never delays. `SafeLeaseOwnsLock` says what does hold.
* `scheduler_shutdown` (`cronjob.go:208`): a trigger reads `stopped`, lets the mutex go,
  and asks for the lock; `active.Add` comes after the lock is granted. `Shutdown` in
  between returns without an error while the trigger gets the lock.
  `ShutdownOutlivesCounted` and `RunsDrain` say what does hold.
* `catalog_expiry` (`index.go:238`): after a rebuild, a job's membership entry expires with
  the job and the family SET does not; maintenance then removes the ID from the index and
  leaves it in the SET, for good.
* `keyword_queue` (`kwsync.go:86`): keywords pushed between the consumer's LRANGE and its DEL
  are deleted unread.

Met while modelling, and built into the models without a run of their own:

* Scheduler: the lock is released before `running` is cleared (`cronjob.go:227`), so the flag of
  the next run is cleared by the one before and the status endpoint denies a run that is under
  way. The flag never errs in the other direction (`RunningIsSound`).
* Processing stage: a late duplicate is merged with the longest title, company and location
  (`process.go:263`), and the catalog computes the document's ID from these fields, so a longer
  title creates a second document; the test of this case uses a `Persist` that keeps the ID.
  `seen` keeps the keys of every window of the run although its comment (`process.go:79`) says it
  holds the current one: a copy whose only common key is the external id of a flushed or
  rejected job is merged into an object that nobody reads again.
* On-demand search: equal searches run in the context of their first caller, and fail when that
  client leaves; the key of the cadence is spent by a run that then fails; a canceled context
  lets Jooble in; a failed release turns an answer that was kept into an error.
* E-mail: with Valkey down `enqueueEmail` waits instead of failing (`maxRetriesPerRequest: null`),
  so the sign-up's answer waits, though `email.service.ts:18` says that a failure is logged and
  swallowed; the worker's "failed" event comes for each attempt, though `email.worker.ts:38` says
  final; finished jobs stay in Valkey, though `email.queue.ts:13` calls them ephemeral; the server
  listens during its shutdown, and a mail asked for after the queue was closed is logged and
  lost, as is one whose process dies between commit and enqueue. `cacheSearchJobIds` is used
  only by tests.
* Personal data: e-mails that differ by case only, or the seed's insert beside a plain row of
  an older version, make the deployment fail each time; a backfill started by hand beside an older
  backend leaves what that one writes.
* Counts of requests: `BACKEND.md:664` says that paths without a match are counted as
  `__unmatched__`, but for the known static routes. `metrics.ts:25` reads `req.path` when the
  answer is out, and where `requireAuth` or `requireRole` answered inside a mount that path lacks the
  mount: `/jobs/search` or `/admin/scrapers` refused there is `__unmatched__`, and
  `/saved-jobs/health` without a session is counted as `/health`.
* Searches by keywords before the first index: `removeOrphanIds` clears the global set
  (`cache.ts:443`), the sets of the keywords keep their orphans, and each orphan on a page makes the
  next page repeat a job of it. A failed read of the profile's keywords changes the order
  between two pages (`searchJobs.service.ts:115`).
* Scores: `jobMatch.service.ts:278` says "Without profile evidence, do not invent a compatibility
  estimate", and a job of Product or Design without evidence is ranked last; but the page scores
  each job that came without a score (`NewDashboardPage.tsx:329`; its comment speaks of users without
  a profile), so the last rows of a list by match show 45 to 99.
* Requests: a body that cannot be read is answered 500, before it is counted and without CORS
  headers; an error loses the mount in its label; a rule lowered below its router's level has no
  effect; an unknown path under `/admin` is 404 for super administrators only; `?isBlocked=false`
  reads as true (`adminUsers.controller.ts:16`); `POST /keywords` stores before it publishes and
  answers 500 when publishing fails.
* Search: the state filter "sp" matches "Spain"; the preference "remoto" is compared with the
  modality "remote".
* Sign-in pages: a refresh answered after a logout shows the user again, and may restore the
  cookie; a link begun as one user and finished as another is the other's; a link with an
  expired session becomes a sign-in; the forms ask for 6 and 8 characters of one password.
* Dashboard: after a reload the first search sends families and model while the link's level, place
  and order are on the screen; a link with an unknown level or country filters by what its
  menu does not show, one with an unknown area makes every search answer 400; the type of a job is
  read from its punctuated text, so "home-office" is "Presencial" on screen; a saved job loses its
  evidence, date and match and gets an invented score (`dashboardJobsApi.ts:255`); the footer counts
  tracked jobs that are hidden; "Nenhuma vaga encontrada" appears without a pager when all jobs
  of a page are tracked.
* Detail of a job: notes typed for a recommended job are shown as saved (`JobDetailModal.tsx:347`) but
  not kept; a change of status acts on the job selected when it was rendered; the notes section
  keeps draft and list of the job before; a change answered after the detail was opened leaves its
  history stale; a note created before the list answers is lost from view or shown twice.
* Profile: a failed load shows made-up preferences and a save stores them; a save before the load
  stores the initial ones; cleared fields show demo values; the checklist's timer stores an earlier
  state; technologies that differ by case share their years.
* Panel: the error of `useScrapers` is never cleared; a trigger given up after five seconds may run
  and is told as failed and not audited; the bell's dot never shows, since `hasUnread` is only set to
  false (`NotificationButton.tsx:115-193`), and it lists five notices and drops the rest; a line is
  drawn across the steps Prometheus leaves out; the key of a picked series holds its position, so a
  change of order loses or moves it while the caption says it is selected
  (`ObservabilityPanelCard.tsx:154,500`); a refused session never asks for series again; the dashboard of
  the scrapers' health is always replaced by its empty shell; `DashboardService.getOverview` answers 500 when
  PostgreSQL or Valkey is down, so the list of services can hardly show it; the list of users is paged
  without ORDER BY (`adminUsers.repository.ts:54`) and may miss or double a user who is updated
  meanwhile; a role that was stored beside a refused block is not shown, and a retry fails;
  closing the dialog during a save and opening it for another lets the late answer close it.

## 7. Not modelled

* `Cleanup` (`maintenance.go:425`), `Backfill` and `Import` of the catalog, the compatibility keys
  and the loss of the session that holds an advisory lock (`store.go:232`).
* The timeout of `Release`'s own context as an error of its caller (`runlock.go:229`); the lookup of a
  document that is not in memory and the statistics of the stage (`process.go:345`).
* The Valkey-only store (`jobstore`, staged indexes): superseded by the durable catalog: the
  server does not start without `DATABASE_URL` (`server.go:51`), so only tests reach it.
* Structured filters of the index (seniority, location), other fingerprints of the page cache.
* Source adapters and the adapters of the sign-in providers (HTTP and parsing), the rules of the
  classifier and the taxonomy (stateless rules over text), how the processor fills its snapshot.
* Marketing pages, the jobs domain of the frontend that no page uses, the dialog that adds a job,
  `swagger.ts`, markup and wording, password resets, interviews and statistics.

## 8. Plan

Done: the modules of section 2; the proofs of section 5. What is left:

1. The rest of `EnteredIsKept`, `ListIsAsked` and `TypesHold` of `MCFrontends`: the profile and the
   notes of a job, then the tables (`JobListing`, `UserDirectory`), for which `Listings` would need
   lemmas on what sorting and cutting keep.
2. `MatchingIsSound`, by a lemma that compares two folds step by step.
3. Extensions of the models: `Cleanup` and the loss of a lease's session in `CatalogIndex`.
