# whois-skills: formal models

TLA+ models of the stateful parts of whois-skills, the TLC runs that check them
on small instances, and theorems about them that TLAPS proves for every value of
the constants. Every definition is translated from the Go source; the `map` of
`PROJECT.json` names the lines each one stands for, and this file says what was
abstracted. Paths below are relative to `src/pkg/` unless they start with
`website/` or `guide/`.

## 1. The system and what is modelled

| Component | Source | State it keeps | Operations | Hard part | Modules |
|---|---|---|---|---|---|
| Streaming batch processor | `whois/batch.go` | shared counters, checkpoint, result channel, two files | Process, Cancel, ResumeFromCheckpoint, GetStats; the workers | workers and savers interleave; crash and resume; a full channel | `StreamBatch`, `BatchPromise`, `StreamBatchProofs` |
| Domain monitor | `whois/monitor.go` | watch list, stored watch states, alert channel, cancel function | AddWatch, RemoveWatch, Start, Stop, CheckNow, the check goroutines | queries run without the lock; rounds, Stop and CheckNow overlap | `DomainMonitor`, `DomainMonitorProofs` |
| MCP request and task store | `mcp/controller.go`, `mcp/models.go` | requests, their task lists, a task table | plan, mark done, approve, approve request, add, update, delete | handlers check without the lock and act later | `McpTasks`, `McpProofs` |
| Proxied query: engine, proxy pool, cache | `whois/query.go`, `whois/proxy.go`, `whois/cache.go`, `whois/errors.go` | proxy list with status, index; shared dialer; cache | query with retries, health check, reload, expiry, warm-up | three nested retry loops over shared state | `QueryClient`, `ClientProofs` |
| Rate limiter | `whois/ratelimit.go` | token buckets | Allow | bursts, refusals, rates below one | `TokenBucket`, `RateLimiter`, `ControlProofs` |
| Smart scheduler, adaptive limiter | `whois/scheduler.go` | per-server health, back-off, interval; rate, bucket | Schedule, RecordResult, health marks | results come late, in any order | `TokenBucket`, `SmartScheduler`, `ControlProofs` |
| API keys | `security/apikey.go` | key table, key file | generate, disable, enable, update, delete, load, save | the file is written outside the lock; torn writes; restarts | `ApiKeys`, `ControlProofs` |
| Request limits | `security/middleware.go` | a window per key and client | checkRateLimit, clean-up | where windows meet | `KeyLimits`, `TokenBucket` (the clock), `ControlProofs` |
| Server table | `whois/servers.go` | server of each top level domain, health records, file | GetWhoisServer, rounds of checks, updates, load, save | checks of one server overlap with each other and with updates | `ServerTable`, `ControlProofs` |
| Configuration of the providers | `whois/config.go`, `whois/storage.go`, `whois/history.go`, `whois/alert_storage.go`, `whois/reverse_local.go` | the global providers | validate and apply a configuration, Init and Set of each provider | each keeps the storage it found; order and repetition matter | `Setup`, `ControlProofs` |
| History and storage, local reverse lookup | `whois/storage.go`, `whois/history.go`, `whois/alert_storage.go`, `whois/reverse_local.go` | files of snapshots, alerts, watch states; the index | save, delete, load, index, rebuild, search | crashes and failures between writing and renaming; a rebuild beside saves | `History`, `RecordStore`, `ControlProofs` |
| Query aggregator | `whois/query.go` | task heap, statistics | AddQuery, ExecuteAll and its goroutines | the heap is read without the lock; a slot is waited for between look and pop | `Aggregator`, `AnswerProofs` |
| Correlation engine | `whois/correlation.go` | records, clusters | AddDomain, Analyze, profiles, statistics | any order, repeated and changing records | `Correlation`, `AnswerProofs` |
| Metrics collector, performance monitor | `metrics/collector.go`, `monitor/performance.go` | counts, averages, windows | record, statistics, export | integer averages, full windows, live maps in an export | `Metrics`, `AnswerProofs` |
| Metrics providers | `whois/observability.go` | built-in counters, providers, traces | record, add a provider, statistics | providers come while events are recorded | `Observability`, `AnswerProofs` |
| RDAP and ASN lookups | `whois/rdap.go`, `whois/asn_enhanced.go` | ASN cache, batch | the four RDAP queries, QueryASN, BatchQueryASN, clear | a cache of several sources, batches with a number twice | `Lookups`, `AnswerProofs` |
| BGP relations | `whois/asn_bgp.go` | two indexes of lines | load, query | both ends of a line must tell the same | `AsnRelations`, `AnswerProofs` |
| Comparison, merge and quality of records | `whois/diff.go`, `whois/history.go`, `whois/query.go`, `whois/quality.go` | none | CompareWhois, CompareSnapshots, mergeWhoisInfo, AssessQuality | fields one of two comparisons forgets | `Records`, `AnswerProofs` |
| Metrics alert manager | `metrics/alert.go`, `metrics/notifier.go` | rules, history, one RWMutex | CheckRules, GetHistory, AddRule, RemoveRule | lock taken under the read lock | `AlertManager`, `AlertProofs` |

How they interact. The batch processor, the monitor, the MCP tools, the HTTP API
and the command line all query through the engine (`ExecuteQueryWithResultContext`),
which goes through the global provider and, for a proxied query, through one
`WhoisClient` with its pool, cache and rate limiter. The models cut the system
at these calls: in `StreamBatch` and `DomainMonitor` a query is a step that may
take any time and end either way, which is what `QueryClient` allows. The smart
scheduler is consulted by its callers and told results; the alert manager reads
the metrics collector; the MCP store is independent of the queries.

Not modelled, each with its reason in `components` of `PROJECT.json`: the access
log (its window is that of `Metrics`), the Redis storage and cache, text
normalisation, availability, IDN, formatting and export, the parsing of WHOIS
answers about addresses, the HTTP server, the MCP transport and the command
line. They are conversions of text, network clients or plumbing around the
components above and keep no state of their own that another step could find
changed.

What makes each component correct:

* Batch: no domain is skipped by a restart unless its result was delivered; an
  uncancelled run ends with every domain answered; no send on a closed channel;
  the checkpoint agrees with the counters; a cancelled run ends even unread.
* Monitor: what is recorded of a field was told, unless an answer lacked the field;
  what was alerted is stored, unless its save failed; records are in order while one
  Start checks; all the rounds of a Start together keep the bound; one that keeps
  running catches up; a cancelled Start returns.
* MCP store: a done request has only approved tasks, the list and the table
  agree, finished tasks are left alone; where a race breaks this, the model
  names the race and shows that no other order of steps does.
* Client: the pool holds just what is listed and has not failed three times; an outcome
  is charged to the proxy that was used; every query ends.
* Limiters: a rate holds over every stretch of time; where back-offs grow, none is
  shortened by a late result; what adapts stays among what was configured.
* API keys: the file that is saved to holds the keys as they are, once a call had it
  to itself, and never falls back behind such a call. A restart reads that file if it
  loads it by `LoadConfig`; after `InitAPIKeys(path)` it is `config/apikeys.json`
  whatever the path (section 5).
* Request limits: no client passes more than two windows' worth in a row.
* Server table: once a check has found a server, its domains are sent to it until its
  last three checks have failed, and again at its next answer. A server no check has
  reached is passed over too (section 5).
* Alert manager: an alert that fires reaches the notifiers.
* Configuration: after one was applied without a warning, every provider it
  enables works on the storage that is set now.
* History: a record is read back as its last complete save left it, through
  crashes and failing writes, and a snapshot is found by its contact.
* Aggregator: a task is answered once, and ExecuteAll returns only then.
* Correlation: the edge from one domain to another is as strong as the attributes are
  many that the first showed before the second; what two domains share may so be
  split over two edges, and only these together are as strong (section 5). Relations of autonomous systems are told alike from both ends.
* Metrics: averages stay among what they average, windows are the latest, counts
  add up; a provider misses no event that began after it was added.
* Lookups: a batch accounts for its list, and a cached detail is of a source that
  answered for its number.
* Records: each comparison finds every change of what it looks at. `CompareSnapshots`
  does not look at the status; `CompareWhois` not at the ID, the domain, the name, the
  punycode and the extension, nor at the case of a status or a name server. A merge
  loses no section, and a fuller record scores no less.

## 2. The models and the code

**`StreamBatch`.** One processor per operating-system process, several processes
after one another. A worker's steps are the points at which two goroutines can
interleave: take a task, query, send the result (which waits for room in
`resultChan`, or for the cancellation), add to the atomic counters one by one,
record under `p.mu`, test the interval, and save in four steps (marshal under
the lock, then open, write and rename without it). `tmp` and `ckpt` are the two
files; a file is absent, whole or torn, and an open file that was renamed stays
the file its holder writes to. `Crash` loses everything but the files. Latencies,
history snapshots and callbacks are left out. `BatchPromise` says in three
variables what the owner of a batch relies on; `Promise` is the refinement
mapping and `KeepsPromise` the claim that `StreamBatch` implements it.

**`DomainMonitor`.** `loop` is where the goroutine of each `Start` is (spawning a
round, joining it, waiting for the ticker), a check is a goroutine that queues
for the semaphore, queries without the lock and applies its answer under it.
Records of a registry are abstracted to the revision at which each compared
field last changed and to the class of the days remaining; an answer may lack
parts. `told` is what the first record or the alerts said of each field last, or
`Missing` from an answer without the field on, since the next value is compared with
nothing; `emitAlert` drops when the channel is full. A save fails or not, as
`SaveOutcomes` says; the error is only logged and the alerts are raised all the same
(`unsaved`). `Start` has no guard: each call has a loop, a context and rounds of its
own, while `Stop` cancels the latest context only, so that one before it ends with the
context of its caller (`CallerCancels`). CheckNow and RemoveWatch happen at any time.

**`McpTasks`.** A handler is a check (`Check`) and one or more later updates
(`Act`), since the code reads the request and the task through pointers without
the lock and calls a locked store method afterwards. A Go statement that touches
shared data is one step, but for the list that DeleteTask rewrites: `ReadList` reads
its length and array, and `UnlistTask` stores one of the lists that may come of it
(`Unlisted`): by then another deletion may have moved the elements of that array, and
tasks may have been added, which are lost, kept or doubled, or put the old list back.
Calls that fail change nothing and are left out, as are the read-only tools, texts and
times; so are slice headers torn in the middle of a store, and the elements that a scan
of a list sees twice or not at all while a deletion moves them. `met` records which
races have had an occasion; deletions that meet one another or an addition for their
request are `ListsKept`, which the properties except, as they do fail there.

**`QueryClient`.** A caller runs the loop of `ExecuteQueryWithResultContext`
(`Retry`, `attempt`), the loop over proxies (`left`) and the referral loop
(`text`), with one step between any two accesses to shared state. The rate
limiter is abstracted to one that may refuse any call; the health check to marks of
any proxy at any time (it works on a copy of the list, one dial after another);
expiry, Delete, Clear and clearExpired to `Forget`. `failures` counts to three,
where the code's threshold is. A response is what it refers to. Left out: the
referral of the engine itself, field validation, Redis, statistics, the
aggregator. `list = <<>>` under a query is the nil proxy that the code
dereferences (`panicked`).

**`TokenBucket`, `RateLimiter`, `SmartScheduler`.** Time is counted in whole
seconds and tokens in parts of a token, so rates below one are expressible;
`Drawn` is `tokenBucket.allow`. `Allow` draws from the global bucket before the
bucket of the server, as the code does, and so spends a global token on a call
the server's bucket refuses. `granted` counts grants since every second. In
`SmartScheduler` a query is under way between `Schedule` and its result, results
land in any order; `Schedule` gives a wait without an error for a server that is backed
off or refused by the limiter, and its caller queries when the wait is over. The factors
1.1, 0.7, `AdaptFactor` and `BackoffMultiplier` are percentages, computed with integers.
Intervals, rates and back-offs are any positive numbers in any order, since
`NewSmartScheduler` compares none of them; a multiplier may be below one.
`MCServices` runs one of the components per behaviour, so that small components
share a run; each keeps its state to itself in the code too.

**`ApiKeys`.** A call that changes a key is under the lock only for the change
and for the copy of the table (`Copy`); the copied pointers are rendered without
it, so `copied` holds every table that the reading may give, a permission list
of several words also in part. `os.WriteFile` empties the file and then
writes it (`Open`, `Write`), either step may fail, and two writes to one file may mix.
`Start` is a crash and the load at the next start: `LoadConfig` remembers the
path, `InitAPIKeys` does not, so later changes go to `config/apikeys.json`
instead; `path` is the file that is saved to, and `written` tells that it was loaded or
opened by a save. `since` is what reading each key could give since the last call that met
no other. The rate limit and the expiry of a key are one value, its terms. Loading while
a call is under way, which no code does, is left out.

**`KeyLimits`.** `Found` is the limiter as `checkRateLimit` leaves it before it
counts; one client stands for all, since clients share nothing but the key's
limit. A limiter keeps the limit the key had when the limiter was made.

**`ServerTable`.** Every entry of the table has at most one check per round; a
check first finds or makes the record of its server (which begins as healthy)
and then, under the lock again, counts an answer or a failure. Failures are
counted up to `MaxFailures`, as far as they are compared. A restart loads the built-in
table and merges the file; a file that is missing or torn is an error. A server without a
record is not healthy, so its domains go to the default server until a round reaches it. One save
at a time is a bound; `ApiKeys` shows what overlapping ones do.

**`AlertManager`.** Go's RWMutex is modelled with its rule that a waiting `Lock`
keeps new readers out; `CheckRules` walks the rules under the read lock, one
step per rule; time is abstracted to whether a rule has lasted for its Duration
and whether its Interval has passed.

**`Setup`.** A provider is told by what it was made with: the storage (for the
index: the history) set now, or a former one. `ApplyWhoisLibraryConfig` validates
and then takes the sections in order, one step each, any of which may log an error
and go on; `Disable` is an Init function called with a disabled section, which no
configuration does. Paths and sizes of a section are left out.

**`History`.** All three kinds of records go through `LocalFileStorage`, whose
mutex is held while a file is written; the file is named by the second for
snapshots and alerts. A save is the opened temporary file, then the rename or an
error; a snapshot is indexed afterwards without the lock. A rebuild lists, empties
the index and fills it again, each a step. `Die` is a restart at any point. A
record is the contact it shows. `kept` and `lost` are history variables: what the
last complete save left, and what an emptied index need not have. `RecordStore` is what the
callers rely on, a store whose writes happen at once or not at all; `Atomic` is the
refinement mapping (what can be read under each name, and what each writer is about to put
there) and `StoresAtOnce` the claim that `History` implements it.

**`Aggregator`.** `heap` is the slice; a push or a pop reads it and writes it back
later, since AddQuery has the lock and ExecuteAll has not. `overlap` remembers that
two touched it at once (they may lose a task, or panic: `Panic`).

**`Correlation`.** A record is the set of attributes it shows (contacts, name
servers, registrar), as they are spelled; `Normal` is what `AddDomain` makes of each
spelling (trimmed, and but for registrars in one case) for the key of its cluster, which
`GetRegistrarStats` does not. A private contact forms no cluster. Clusters keep the order
domains came in, on which the direction of edges rests; `before` is a history variable
of who showed what first. First and last dates, summaries and texts are left out.

**`Metrics`.** `api` and `whois` are the collector's two tables, `monitor` that of
the performance monitor; each counts in all and by group (path, server). Averages
are computed as the code does, in whole milliseconds. `truth` and `durations` are
history variables. The cache counters and the readings of the Go runtime are left out.

**`Observability`.** An event is counted in the built-in atomics one by one, then
told to each provider under the read lock. `missed` is what was over when a
provider came.

**`Lookups`.** The bootstrap tables of `rdap.go` are abstracted to whether they
have an entry, the answer of a server to whether it comes. A detail is the source
it is from. A batch has a goroutine for each position of its list.

**`AsnRelations`, `Records`.** Pure functions over what can be loaded or stored:
`AsnRelations` goes through all files of up to three lines, `Records` through all
pairs of records a registry may show one after another. Text fields have two values; `id`
stands for the five that `compareDomain` leaves out; a status has one possible member, name
servers two that differ in case. `WhoisView` and `SnapshotView` are what each comparison
looks at of a record. The scores are the code's numbers.

## 3. The runs

| Run | Bounds | Shows |
|---|---|---|
| `StreamBatchPool` | two workers and Cancel, two domains, two processes | all safety properties of the batch and `KeepsPromise` |
| `StreamBatchLive` | one worker, four domains (the channel holds two), two processes | the batch ends; a single saver never takes progress back |
| `StreamBatchTorn` (violation) | two workers, one process | the checkpoint file is torn by two savers |
| `MonitorRounds` | two domains, one slot, channel of one alert | what is recorded was told, what was alerted is stored unless its save failed, order, the bound of a Start |
| `MonitorLive` | one domain, CheckNow or a second Start, renewed watch, no save | the monitor catches up; a cancelled Start returns, whatever the other does |
| `MonitorSettles` (violation) | one domain | "changed" never ends |
| `McpHandlers` | two callers, one request, three tasks | what the workflow keeps, except after named races |
| `McpDone` (violation) | two callers, one request, three tasks | a done request with pending tasks |
| `ClientPool` | two callers, two proxies, one reload, one retry | pool soundness, charging, termination |
| `ClientNoServer` (violation) | one caller | a one-label suffix has no server |
| `Services` | fourteen parts, each with bounds of its own (below) | rates, back-off, key file, request windows, servers served, providers set up, history, aggregator, correlation, metrics, providers of metrics, batches of numbers, BGP relations, comparisons |
| `AlertsDelivered` (violation) | one rule, one user | the first alert deadlocks |

Why the bounds are enough. Every interleaving hazard here needs two actors, and
each passing safety run has at least two (workers and Cancel, check and round,
two handlers, two callers). Two processes show a crash and what the next run
makes of the files; a third would start from the same files. The result channel
holds twice the number of workers, so one worker with four domains is the
smallest instance in which it fills. A deletion race needs two deletions and a
neighbour, hence three tasks, and so does an addition beside a deletion. Calls for
different requests share only the task table, each of whose uses is locked and about one
task, so one request is enough (`CallsOwn` in the proofs: the tasks of a call are of its
request alone). The monitor's second Start and CheckNow each bring one more check beside a
round, hence `MaxCalls` = 2 for both together. Two proxies and a reload to nothing show rotation,
reset, and the list that vanishes; `QueriesShrink` is a measure, so one retry
stands for any number (section 4 proves it for all). The back-off hazard needs three queries under way of
which two are refused with a success between. A lost change of the key file
needs two callers, and two keys show that a table is written as a whole. In the
windows, ticks stand for parts of a minute: what matters is that the retention
is longer than the window. Two domains suffice for a server that is checked twice
a round, and two failures for "in a row". The parts of `Services`: three ticks of the clock with two limited servers; one scheduled
server with three queries; two callers, two API keys; one client; two domains and
two servers; every configuration of five sections and three types, applied again
and again; two writers, two saves, two seconds (a snapshot, the one that
overwrites it and a rebuild between); three tasks, two slots and two calls of
ExecuteAll; three domains with two records and none, two spellings of one registrar (two are related, the third
comes between); three recorded durations, one of them 0, with a window of two;
two events of two goroutines with both providers; two numbers, one in no range,
and a list of two, which may name one number twice, beside a single caller; three lines
between two systems; all records without a registrar, which is compared and merged
as a registrant is (`RecordsCompare` is about both). One goroutine calls ExecuteAll, since calls
that overlap are excluded by `AnsweredOnce` (section 5).

Every bound is a named constant
(`MaxRuns`, `MaxNow`, `MaxStarts`, `MaxChanges`, `MaxPlan`, `MaxLoads`,
`MaxTime`, `MaxFlying`, `MaxSecond`, `MaxSaves`, `MaxCalls`, `MaxRecords`, `MaxEvents`,
`MaxListed`, `MaxLines`; the sets `Keys`, `Admins`, `Tasks`), used only in guards. Symmetry is used in safety runs
over interchangeable goroutines, requests and tasks; `ClientPool` also checks
an action property, which is symmetric in the callers. Deadlock checking is off
only in the MCP runs, in which the identifiers run out, and in `Services`, in which some
parts stop at their bounds and the aggregator when it panics.

Properties worth a comment. `KeepsPromise` and `EndedCoversBatch` span crashes
and resumptions. `DoneUnlessRaced`, `TablesAgree` and `FinishedKept` are
conditional on `met`: the runs show both that the named race breaks the property
(`McpDone`) and that nothing else does. `ChargedIsDialled` is about queries that
ran alone, because with two it fails (section 5). `QueriesShrink` says that each
step of a query lowers a bounded measure, whatever the others do: the safety
form of "every query ends". `CheckpointAgrees` joins what the checkpoint
says of its counts and its domains, in memory and at the end of a run. `HistoryKept`
allows a snapshot to be missing from the index only for the reasons it names;
`SetupWired` has one named exception, the nil storage of section 5.
`AnsweredOnce` holds for all orders of AddQuery and ExecuteAll in which no two are
within the heap at once. The first part of `FileFollows` is conditional on a call that met no other, and on
nothing that happened before it: torn, mixed and outdated files are states it starts from. The second
is about calls that overlap: the file may lose their changes, but gives for a key nothing it was only before
the last such call. `CheckedServed` says both when a domain goes to its server and when to the default one,
for servers that have a record. `StartBounded` counts the checks of all rounds of one Start, an
abandoned one included. `RecordsCompared` says just what each comparison sees, so that it fails
when one sees less. `BackoffHolds` is conditional on `BackoffGrows`: with a multiplier below one the
configuration itself shortens back-offs. `RecordedInOrder` is checked without CheckNow and a
second Start, each of which adds a second check of a domain.

### Fairness

`StreamBatch`: weak fairness of each goroutine that can run and of a query,
which ends because its dialer has a timeout; nobody has to start, cancel, crash
or read, and `BatchEnds` assumes a reader explicitly. `DomainMonitor`: the ticker
keeps firing; strong fairness of `Return`, since Go's select picks at random
among ready cases and so does not neglect the cancelled context for ever; strong
fairness of `Acquire` and `Answered` (a slot is handed on, a query is not
refused every time); nobody has to read alerts. `AlertManager`: the ticker's
goroutine runs, the RWMutex starves nobody, a user gives the lock back; the
alert is lost under all of this.

## 4. What is proved

| Theorem | Module | Says |
|---|---|---|
| `TypeCorrect`, `InvCorrect` | `StreamBatchProofs` | the inductive invariant `IInv` holds |
| `DurableWasSent`, `EndCovers`, `ChannelSafe` | `StreamBatchProofs` | `SentBeforeDurable`, `EndedCoversBatch`, `NoSendOnClosed` |
| `PromiseKept` | `StreamBatchProofs` | `StreamBatch` implements `BatchPromise` |
| `QueriedOnce`, `CountsAgree` | `StreamBatchProofs` | `NeverQueriedTwice`, `CheckpointAgrees` |
| `FileGrows`, `FileStaysWhole` | `StreamBatchProofs` | `CheckpointFileGrows` and `CheckpointFileWhole`, where one goroutine saves |
| `WorkRunsOut` | `StreamBatchProofs` | each step of a worker uses up a bounded amount of work |
| `TypeCorrect`, `InvCorrect` | `DomainMonitorProofs` | the inductive invariant `MonitorInv` holds |
| `StoredCorrect`, `ToldCorrect`, `BoundCorrect` | `DomainMonitorProofs` | `AlertedIsStored`, `ChangesTold`, `StartBounded` |
| `RecordsInOrder` | `DomainMonitorProofs` | `RecordedInOrder`, where only rounds check |
| `ChangedForGood` | `DomainMonitorProofs` | an alerted watch alerts at each answer, for good |
| `PoolKept`, `ChargedWasDialled` | `ClientProofs` | `PoolSound`, `ChargedIsDialled` |
| `QueriesEnd`, `ClientTyped` | `ClientProofs` | `QueriesShrink`, `TypeOK` |
| `OneLabelUnanswered` | `ClientProofs` | no domain below a one-label suffix is answered; `ServerKnown` where there is none |
| `NilOnlyFromEmptyList` | `ClientProofs` | no query dereferences a nil proxy, where no loaded list is empty |
| `McpTyped`, `DoneIsApproved`, `TablesTogether` | `McpProofs` | `TypeOK`, `DoneUnlessRaced`, `TablesAgree` |
| `FinishedStays` | `McpProofs` | `FinishedKept` |
| `RequestLockSuffices` | `McpProofs` | `DoneMeansApproved`, where no two handlers work on one request |
| `RatesHold`, `WindowsHold` | `ControlProofs` | `RateHeld`, `WindowHeld` |
| `RefusalsHeeded` | `ControlProofs` | `BackoffHolds`, for any multiplier and configuration that lets back-offs grow |
| `AdaptsInRange` | `ControlProofs` | the scheduler keeps its types: rates and intervals stay between the least and the greatest configured, in whatever order these are |
| `CheckedServersServe` | `ControlProofs` | `CheckedServed` |
| `RecordsKept`, `FileFollowsTable` | `ControlProofs` | `HistoryKept`, `FileFollows` |
| `RecordsStoredAtOnce` | `ControlProofs` | `History` implements `RecordStore` |
| `ProvidersWired` | `ControlProofs` | `SetupWired` |
| `RelationsAsShown`, `RelationsToldAlike` | `AnswerProofs` | `StrengthShared`, `RelationsMirror` |
| `BatchIsCounted`, `EachAnsweredOnce` | `AnswerProofs` | `BatchCounted`, `AnsweredOnce` |
| `RecordsCompare` | `AnswerProofs` | `RecordsCompared` |
| `MetricsAgree`, `ProvidersAgree` | `AnswerProofs` | `MetricsHold`, `BackendsAgree` |
| `PartsRun`, `ServicesTyped` | `ServicesProofs` | each part of `MCServices` runs by its own specification; `TypeOK` |
| `NoAlertSent`, `AlertStopsAll` | `AlertProofs` | no alert is recorded or sent; the first one shuts the manager |

All for any number of workers, domains, checks, callers, proxies, servers, requests, tasks,
keys, providers and reporters, and for any rates, intervals, durations, windows, records and files that the
named assumptions of the modules allow. Of these, most say that a marker is not a value
(`Nil` is no section, "none" no task, `None` and `Torn` no table) or that a set the code
holds in memory is finite; `KeyLimitsAssumption` has a highest rate limit, since the code's
limit is an `int`.

*Batch.* `IInv == TypeOK /\ SentBeforeDurable /\ EndedCoversBatch /\ NoSendOnClosed
/\ TasksAccounted`. The ending needs `TasksAccounted`: in an uncancelled run each
position is answered, waiting, or in the hands of a worker that has not sent it,
and a worker leaves only when nothing waits. The refinement then maps each
step to one of `BatchPromise` or to none. The two properties of the counts rest on a
second invariant, `Accounts`, beside `IInv`: for a list without duplicates a task is
waiting or in one pair of hands, and not yet in the checkpoint (`TasksOnce`); the counter
is ahead of the checkpoint by the workers between the two updates, and a position of an
uncancelled run is recorded, waiting or in hand (`CountsMatch`); for any list the two
tallies, in memory, in a saver's buffer or in a file, cover the domains saved with them
(`TalliesCover`). `FileGrows` assumes `OneSaver` (one worker, no Cancel), without which
the violation run shows torn files: `FileInv` follows a save, from the copy it takes to the name
it gives, each of which has what the file has and nothing the checkpoint of the run lacks.
Under the same assumption `FileStaysWhole` shows that the file is never torn, whatever crashes or
fails (`FileReplaced`: it changes only by a rename, to a whole one), so that the second saver is the whole cause.
`WorkRunsOut` is the part of `BatchEnds` that needs no fairness: `WorkLeft` gives every
pending task twelve steps, as many as lie between taking a task and renaming the file, and every
worker the steps it has ahead; each step of a worker lowers it, nothing within a run raises it, and a
run begins with no more than twelve for each domain and one for each worker.

*Monitor.* `MonitorInv == TypeOK /\ AlertedIsStored /\ ChangesTold /\ RoundsKept /\ StartBounded`.
The first two rest on what `Apply` does with an answer that another check, a
removal or a renewed watch has made stale, with a save that may fail. Each round has a
semaphore of its own, so the bound of a Start needs `RoundsKept`: checks are left to an earlier
round only by a Start that is cancelled, which spawns no more (`LateCancelled`, `LeftCancelled`), so that those
under way are all of one round (`OneGroup`). `RecordsInOrder` assumes `RoundsOnly` (no CheckNow, one Start,
no renewed watch): `RoundsApart` says that a domain is with one check at most, that
what a round has still to spawn is with none, and that none is under way between two rounds
unless Stop came; the answer a check holds is then not older than what is recorded (`AnswersFresh`).
`ChangedForGood` is the general form of what `MonitorSettles` shows once: a status of "changed" or "error" is
no class of days remaining, so every answer with an expiry date differs from it.

*Rate limiter.* `RateHeld` is not inductive: a bucket could have granted all that is
allowed and still hold tokens. `LimiterInv` adds that what a bucket gave since a
second until it was last asked, together with what it holds, is covered by its
capacity and the refills between the two, and that it has given nothing since.

*Server table.* `CheckedServed` speaks of the failures that were reported, while the code
goes by its record. `HealthInv` says that each
record's count equals the failures in a row its checks reported, that it is held
healthy exactly while known and below `MaxFailures`, and that a check which found
a server's record still has one to write to.

*Client.* `ClientInv == PoolTyped /\ PoolSound /\ QueriesFit /\ AloneMeansAlone /\
ChargedIsDialled`. `PoolSound` is inductive with the types of the pool; that the
index stays in the list needs that the first available turn exists, the least
number of a set. `ChargedIsDialled` needs that nobody else is under way while a
query is alone. `QueriesEnd` is a lexicographic measure in one number: attempts
times more than a try of all proxies can take, then proxies left, then the place
within the try; each of the six steps is shown to lower it (`StepOnward`). With the
fairness of the goroutines it is why a query ends; fairness itself is not part of the proof.
`ClientTyped` needs more than types: that no more than two referrals are followed. `Led`
says which server a query asks next by the responses it has: the one the first refers to, or
the registrar's server in the second where the first had none; a third response names no other.
`OneLabelUnanswered` says how far `ClientNoServer` reaches: a query that is sent or stored, and
every response in the cache, is of a domain below a suffix of two labels (`QueriesPass`, `CacheBelow`). `NilOnlyFromEmptyList` shows that a list with a proxy always gives
one, since a pool of which none is available is reset, so that only a reload to nothing is to be feared.

*MCP store.* The three invariants need to know what a handler that stands between
its check and its act holds: `McpInv` adds `CallsOwn` (the tasks a call is about, or may list
again, exist and are of its request alone, which no call for another is about), `ListsApart` (no task is in two lists),
`ApprovedOnce`, `FinishHolds`, `DeleteHolds` and `ChangeHolds` (what a check saw is still so, and
the list a deletion has read is still the list, or the race that changed it has met) and `RacesMet`. What `Unlisted`
may store is of the two lists it is made of (`UnlistedTasks`), and the list without the task where no race met
(`UnlistedAlone`). `RequestLockSuffices` assumes of a behaviour
that no two calls under way are about one request (`OneCallPerRequest`), as a lock per request would
have it: then no race meets, and the documented meaning of "done" holds.

*Alerts.* `HeldInv`: from its tick on the checker is a reader, so that nobody has the
lock, and it gets no further than to the call of `Lock`. Users and checker are told apart.

*Scheduler.* `SchedulerInv` adds to the types that the adaptive bucket was last
asked in the past and `BackoffReaches`: where back-offs grow, the time a refusal wants is never
beyond what the present back-off reaches from now, so a new refusal reaches at least as far. That rates
and intervals stay among what was configured needs no order of the bounds: each step goes towards a
bound and stops at it, and one that overshoots lands on another.

*Request windows.* `WindowHeld` speaks of any stretch as long as a window, while the limiter's
own windows have fixed ends. `KeyLimitsInv` says that what was admitted since the limiter's
window began is what it counted, that a stretch from before it holds at most one highest limit more,
and that a client whose limiter was thrown away has had one limit at most in the last window
(`WindowOpen`), for the limiter was idle for longer than that.

*Key file.* `KeysCore` adds to the first part of `FileFollows` what a call that met no other holds: the others are
idle, its copy is the table and so is what it is about to write (`AloneHolds`). What torn,
mixed or failed writes left in the file before does not matter to it. For the second part `SinceHolds` follows a
key through the table, the copies, what is about to be written and the file: each has only what
the key could be read as since the last such call, which finds the others idle and so nothing older in hand.

*Configuration.* `SetupInv` says, for each number of sections left, what those that
are done have wired (`WiredSoFar`), and that a storage was there before the first if and only if
`stored` says so.

*History.* `RecordsWhole` and `FoundUnlessRebuilt` are inductive with the types and
`SavedSnapshots`: what a writer is yet to index is a snapshot. In the refinement the rename
is the save of `RecordStore`; opening the temporary file, a rebuild and a search are no step of it.

*Relations.* `StrengthShared` sums over clusters; `CorrelationInv` says that a
cluster has no domain twice (`EachOnce`), has just the domains that ever showed
its attribute (`ClustersShow`), in the order they first did (`BeforeFollows`), and that what a record
shows today was shown (`ShownBefore`). The attributes two domains share then split into those of the one edge and
those of the other. It assumes finitely many attributes.
`RelationsMirror` is about one state: each line is read from both ends.

*Batches of numbers.* `LookupsInv` says of each moment of a batch what `BatchCounted` says of
its end: what was counted and what is under way make up the list (`BatchTally`), each
query is for the number at its position (`BatchShape`), and a detail, in the cache or
in a query's hands, is of a source that answered (`Sourced`).

*Aggregator.* Everything rests on `~overlap`: as long as no two touch the heap at once, one
ExecuteAll runs and what it or AddQuery read of the heap is the heap still (`OneAtATime`),
and each task is waiting, under way or answered, in one place (`Placed`). A task that was
popped is answered by its goroutine before the join that ExecuteAll waits for.

*Comparisons.* The types suffice: `RecordsCompared` is about any two records, section by
section and with or without each. A text, a section or a list each makes just the changes in which
two views of the records differ, so each comparison is empty just when its views are equal.

*Metrics.* An average stays between the least and the mean only together with the fact that
the least is no more than the mean (`LeastBelowMean`), as products over whole numbers. The
window is the end of all durations place by place (`WindowKept`), from which it follows that
percentiles, which the sorted window defines, exist and are in order; an export's total
was, and so is, no more than the counts (`TotalBehind`).

*Metrics providers.* A counter is what the finished events make of it and the reporters
that are past it; a provider's, with what it missed, the same for those that have told it
(`CountersWhole`); so they agree when nobody reports, and `StatsClose` bounds what a reader sees meanwhile by
the number of reporters. `ProvidersWhole` says that a reporter tells each provider once.

*Services.* `MCServices` runs one of fourteen components per behaviour. `PartsRun` shows that what
it runs is a behaviour of that component's own specification, which the theorems above are
about, so that the run and the proofs speak of the same thing; `ServicesTyped` follows.

Only model-checked: all liveness, since TLAPS does not handle fairness (`BatchEnds`,
`CancelEndsBatch`, `CatchesUp`, `StopReturns`); every other property of a passing run
is a theorem. A violation is a behaviour, which TLC shows; the theorems `FileStaysWhole`,
`RequestLockSuffices`, `OneLabelUnanswered`, `ChangedForGood`, `NoAlertSent` and `AlertStopsAll` say in
general what each of them comes from, or how far it goes. The theorems about
`RecordedInOrder` and `CheckpointFileGrows` have the conditions under which their runs check them,
since without these the code does not do so (section 5). `StoresAtOnce` is proved and not listed
as a property of `Services`, whose part `history` it is about.

## 5. Where the code and its documents disagree

Shown by a violation run (`findings` in `PROJECT.json`): the torn checkpoint
file, the status that stays "changed", the done request with pending tasks, the
client that finds no server, the alert that deadlocks.

Met while modelling, certain by reading, without a run of their own:

* Batch. Two workers can pass the interval test together and neither saves
  (`whois/batch.go:392`). A resumed run counts completed tasks above its total
  (`:224`, `:233`, `:549`). A query cut short by the cancellation is recorded as
  completed (`:349`-`372`). Resuming a finished batch never closes the channel
  (`:545`). Calling Process twice, as `guide/tutorial-batch.md:173` does, closes a
  channel twice.
* Monitor. An answer without a registrant hides a registrant change: the record takes
  over the missing value, and the next one is compared with nothing
  (`whois/monitor.go:409`, `:447`), where `website/api/whois/monitor.md:257` has the
  registrant compared with the last record. A second Start overwrites the cancel function of
  the first (`:276`), which Stop (`:295`) then cannot end. Rounds of two Starts do not
  share a semaphore, so the bound holds per Start only (`:314`). A failed save is only
  logged (`:455`): a restart from the stored state alerts the change again. RemoveWatch leaves the stored state
  (`:237`). CheckNow may apply an older answer last (`:530`). The callback runs
  under the lock (`:519`). CollectAlerts ranges over a channel that nobody closes
  (`:546`).
* MCP. MarkTaskDone takes an approved task back to done and its request back to
  in progress (`mcp/controller.go:217`). Deleting the last unapproved task leaves
  the request in progress. Overlapping deletions remove a neighbour or panic, and tasks
  added while DeleteTask rewrites the list without the lock (`:587`) are lost from it
  and stay in the task table, where no call can reach them.
* Client. With two queries at once an outcome is charged to another proxy
  through the shared dialer (`whois/proxy.go:564`); a reload to an empty list
  under a query dereferences nil (`:556`); "尝试使用不同代理" (`:545`) is not
  guaranteed, since the callers share the index; each proxy is blamed for a
  missing server or a refusal by the limiter; referral queries bypass the
  limiter; the warm-up caches an entry without the raw response, so a proxied
  query of a warmed domain fails to parse until it expires (`whois/cache.go:498`).
* Limiters. A rate below one with no burst has a capacity below one token, and
  `Wait` never returns (`whois/ratelimit.go:45`, `:112`); a call that the server's
  bucket refuses has used up a global token (`:97`).
* Scheduler. An unhealthy server never recovers on its own (`RecoveryInterval` is
  unused); refusals never make a server unhealthy; each adjustment hands
  the adaptive limiter a full bucket (`whois/scheduler.go:472`, `:486`); a success
  does not end a back-off. Nothing compares the configured values (`:171`-`:195`): a multiplier
  below one shortens each further back-off, and a first one above `BackoffMaxMs` is not cut
  (`:314`), where `website/api/whois/scheduler.md:189` has that as its upper limit. `Schedule`
  answers a query the limiter has refused as it does one it grants, with a wait and no error
  (`:254`, `:264`): the caller cannot tell them apart, and one that queries after the wait has no token.
* API keys. Of two overlapping changes the file may keep the older table, or a
  mixture that no longer parses (`security/apikey.go:229`): a deleted or disabled
  key is valid again after a restart. `InitAPIKeys` does not remember its path
  (`:84`), so changes are saved to `config/apikeys.json` and a next start with the same path
  does not see them. A changed
  rate limit does not reach clients that have a limiter (`security/middleware.go:224`).
* Servers. Until the first round of checks, five minutes after the start, no
  server has a record and every domain goes to the default server
  (`whois/servers.go:118`-`:121`); `website/api/whois/servers.md:28` and its first example
  (`:254`-`:256`) have `example.com` answered by its own. The same is so of a server that
  an update adds, until the next round. A missing file is reported as an error and not
  created (`:605`), as `servers_extra_test.go:226` notes.
* Configuration and history. A history enabled where there is no storage gets a nil
  one (`whois/history.go:125` assigns to a variable of an inner scope) and its first use
  panics. Applying a configuration never disables a section (`whois/config.go:646`), and
  `MergeWhoisLibraryConfigs` (`:741`) drops the provider sections of its overrides. `DeleteAlert`
  deletes the first record with the ID only; two snapshots of one domain in a
  second overwrite each other; a rebuild loses what was saved after its list was read;
  the index keeps entries of deleted snapshots.
* Aggregator. Each success is counted twice in `TotalQueries` (`whois/query.go:576`, `:601`);
  an AddQuery beside a Pop, or two calls of ExecuteAll, lose tasks or panic (`:568`); a
  domain added twice has one result.
* Correlation. An edge a|b and an edge b|a stand beside each other (`whois/correlation.go:481`),
  where `website/api/whois/correlation.md:234` merges them into one with the strength of both;
  a registrar has an entry in the statistics for each spelling (`:587`), and one cluster (`:278`);
  `GetRegistrarStats` dereferences nil for a domain added without a record (`:576`).
* Metrics. The running average drifts below the mean by what each division cuts
  off, a shortest time of 0 is forgotten, and `GetMetrics` hands out live maps
  (`metrics/collector.go:190`, `:182`, `:284`). `InitMetricsWithProviders` has no effect
  after the first recorded event (`whois/observability.go:491`).
* Lookups. The cache knows only the number: a caller who asks one source gets the
  detail of another, or one without the prefixes it wants, and a RADB answer that broke off is
  cached (`whois/asn_enhanced.go:137`, `:200`). `asn_bgp.go` ignores lines of the customer
  type in its answers' lists (`:213`-`240`), and describes the provider type in two ways
  (`:20`, `:31`). The end of an address range is not checked against the mask
  (`whois/ipparser.go:836`). `RefreshInterval` is not used.
* Records. `CompareSnapshots` does not see the status (`whois/history.go:353`);
  `CompareWhois` does not see the ID, the domain, the name, the punycode and the extension
  (`whois/diff.go:79`-`:104`), nor a change of case in a list (`:150`-`:155`), which
  `CompareSnapshots` reports (`whois/history.go:389`). A registrar section of
  a referral replaces a fuller one (`whois/query.go:299`). The quality weights
  add up to 99 and no score is above 96; a redacted contact scores below a missing
  one (`whois/quality.go:343`).
* Availability. A domain is never found available through the default provider:
  the text compared (`whois/availability.go:84`) is wrapped by then (`whois/query.go:371`).
* API server. With metrics on, a failed query dereferences a nil result
  (`api/server.go:190`).
* Cache. The entry count of the Redis cache is incremented by overwriting and not
  decremented by expiry (`whois/cache.go:392`); a life span that is not positive
  is stored for ever.
* Engine. `QueryOptions.Timeout` has no effect: `executeQueryWithTimeout`
  (`whois/query.go:418`) is not called, and an attempt lasts as long as its dialer lets it.

## 6. Plan

In order; each module is written to be proved about (constants with named
assumptions, one action per operation, no RECURSIVE operator).

1. Done: `StreamBatch` with `BatchPromise`, `DomainMonitor`, `McpTasks`,
   `QueryClient`, the limiters, `AlertManager`.
2. Done: `ApiKeys`, `KeyLimits`, `ServerTable`, parts of `Services`.
3. Done: `Setup`, `History`, `Aggregator`, `Correlation`, `Metrics`,
   `Observability`, `Lookups`, `AsnRelations`, `Records`.
4. Done: proofs about the client, the MCP store, the scheduler, the history, the
   correlation engine and the BGP relations.
5. Done: proofs about the key file, the request windows, the configuration, the batches
   of numbers, the aggregator, the comparisons, the two metrics, the types of the client, the order
   of the monitor's records and the growth of the checkpoint file.
6. Done: what each of the five violations comes from, as theorems; the work of a batch as a
   measure; `RecordStore` and its implementation by `History`; the parts of `MCServices`.
7. Left: the Redis backends with their entry count; a second Process on one batch
   processor; `QueryClient` with `RateLimiter` in place of a limiter that may refuse
   anything, if its state space allows; abstract specifications for the key file and the
   aggregator, as `BatchPromise` is for the batch.

## 7. Running

`tlc -config X.cfg M` for a run of `PROJECT.json` (its module is the `MC` module of the table's
row), `tlapm M.tla` for a proof module. The mutants in `PROJECT.json` name, for
every checked property, a change of a modelled definition, written as an operator
beside it, that TLC finds to break that property.
