# Verification of megaraid-dashboard

megaraid-dashboard polls one MegaRAID controller through `storcli`, keeps the
polls and the events derived from them in SQLite, announces incidents by
Telegram and e-mail, and lets an operator run a small set of controller actions.
This directory holds TLA+ models of its stateful parts, the TLC configurations
that check them, and TLAPS proofs.  All source paths are relative to
`src/src/megaraid_dashboard/` unless they start with `src/`.

Check a model with `tlc -config <file>.cfg <module>`, a proof module with
`tlapm <module>.tla`.  `PROJECT.json` maps every definition to the lines it
models and lists runs, mutants, hazards, findings and theorems.

## 1. Inventory

| Component | State | Operations | Talks to | What makes it correct |
|---|---|---|---|---|
| Collector and scheduler (`services/scheduler.py`, `services/collector.py`) | snapshots, system events, job handles, one asyncio write lock | `run_once`, failure recording, retention, free-space check, notifier job, start, shutdown | storcli, detector, database, both channels | a poll and its events are one transaction; one outage event per outage; recovery is recorded |
| Event detector (`services/event_detector.py`) | previous snapshot, persisted temperature states, in-memory foreign-config flag | `detect` | collector | one event per change; replaced disks start afresh |
| Telegram queue (`services/telegram_notifier.py`) | `event_deliveries`, `telegram_not_before`, health | `run_telegram_cycle_async`: load, defer, skip, claim, send, record | transport, relevance, database | at least once, no repetition without cause, embargo kept, nothing starves |
| Telegram relevance (`services/telegram_relevance.py`, `telegram_messages.py`) | reads events and snapshots, writes RoC clear timestamps | `delivery_relevance`, `incident_superseded` | queue | only current incidents are sent |
| Telegram transport (`alerts/telegram.py`) | none | `send_async` | provider | bounded time and size, bounded hints |
| E-mail notifier (`services/notifier.py`, `alerts/transport.py`) | `events.notified_at`, health | `run_notifier_cycle` | SMTP server, database, maintenance window | same as above, one mail per key and window |
| Maintenance window (`db/dao.py`, `web/routes.py`) | one JSON record | start, stop, expiry | e-mail phase, write path | a stopped or expired window never allows writes |
| StorCLI write path (`storcli/runner.py`, `prewrite.py`, `policy.py`) | policy file, pinned binary | prewrite reads, dispatch | routes, controller | no write without current authorisation; unknown outcomes are reported as unknown |
| Replacement workflow, operator actions (`web/routes.py`, `services/drive_actions.py`) | audit log, controller state | offline, missing, insert, locate, alarm, patrol read, consistency check, foreign config | write path | steps in order, on the same disk; success means audited |
| Rebuild and consistency-check markers (`web/routes.py`) | events | record once per cycle | browser polling | at most one record per cycle |
| Login rate limiter (`web/rate_limit.py`) | attempts per client | reserve, release, evict | authentication | failures per window bounded, valid logins not counted |
| Leader election, lifespan (`app.py`) | process locks, metrics server, retry task | acquire, retry, start, shutdown | scheduler | the jobs run in one worker only, and in the end in one |
| Retention (`db/retention.py`) | raw, hourly, daily samples | downsample, prune | scheduler | nothing is pruned before it is summarised |
| Free-space monitor (`services/disk_monitor.py`) | disk-space events | check | scheduler | an edge is reported, repeats are suppressed for 6 h |
| Authentication, CSRF, pages, parser, metrics, configuration, migrations | none of their own, or none that changes at run time | | | left to tests |
| Deployment tool (`src/scripts/deploy_release.py`) | receipts, recovery contexts, override and environment files, release directories | apply, adopt, rollback, status | systemd, file system | what was changed is on record, final receipts are true, nothing of others is overwritten |
| Rollout helpers (`src/scripts/locate_activity.py`, `storcli_rollout.py`) | none that others read | one-shot commands | operator | left to tests |

The hard behaviours: the notifier releases the write lock during HTTP while the
collector goes on writing; a crash, an aborted transaction or a lost answer can
fall between a send and its record; deadlines live in the database and outlive
the process; events of one incident pile up while a channel is down; web
requests write to the same event log from outside the lock; polls fail, succeed
and vanish in any order; workers start, fail and die while they compete for one
lock; overlapping requests of one client and overlapping pages write the same
records; a deployment is interrupted between any two of its durable changes.

## 2. Modules

| Module | Models | Used by |
|---|---|---|
| `Incidents` | what one poll shows of a monitored object, the detector's events, and when an event still describes the hardware | `TelegramDelivery` |
| `TelegramDelivery` | the Telegram queue with the collector, the clock, crashes and the provider around it | `MCTelegram`, `TelegramProofs` |
| `AlertChannel` | the abstract at-least-once channel | refined by `TelegramDelivery` and `SmtpNotifier` |
| `MonitoringOutage` | failed polls, outage and recovery events, Telegram's decision on them, the rebuild marker | `OutageProofs` |
| `SmtpNotifier` | the e-mail cycle in its one transaction | `SmtpProofs` |
| `OperatorWrites` | one operator request from the capability gate through its handler and `run_storcli` to its audit row, with the maintenance record, the policy file and restarts around it | `MCWrites`, `WritesProofs` |
| `ReplaceWorkflow` | the three replacement steps on one slot, with the drives, the snapshot and the audit log the insert gate reads | `MCReplace`, `ReplaceProofs` |
| `RateLimiter` | the login rate limiter with the authentication and CSRF middlewares around it | `MCWeb`, `WebProofs` |
| `StatusPolls` | pages that poll a rebuild and the consistency check, and the records they make | `MCWeb`, `WebProofs` |
| `ForeignSafety` | import and clear of a foreign configuration: review, confirmation and each safety read, with the controller changing in between | `MCWeb`, `WebProofs` |
| `CollectorLeader` | the process locks, start, retry, tracked jobs, shutdown and death of several workers | `MCBackground`, `BackgroundProofs` |
| `Retention` | downsampling and pruning over raw, hourly and daily samples | `MCBackground`, `BackgroundProofs` |
| `CollectorJobs` | the detector's foreign-configuration flag and the free-space monitor | `MCBackground`, `BackgroundProofs` |
| `RocTemperature` | the controller's temperature from the sample over the stored clears to the Telegram verdict | `MCBackground`, `BackgroundProofs` |
| `DeployRelease` | the deployment tool with systemd, the service and an administrator | `MCDeploy`, `DeployProofs` |
| `MCTelegram`, `MCWrites`, `MCReplace`, `MCDeploy`, `MCWeb`, `MCBackground` | symmetry, constants and side-by-side compositions for TLC | |

Definitions named `Fault...` are wrong variants that the specifications never
use.  Put in place of the definition that follows them, each one violates a
property; `PROJECT.json` says which.

### TelegramDelivery and Incidents

The database (`log`, `snapshot`, `snapAge`, `failedPoll`, `delivery`,
`cooldown`) survives a crash; the notifier's locals (`pc`, `batch`, `current`,
`blocked`, `sendsLeft`, `failed`, `hint`) and the module-level health do not.
Each section of the code between taking and releasing the lock is one action
ending in its commit: `CycleStart` (repair of deadlines, load), `Requeue` (its own
commit inside the section; `LockFree` keeps others out until the section goes
on), one action per early exit of the candidate loop (`DeferUnconfirmed`,
`SkipEnded`, `SkipObsolete`, `DeferAwaiting`, `SkipDuplicate`, `DeferChannel`), `Claim`,
then the provider outside the lock, then `RecordSent` or `RecordFailure`, and
`CycleEnd`.  `Decision` keeps the order of the code's exits.  `PollOk` is the whole of
`run_once`: reading, events and temperature state in one transaction.

An object stands for one dimension of one subject: a drive or CacheVault state,
a flag, an error counter or a disk temperature.  State texts are levels; a disk
is its serial number.  One object changes per poll.  A timestamp is kept as its
distance from the clock in ticks of one notifier interval and saturates where no
comparison can tell the values apart, so there is no time horizon.

### MonitoringOutage

Times are absolute and bounded.  `epoch` counts successful polls and is only
observed: properties speak of outages by epoch while the code compares times.
`_monitoring_stale_summary`, the recovery check and the dedup check are operators
over the event log.  `RebuildObserved` is the only other writer of category
`system` that a browser triggers; `Watched` switches it off.

### SmtpNotifier

A cycle has a fixed `now_utc` (`cycleNow`) and a set of pending events; its marks are
visible to its own dedup query (`mark_event_notified` flushes) and reach the
table at the single commit.  `CycleAborts` and `Crash` lose them although the mails are
out.  The collector's jobs wait for the cycle; web requests (`WebKeys`) only for the
database's write lock, which the cycle holds from its first mark on.  An active
maintenance window keeps a cycle from starting and touches nothing else.

### OperatorWrites

A step is what the event loop runs between two awaits.  `Gate` is
`require_controller_capability`; one action per kind of handler takes the request to
its live read (`preread`), or straight to `run_storcli`; `LoadApproved`, `Prewrite` and
`Dispatch` are the three readings of the policy, which an administrator may edit
between any two of them.  The last reading, the check of the binary, `before_write`
and the start of the process are one action because nothing is awaited between
them.  `wire` is the controller's side of a command: after a timeout it may still
be applied.  What a snapshot or a live read shows is left open, so a handler may
always refuse; which answer it gives and whether it writes an audit row first
follows the code for each kind.  The two readings of the policy inside the gate
count as one.  Requests share nothing but settings, files and
the maintenance record, which they only read; one request is enough for TLC, and
the theorems hold for any set of requests.

### ReplaceWorkflow

Several requests act on the same slot.  An insert loads the snapshot's drive, then
the latest audit row, then the live drive, each in its own step; drives may be
pulled and seated and polls may come between them.  Of the audit log only the row the
gate looks at is kept: the latest unmarked `operator_action` row of the slot (locate
rows do not count with full actions, the advanced drive actions have categories of
their own).  `wasMissing` is observed: the drives that really were in state Msng.
Maintenance, policy and safety reads may refuse at any time (`WriteRefused`); they are the
subject of `OperatorWrites`.

### The web modules

`RateLimiter`: a slot is reserved on arrival and given back by the verdict or the end of
the request; each body under the asyncio lock is one action.  `held` is the
dictionary of deques as one set, which is enough because the deques are in the order
of the clock.  `StatusPolls`: the rebuild pages read the controller, then take
SQLite's write lock with `BEGIN IMMEDIATE`, read the log and insert; the
consistency-check pages query in an ordinary transaction and wait for the lock
only when they insert.  A read of "complete" may therefore be recorded in the cycle
that a later insert opened.  `ForeignSafety` splits `check_foreign_safety` into its commands.
The digest names the shape and adds a hash of the metadata, taken as injective.

### The background modules

`CollectorLeader`: a worker's `stage` follows `_lifespan`; the metrics server and the scheduler
have flags of their own.  `submitted` are jobs that APScheduler has handed to the
event loop and that have not begun, which `_active_jobs` does not show; `Yield` is the
`asyncio.sleep(0)` that lets them begin.  A worker whose metrics server is stopping may
still take the lead in its retry task; it gives it back when it drains.  After the
death of the worker with the metrics server nobody starts another one until a
worker starts.  `Retention` keeps of each sample its day and hour; a bucket is the
set of its samples.  In `CollectorJobs`, `slipped` observes that a poll was rolled back after
the detector had changed its flag: the announcement of that poll is lost, as is a
"cleared" across a restart.  `RocTemperature` numbers polls instead of timing them;
`tracked` observes from which poll on clears are stored, so that a database of an
older version is covered.

### DeployRelease

One action per durable change of `_apply_locked` and `_rollback`, in their order; the
checks between two changes are the guard `Ready` of the next one, and `StepFails` is
every exception: the guard is false, or the step itself raised.  The receipt, the
context on disk and the context in memory are separate variables because their
order is the point.  `ToolDies` may come anywhere, the service manager may reload and
restart the service anywhere, and an administrator may edit the override or the
protected files anywhere.  Hashes are abstracted to the release they belong to; the
lock admits one run of the tool, so one job is enough.

## 3. Runs

| Run | Bounds | What it shows |
|---|---|---|
| `telegram_repeats` | one counter, 2 events, 1 fault, hints up to one above the bound, an old embargo above it | messages repeat only for sends of unknown outcome; one message per incident and window; honest health; bounded waits; embargo kept; refinement of `AlertChannel` |
| `telegram_claims` | one temperature, 2 interchangeable disks, 2 events, 1 fault | a message is committed to be sent only when a fresh successful poll shows the incident on the same disk, and a warning only after its confirmation |
| `telegram_liveness` | two objects, one candidate and one send per cycle, 1 fault | an incident that stays is announced |
| `outage_reports` | one slot, 7 events, 7 time units | one report per outage, none missing, no late message; a message is dropped as a repetition only behind a rebuild marker |
| `outage_recurrence_muted` (violation) | as `outage_reports` | see finding 1 |
| `smtp_mails` | 3 keys (one muted, one with the long window), 3 events, 4 time units, 1 fault | mails repeat only for lost marks, duplicates stand behind a mail, mails keep their distance, healthy cycles are complete, refinement of `AlertChannel` |
| `smtp_suppression` (violation) | one key, 3 events | see finding 2 |
| `writes_authorised` | one request of any kind, all settings, 4 policies, 1 edit, 1 restart, 2 ticks | commands start only with current authorisation; "not sent" and "succeeded" are true; no silent command; every request is answered |
| `replace_records` | 3 requests, 2 drives pulled twice at any time, 1 restart | the Missing row is true, inserts follow another drive's Missing |
| `deploy_recovery` | two chained candidates, 1 edit, 2 deaths or errors | what was changed is on record; "verified", "rolled_back" and "not_activated" are true; only own files are overwritten; an interrupted deployment is settled in the end |
| `background_jobs` | 3 workers, 2 jobs, 3 failures; 5 days of 2 hours; 6 time units; 4 polls over 5 temperatures | one leader, and again one after failures; no sample lost or counted twice; the foreign flag and the free-space log agree with their events; temperature messages are true |
| `web_requests` | 4 requests of 2 clients, limit 2; 2 pages, 5 records; one foreign import, 2 slots, 4 changes of the controller | the limiter's bound and its fairness, one record per cycle, repetition only by an overtaken poll, foreign writes only after reads that prove their instant |

Why these bounds suffice for the cases meant: two events make pairs (dedup,
superseding, order of candidates, both limits reached); one fault can be placed at
every step, and the proofs cover any number of them; delays of one and two
ticks fall below, on and above every window used; three failed polls and two
outages fit into seven time units; a maintenance window of one tick can begin and
expire at every step of a request; offline, missing and insert of a full
replacement are three requests; three workers are a leader, its successor and one
that fails in between; a rebuild that starts and is given up between the reads of
two slots, together with a swap and a change of the configuration, are four changes.
In `web_requests` and `background_jobs` the parts share no state and `part` lets one of them move
at a time, which loses nothing for properties that speak of one part.

Fairness (`FairSpec` of `TelegramDelivery`): weak fairness of the clock, of the
collector's and notifier's interval jobs and of the steps of a started cycle,
because APScheduler runs them again and again and a cycle has no unbounded wait
(HTTP is cut off after 10 s); weak fairness of the restart, the service manager's
task; strong fairness of an accepted send, which assumes that Telegram does not
reject every attempt for ever.  Without the last one nothing can be promised.
Crashes, aborts, failed polls and lost answers are not fair and are bounded.
`FairSpec` of `OperatorWrites` is weak fairness of each request once it is let in: every read and
command it awaits is under the timeout of `run_storcli`, and the controller itself is not
assumed to act.  `ReplaceWorkflow` has no liveness property.
`LeaderFairness` is weak fairness of every worker's own steps (including its retry round,
which repeats each interval) and of its jobs, which have timeouts; failures and
deaths are bounded.  `FairSpec` of `DeployRelease` is weak fairness of the running tool, whose commands
all have timeouts, and strong fairness of an operator who answers an unfinished
receipt with `rollback`; the property excepts edits by others and a second
deployment, both of which the tool refuses to touch.

### Findings

1. *A second outage is muted.*  `_latest_system_event_was_collection_failure`
   (`services/scheduler.py:433`) looks at the newest `system` event.  A rebuild progress
   marker recorded by an open page after a failed poll hides the failure, and
   the next successful poll records no "Collection recovered".  Without that event
   the first outage is not superseded, and `_same_incident_sent_since` drops the
   message about a second outage within 24 hours.  (`MutedOnlyByMarker` shows that nothing
   but such a marker does this.)
2. *E-mail suppression renews itself.*  A suppressed event is marked as notified
   and counts as a notification for the next one, so a key whose events keep
   coming within the window gets one mail and then none, however long it lasts.
Limits of the code that the models show, without a run of their own:

- The first of the three policy readings is compared with the last while the one in
  between approves, so an edit that is reversed within one request goes unnoticed.
- The insert gate is evaluated once, several awaits before the dispatch, so an
  action recorded meanwhile does not reset it.  A failed safety read of an insert in
  `run_storcli` closes the gate although nothing was sent (`web/routes.py:1841`).
- The replacement handlers answer 403, 404 and 409 without an audit row
  (`web/routes.py:1232`); the foreign-configuration handlers record every refusal (`:3713`).
- The reads of a foreign write prove one instant without a rebuild, not the whole
  interval up to the command.
- The configuration does not require the hourly period to be at least the raw one;
  `SamplesKept` is conditional on it.
- `apply` overwrites an override that is edited while it installs.
- "not_activated" promises "failure before restart; existing application retained"
  (`src/docs/VERSIONED_DEPLOYMENT.md:118`); a restart of the unit between daemon-reload and
  the failure may already have started the candidate from the new override.  `RestoredIsTrue` excepts this (`stray`).
- A rollback of a candidate on which another one was half deployed can leave the
  latter's own rollback without its previous override.

## 4. Proofs

The theorems hold for all values of the constants that satisfy the named
assumptions (`ObjectsAssumption`, `DeliveryAssumption`, `OutageAssumption`,
`SmtpAssumption`, `WritesAssumption`, `ReplaceAssumption`, `LimiterAssumption`, `PollAssumption`,
`ForeignAssumption`, `LeaderAssumption`, `RetentionAssumption`, `JobsAssumption`, `RocAssumption`, `DeployAssumption`: bounds are natural numbers,
delays that must be positive are, names of nobody and nothing are not members of the
sets they stand beside, the backoff reaches its maximum within the counted attempts).

`TelegramProofs`: `TypeCorrect`, `RepeatsAreJustified`, `EmbargoIsKept`,
`HealthIsAlwaysHonest`, `WaitsStayBounded`, `ChannelImplemented`, `ClaimsStayCurrent`,
`OneMessageEach`, `NoAlarmIsLost`.  `TypeOK` alone is not inductive:
`InHand` adds that the event being sent is a recorded one.  `SafetyInv` adds `BatchOpen`
(a waiting candidate is unsettled and is not the one being sent: otherwise a settled
event might be claimed again), `Counted` (accepted messages are covered by what the
row knows plus the uncertain sends) and `EmbargoOver` (a cycle that may send has
seen no embargo).  `ClaimsStayCurrent` needs no more than that a row becomes `sending`
in `Claim` only, in the lock section of the decision.  `OneMessageEach` adds
`Spaced`: of two messages about one incident that are out or under way one is
already older than the window, because the later claim found it so and ages
of sent rows only grow; a claimed row counts from its claim, as in the code.

`NoAlarmIsLost` goes from the poll to the message and no run states it: whatever state,
flag or temperature is critical in the newest reading has an event about that disk and
level that nothing superseded and that the notifier has not given up, unless for a
message about the same incident (`AlarmsKept`).  It is the safety half of
`OpenIncidentsAnnounced`, which speaks of recorded events only.  The proof follows the
events of one poll (`DetectAlarm`: the alarm comes last among them) and the three skips
(`AlarmSurvivesSkips`), strengthened by `LevelsFit` beside `SafetyInv`.  Counters are
left out: one that falls leaves an event about a count that is no longer shown, and no
new one.

`OutageProofs`: `OneReport`, `OutageReported`, `MessagesCurrent`, `OnlyMarkersMute`, `UnwatchedIsAnnounced`.
`OutageInv` adds `Timeline`, which
says that comparing times with the last success and comparing epochs agree,
and `BeganBefore`, needed while there has been no success and the outage is
counted from its first failure.  `OnlyMarkersMute` needs `MutedInv`: the log is ordered by
epoch, a recovery is the first event of its epoch, and an outage that is over is followed
by its recovery or by a marker of its own epoch.  `UnwatchedIsAnnounced` is the other side of
finding 1: with `Watched = {}`, so that no page records markers, `RecurrenceAnnounced`
holds for every history.

`SmtpProofs`: `MailRepeats`, `DuplicatesAreMailed`, `MailsAreSpaced`, `HealthyCycles`,
`MailChannelImplemented`.  `SmtpInv` extends each property from the table to the
uncommitted marks: `CycleState` (marks concern unnotified events, table times are not
later than the cycle), `Counted`, `Rooted`, `Spaced`, `Complete`.

`WritesProofs`: `WritesAuthorised`, `NotSentTruthful`, `SuccessAudited`,
`NoWriteIsSilent`.  `WritesInv` adds to the properties what is known on the way: a
request under way has passed the gate of the settings the process still has (`Admitted`:
a restart loses all requests), a command exists only behind `Dispatch` (`Sent`), and the
row about to be saved is already true (`Pending`).  `WritesAuthorised` then follows from
the guards of the two actions that start a command.

`ReplaceProofs`: `MissingRowTrue`, `InsertsFollowMissing`.  `ReplaceInv` adds that a
slot in state Msng holds a drive of `wasMissing`, that a pending successful Missing row
is true, and that an insert past its gate has another drive's Missing behind it; all
three survive swaps and late commands because `wasMissing` only grows.

`WebProofs`: `LimiterBounds`, `LimiterIsFair`, `RecordedOncePerCycle`,
`RepeatsAreOvertaken`, `ForeignWritesProved`.  The limiter's bound needs `SlotsMatch`
(the requests that count against a client are those whose slots it still holds) and
facts on cardinalities; `OncePerCycle` needs that the log of a slot does not move while
a page holds the write lock (`LogIsLocked`); `ForeignWritesProved` that a slot whose
status was read had no rebuild in the first inventory, so that the second, equal one has
none at all (`AskedIdle`).

`BackgroundProofs`: `OneLeaderWorks`, `EverySampleKept`, `ForeignIsAnnounced`,
`DiskLogIsQuiet`, `RocMessagesAreTrue`, `HotChipIsTold`.  `Leading` says that a worker
with a scheduler or a job has the lock, also while it stops; `RetentionInv` places every
bucket completely on one side of the two cutoffs, which move forward only; `RocInv` adds
to the property that no clear seen by a process that stores clears is later than the
stored one (`ClearsStored`), so an event that the stored clear does not end was ended by
none, whether or not the sample is still there.  `HotChipKept`, which no run states, is
the other direction, an alarm that must not be dropped, and inductive beside `RocInv`: a
hot poll adds no event only when the sample before was hot too (`HotIsReported`,
`PreviousSample`), and no retained sample since the newest event can be a clear.

`DeployProofs`: `DeployInvariant`, `ChangesAreRecorded`, `VerifiedProved`,
`RestoredProved`, `RollbackRespectsOthers`.  `DeployInv` adds to the properties that a
context never names anything but the baseline (`ContextTrue`), that a release runs only
when its directory is complete and either the tool or systemd started it
(`ProcessExplained`), that a baseline stays in that state while somebody builds on it
(`BaselineSound`: without it a chain of candidates could pull a baseline from under the
next one), and what each step of apply and rollback leaves for the next (`ApplyInv`,
`MemoryInv`, `RollbackInv`).

Every invariant and every action property of a passing run, and both refinements,
are theorems.  Only model-checked: the liveness properties (`EveryRequestEnds`,
`OpenIncidentsAnnounced`, `LeaderRegained`, `RecoveryCompletes`), which need fairness and ENABLED, and the
two counterexamples.

## 5. Not modelled

- Pages, views, templates, message texts, logging, the parsers other than the
  foreign digest, configuration, security headers: no state that changes at run time.
- Migrations run once, before anything else; building and checking a bundle, `plan`
  and the detached `start` of the deployment tool change nothing durable that `apply`
  would rely on unchecked.
- Baseline, presence and CacheVault capacitance events of the detector; presence
  episodes in the relevance rules.
- What the topology and alarm reads before a write show is an open choice in
  `OperatorWrites`, as is the state of patrol reads and consistency checks.
- A lifespan that is cancelled while it drains, and staged metrics counters.
- `src/scripts/locate_activity.py`, `src/scripts/storcli_rollout.py`: one-shot helpers for the operator.

What would come next: the live reads of patrol read and consistency check in place
of the open choice, presence episodes in `Incidents`, and the counterpart of
`NoAlarmIsLost` for the e-mail queue.
