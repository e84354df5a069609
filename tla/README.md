# bf-price-monitor: a verification project

bf-price-monitor watches product pages of Romanian shops, keeps a price history in
its own git repository, alerts its owner through Telegram, ntfy and e-mail, and has
a small web dashboard for editing the watchlist. This directory holds TLA+ models of
the parts whose correctness depends on order, failure and concurrency, the TLC
configurations that check them on small instances, and TLAPS proofs of the results
that hold for every instance.

## The system

A scheduled workflow (`.github/workflows/monitor.yml`) runs on one self-hosted
machine: restore the runtime state, collect feedback, scrape, analyze, notify, save
the runtime state; a second job merges and pushes the price history. A dashboard runs
on a person's machine, on a git clone of its own.

| Component | Code | State | Operations | Hard because |
|---|---|---|---|---|
| Dashboard save path | `bf_price_monitor/dashboard/` | `pending.jsonl`, `conflicts.jsonl`, the clone's HEAD and work tree, the clone lock | submit, retry, refresh, dismiss | other writers of the branch, crashes, pushes whose answer is lost, a second server, a route without the lock |
| Alert delivery | `scripts/notify.py`, `storage/sqlite.py` | `alert_outbox.jsonl`, the `delivery_attempts` table | replay, health notices, deal alerts | lost answers, crashes between send and record, files that were not saved |
| Runtime-state snapshots | `bf_price_monitor/runtime_state.py` | snapshot directories, `CURRENT`, quarantine | restore, save, prune | a crash between any two file operations, damaged files, an insecure directory |
| Price-history persistence | `scripts/persist_history.py`, `history_merge.py` | `price_history.json` on origin and in the scrape's artifact | three-way merge, commit, push, retry | the branch moves while the scrape runs; re-runs of a job |
| Feedback collector | `scripts/feedback.py`, `storage/feedback.py` | offset, lease, labels, rejection counts | lease, poll, ingest, confirm | two collectors, crash between commit and confirm, offsets that start again |
| Scraper | `scripts/scrape.py` | the browser and its contexts, `scrape_health.jsonl`, price history, `alerts.json` | fetch, retry, parse, record, quarantine, probe, cooldown, notices, alerts | exceptions between any two calls, decisions taken over many runs from an append-only log, several watches of one offer |
| Judgement | `scripts/analyze.py`, `analytics/deal_stats.py` | `formatted_alerts.json`, `ai_audit.jsonl`, the notices it appends to | rule, statistics, two AI providers, template | two judges of one window, providers that fail or lie, a kill in mid write |
| Product store | `storage/sqlite.py`, `identity.py` | schema version, products, offers, links, remaps | open and migrate, record an offer | several openers at once, titles that change under what was matched |
| Scheduling | `monitor.yml`, `cadence_gate.py`, `peak_dispatch.py` | the workflow's runs | two crons, gate, dispatch | late, displaced, skipped and hung runs |
| Container loop | `scripts/run_loop.py` | the child process, the stop event, the heartbeat | cycle, stage, time limit, signal, pause | stages that hang or ignore signals, kills at any step |

They interact through files: the scraper writes `scrape_health_alerts.json` and the
alerts that notify reads; the outbox, the health log and the SQLite file are what the
snapshots keep from run to run; `analyze.py` turns the alerts into the records that
notify sends, and appends to the notices; the feedback collector believes a button
press only if alert delivery wrote a "delivered" audit row for it; the persist job and the
dashboard push to one branch and meet only there.

What makes each correct, in one line: the dashboard loses no edit and overwrites
nobody else's; delivery tells the user once and drops nothing; the snapshots always
hold one complete state that a restore can find; the merge keeps every observation
once; the collector counts a press once and never moves an offset past what it
stored; the scraper neither starves a store nor keeps an outage to itself, and closes
every browser it launched; a price is called a deal only if the recorded window bears it out,
whatever a model says; an offer keeps its product; a dispatch never doubles a scrape;
the container's loop delivers only what its own cycle found and never stalls.
`PROJECT.json` lists every part of the repository, the ones left out with the reason,
and the hazards with their lines.

## Plan

1. `DashboardSync`: the save path, whole; all its safety properties proved. (done)
2. `NotifyOutbox`: delivery, whole; all its safety properties proved. (done)
3. `RuntimeState`: save, restore and prune with a crash between any two file
   operations; proved to implement the abstract store `LastGoodState`. (done)
4. `PersistHistory`: the run's copy, the three-way merge and the push loop; proved to
   implement the abstract `ObservationLog`; lowest price proved. (done; the two-way
   merge is open)
5. `FeedbackCollector`: leases, offsets and labels, several collectors; all its safety
   properties proved. (done)
6. `MonitorLoop`, `PeakDispatch`: when things run; all their safety properties proved.
   (done)
7. `PageFetch`, `ScrapeHealth`, `DealAlerts`, `AiAnalysis`, `OfferStore`: the path of a
   price from a page to a judged alert; all their safety properties proved. (done)
8. `Operations`: these components side by side; proved to keep what each promises. (done)
9. Left: a composition of delivery and snapshots in place of the `Leave` action of
   `NotifyOutbox`; the two-way merge of `PersistHistory`.

## DashboardSync

Files: `DashboardSync.tla`, `MCDashboardSync.tla`, `DashboardSyncProofs.tla`,
`DashboardSync_*.cfg`.

**State.** A watchlist is a function from watch ids to contents (`Absent` where the
watch is not in the file), origin and the clone's HEAD are sequences of commits, and
the journal files are sets of entry numbers, because `pending.jsonl` is only appended
to and filtered, so it stays in submission order. `owner` is the holder of the clone
lock, `phase` where its sync stands, and `todo`, `applied`, `blocked`, `fates`,
`attempt` are the local variables of `GitSync._sync`. `since` and `dismissed` are
history variables.

**Actions.** `Submit`, `Retry`, `Refresh` are the routes; `Fetch`, `ReplayApplies`,
`ReplayDrops`, `ReplayRecords`, `Unqueue`, `ReplayFails`, `ReplayDone` are one pass of
`_replay`, an entry at a time and with parking an entry cut in two where the code
writes two files; `PushLands`, `PushAnswerLost`, `PushFails`, `PushRejected`,
`Acknowledge` are the push; `Finish` is `_finish` and the HTTP answer; `DismissRead`
and `DismissWrite` are the dismiss route, which takes neither lock. `Crash`,
`RestoreTree`, `OtherCommit` and `LatePushLands` are the environment.

**Properties.**
- `OwnCommitsAreEdits`: each commit of the dashboard on origin changes one watch, from
  exactly the content its user saw.
- `NoEditLost`: an edit leaves the journal only when it was on origin since it was
  submitted, was dismissed, or an equal edit stays queued.
- `NoOvertaking`: edits of a watch are pushed in order, and none past one that the same
  sync put aside, over all its attempts.
- `ReplyTruthful`: what the page is told is true of the disk and of origin. "Saved locally"
  means that the edit is queued, or its equal is or was parked by this sync, or it needed
  no change. The equal may indeed be parked (three edits: of two equal ones the first is
  committed and the second dropped, the push is rejected, and the second attempt finds a
  conflict); the design note's "the operation is in the journal" would be too strong.
- `SyncTerminates`: a sync ends and frees the lock (checked in the run `operations`).
- `PushedMeansDone`, `LandedIsNoConflict`: what two comments say, refuted (below).

**Bounds.** Two watches, of which the cfgs make the duplicate keys interesting, two
edits, one foreign commit (`MaxOthers`), two push attempts, `MaxHistory` commits. Two
edits are what ordering, cascading and equal edits need; one foreign commit causes
each rejection and each conflict; a third attempt repeats the second. TLC takes every
initial document.

**Fairness.** `SyncTerminates` assumes weak fairness of the running sync's own steps:
the request's thread goes on running, each git call has a timeout. Nothing is assumed
of the network, of other writers or of the operator.

**Left out.** Malformed journal entries; a torn last line of the journal; the
operator switching the clone's branch; cross-watch checks other than the duplicate;
more than one late push at a time.

## NotifyOutbox

Files: `NotifyOutbox.tla`, `MCNotifyOutbox.tla`, `NotifyOutboxProofs.tla`,
`NotifyOutbox_*.cfg`.

**State.** The outbox is append-only and the last line of an id wins, so it is a
function from event ids to records; a record keeps its status, its age and what it is
about. An event id is `<<offer, channel>>`, or `<<text, Telegram>>` for a notice: a
health event's id is a hash of its text, and `TextOf` says which notices read alike.
`saved` is what the next run will find. `told` and `unsure` are history: how long ago
the user last got something, and which deliveries left no lasting `SENT` record.

**Actions.** `StartRun`; `Replay`, `ReplayEnds`; `SkipNotice`, `QueueNotice`,
`HealthEnds`; `TakeAlert`, `SkipChannel`, `QueueDeal`; one attempt of a send, with
`Delivered`, `AnswerLost`, `SendFails`, `Refused` as its outcomes; `Record` (the
terminal outbox line) and `Audit` (the SQLite row), separate because a crash can come
between; `EndRun` and `Crash`, after which the save step succeeds or does not;
`Tick`. Ages are counted up to the longest period anything asks for.

**Properties.**
- `NoRepeat`: the user gets an offer on a channel at most once per cooldown, over
  replays, retries, several watches and several runs, except after a delivery that
  left no `SENT` record behind.
- `EveryoneTried`: when a run ends, each of its alerts has, on every configured channel of
  every watch that asked, reached the user, been dead-lettered or been left for the
  replay; each notice likewise.
- `AuditAgrees`: a "delivered" audit row means a delivery, and without crashes every
  `SENT` event has its row.
- `PendingResolved`: an event left `PENDING` is settled by a later run.

**Bounds.** One offer, two watches, two channels, a grace of one tick and a cooldown of
two (grace shorter than cooldown, as in the code), one crash; two attempts per send
in the liveness run. A second offer shares nothing with the first.

**Fairness.** `PendingResolved` assumes that the schedule keeps starting runs, that a
run which is not killed goes on, that time passes, and that only `MaxCrashes` runs die.

**Left out.** The dead-letter file (output only); a torn line of the outbox; a cooldown
that differs between watches of one offer (the first alert's counts); a restore
that fails, which is RuntimeState's subject. A single process is assumed: the
workflow's concurrency group runs one monitor at a time.

## RuntimeState

Files: `RuntimeState.tla`, `LastGoodState.tla`, `MCRuntimeState.tla`,
`RuntimeStateProofs.tla`, `RuntimeState_*.cfg`.

**State.** `dirs` gives, for each run that saved, where its directory is (`.tmp-`,
`snapshots`, `quarantine`), whether its manifest matches, and what it holds; a file's
content is the set of runs whose work is in it, which is all that "nothing was lost"
needs. `current` is `CURRENT`, `work` the checkout's three files, `torn` those with a
malformed line, `stage` the step of the job; `restored` and `saved` are the two step
outputs that the gate reads. `floor` is history: what could be restored when the run
began.

**Actions.** `StartRun` (the checkout empties the workspace) and `SetUp`, whose failure
skips everything up to the save; `RestoreFresh`, `Quarantine`, `Choose`, `Copy` (one file
at a time) and `RestoreFails`; `Update`, one script's work on one file; `SaveBegins`,
`Seal`, `Rename`, `Point`, `Prune` are the save's file operations, `SaveFails` its
`except` branch, `SaveStops` what it does not catch; `Gate`. `Crash` comes between any
two of them, `Damage` when no step is using the directory.

**Properties.**
- `Implements`: the refinement. `LastGoodState` is one value that a save replaces by the
  whole workspace, in one step; the mapping takes it to be what a restore would yield
  (`Restorable`). So no crash, failed save, quarantine, abandoned directory or pruning
  that stops half way is visible to the next run. A candidate that is complete but
  not yet renamed counts once the save is cut off: with `CURRENT` damaged, restore
  may take it from its `.tmp-` directory.
- `GreenKeeps`: a run that passes the gate has built on everything that was there when
  it started, and what it made is what the next run restores.
- `TypeOK`, of which the workspace's part matters: nothing is ever copied from a
  directory that was not completed.
- `NoForgetting`: what the docs say of a failed restore, refuted (below).

**Bounds.** Three runs, two snapshots kept, one damaged: the third run is the first that
prunes, and it can fall back behind a damaged `CURRENT` past directories that a crash
left incomplete. Runs end, so TLC's deadlock check is off.

**Left out.** `status.json`, which nothing reads; the rules of the access list, whose check
passes or not; a clock that is set back (`Clock` is a parameter, its values go forward in
the runs and the theorems); a `CURRENT` that the file system lost.

## PersistHistory

Files: `PersistHistory.tla`, `ObservationLog.tla`, `MCPersistHistory.tla`,
`PersistHistoryProofs.tla`, `PersistHistory_safety.cfg`.

**State.** `doc` is the price history at the tip of the branch, `commits` how often the
branch moved, `runs` what each run and its persist job know: the history it was
checked out with, its own copy, the commit it fetched, the merge it made. A row stands
for one observation (its run, its day, its price); a product is a set of rows, since the
file keeps them sorted, and its lowest price. `ever` and `landed` are history: the prices
that were ever on the branch, and whose merge was.

**Actions.** `Checkout`, `Scrape` (append, lower the lowest price, prune, for the products
that were found), then the persist job: `StartPersist`, `Fetch` with the merge,
`PushLands`, `PushAnswerLost`, `PushRejected`, `PersistFails`. While its artifact lasts a
job can be repeated, by its button or by hand as its error text advises. `OtherCommit` is
the dashboard, `Tick` midnight. The workflow's concurrency group keeps two scheduled runs
apart; recovery by hand is outside it, so the model lets all runs overlap.

**Properties.**
- `RecordsOnce`: the refinement. In `ObservationLog` a run decides what it adds and drops
  and the log receives that once or never; a second landing of the same run, or one that
  git reported as failed, changes no row, and nothing pruned comes back.
- `AnswerTrue`: "pushed" and "nothing to commit" mean that the run's rows are there.
- `LowestEver`: the lowest price on the branch is that of all rows ever on it, although
  runs persist in another order than they scraped and the rows themselves are pruned.

**Bounds.** Two runs of one product, two prices, rows pruned after two days of three,
the fallback at the code's two entries, two attempts, each job once repeated, three
commits. Products do not interact in the merge; with two runs each can be the one that
moves the branch under the other. Runs end, so TLC's deadlock check is off.

**Assumed.** `Retention + 1 <= MaxDays`: an artifact and one midnight are shorter than a
row's life (3 and 90 days in the code). A longer retention would let a repeated job bring
back rows that a newer run has pruned. A persist job sees at most one midnight.

**Left out.** The merge without a base, which only a hand-typed command reaches; titles,
sellers, reference and highest prices; documents that do not parse; keys of one product
that become equal.

## FeedbackCollector

Files: `FeedbackCollector.tla`, `FeedbackCollectorProofs.tla`. Checked in `Operations`.

**State.** Presses are numbered in the order they were made; each has the update id
that Telegram gave it and its day. `pending` is what Telegram still holds, `stored` the
offset row with its time, `rank` and `seq` the rows of `alert_feedback` and its
AUTOINCREMENT, `lease` the lease row, and `pc`, `asked`, `batch`, `at` each collector's
local variables. `committed`, `expired`, `erased`, `overran` are history.

**Actions.** `Start` (the lease), `ReadOffset`, `Poll` and `PollFails`, `Commit` (rows and
offset in one transaction) and `CommitFails`, `Confirm`, `Done`, `StopWorker`; `Crash` at any
step and `LeaseExpires` under a working collector; `ForgetUser` and `Purge`, the operator's
commands, which take no lease. `Press` and `Tick` are Telegram: ids go up by one, a quiet
week may restart them, an update a day old is dropped (external; taken from how
`feedback.py` uses the API).

**Properties.**
- `NoPressLost`: Telegram never forgets a press before a transaction dealt with it,
  except by age.
- `LatestLabelWins`: rows have the order of the presses, so the last label of a rater
  counts, although batches are handed out again and collectors overlap.
- `ErasedStaysErased`: a deleted row does not come back from an unconfirmed update, as
  long as no collector outlives its lease.
- `OnePuller`: two collectors pull at a time only if one outlived its lease.

**Bounds.** Two presses by one rater on one alert, one update per answer, one scheduled
collector and one worker, periods of 1, 2 and 3 for retention, trust and quiet (1, 6 and
7 days in the code, the order is what matters); one overrun, one deletion.

**Left out.** Why a press is not acceptable, the answer to the button, the export.

## MonitorLoop

Files: `MonitorLoop.tla`, `SchedulingProofs.tla`. Checked in `Operations`.

**State.** Where the main thread stands, its child process, whether `_child` is set, the
stop event, the time since the stage began, the heartbeat's age, and which cycle wrote
`alerts.json` and `formatted_alerts.json`. The unit of time is the heartbeat's.

**Actions.** `StartCycle`, `Check`, `SkipNotify`, `Spawn` and `Assign` (apart, because a
signal can come between them and then finds no child to stop), `WaitExpires`,
`GraceExpires`, `Reap`, `Pause`; `ChildEnds` with or without its output, `RequestStop` at
any step, `KillContainer` and `Restart`.

**Properties.**
- `NotifyReadsThisCycle`: notify never runs on the alerts of an earlier cycle.
- `AlwaysHealthy`: the heartbeat never reaches the age at which Docker restarts the
  container, however stages hang and end.
- `KeepsGoing`: the loop always comes back to its top, or has ended.

**Fairness.** Weak fairness of the main thread's own steps: every wait in it has a time
limit and SIGKILL cannot be ignored. Nothing is assumed of the child.

**Bounds.** A limit of six units, a pause of five, a heartbeat that may be four old
(ten in the code: three ends of stages and a kill never add up to more).

**Left out.** A list of stages other than the default, `selfcheck`, the log file.

## PeakDispatch

Files: `PeakDispatch.tla`, `SchedulingProofs.tla`. Checked in `Operations`.

**State.** The workflow's runs with their age, cause and state, where now lies in the
window that the two repository variables describe, and the dispatcher's turn.

**Actions.** `Cron` and `Proceed` are GitHub: crons come late or never, one run at a time,
a waiting run is displaced by a newer one. `Gate` is `cadence_gate.py` and the golden gate,
`Finish` the scrape's end. `Evaluate` and `Dispatch` are apart, because a cron may arrive
between the dispatcher's look and its call; `Advance` is the next ten minutes.

**Properties.** `Spaced`: a dispatched scrape begins at least one interval after every
scrape before it, except one that arrived in that gap (`missed` counts those).

**Assumed.** `WindowDue <= StaleRun`: a run that blocks the dispatcher does so at least as
long as an interval (55 minutes and two hours in the code).

**Bounds.** Three runs, intervals of one and two ticks, runs stale after one, lookback two.
Deliveries that fail are the `turn' = "over"` disjunct.

## PageFetch

Files: `PageFetch.tla`, `ScraperProofs.tla`. Checked in `Operations`.

**State.** The watch, the try of its scraper and the attempt of its request; the Playwright
drivers that `start()` entered and nobody exited (`drivers`; the run knows only the newest,
number `starts`), the browser, the shops that have a context, the open page; the counters
of the run. `poisoned` is history, contexts in which something raised, and so is
`unlaunched`, drivers whose browser could not be launched.

**Actions.** `HttpGet`, `HttpFails`; `GetContext`, `NewPage`, `Load`, each with its failure
(`NoContext`, `NoNewPage`, `LoadFails`), and `PageLost`, when closing the page raises;
`Parse` and `ParseFails`; `NextWatch`; `Close`, and `CloseFails`, when the exit of the
driver raises. `StartBrowser`, `NotEntered` and `NotLaunched` are how `start()` may end;
`Raised` is `with_retry`. A page is its cards and its JSON-LD products; which markup
yields them is not modelled, the order in which a price is looked for is.

**Properties.**
- `FreshRetry`: a second try never runs in the context in which the first raised, and no
  page outlives its request.
- `BrowsersClosed`: no launched browser outlives a run that was closed, and of the drivers
  whose launch failed none but those a later start replaced. That exception is real:
  when the launch raises after the driver was entered, the retry enters another one and
  the first is never exited, though `docs/progress.md:133` has `close()` tear down "the
  stealth/Playwright context unconditionally". Such a driver holds no browser and ends with
  the process.
- `AnyLayerSuffices`: a card with a valid price in a layer of its own is not given up,
  however the JSON-LD is broken.

**Taken from outside.** A driver ends its browser when it is exited, also when closing the
browser raised; a page that cannot be closed is gone.

**Bounds.** Two watches, one shop fetched by HTTP and one by browser, two attempts, two
tries, two pages chosen so that the layers disagree.

## ScrapeHealth

Files: `ScrapeHealth.tla`, `ScraperProofs.tla`. Checked in `Operations`.

**State.** Every decision is a query over `scrape_health.jsonl`; the queries read a store's
last two records and the first of its trailing zeros, and that is what the state keeps
(`last`, `previous`, `zeros`). `told` is what notify remembers having sent. `parsedAt`,
`known`, `fetched`, `died` are history.

**Actions.** `Scrape` appends the records of the stores that are neither quarantined nor
cooling down and works out the notices; `Notify` sends those whose text is new; `Die` is a
run that ends between the two; `ClockTick`.

**Properties.**
- `QuarantineTold`: the user knows of each quarantine; a second outage is not taken for
  the first.
- `SilenceTold`: since a store last parsed, the user got a breakdown or a dead-man notice
  about it once its silence is past the limit and a run fetched it, whatever quarantine,
  probes and cooldowns do. A notice of its recovery does not count, nor one of an earlier
  silence, which is why the dead-man text has to name the last good time.
- `NoStoreStarves`: a run fetches each store whose newest record has the probe's age.

The first two hold of runs that are not killed (`~died`): the model shows no more, and the
code writes the records before the notices without a second chance.

**Assumed.** `Cooldown <= ProbeAge`, and the latter positive (half an hour and six hours in
the code).

**Bounds.** Two stores, one that may answer 429; five runs at five times. A cooldown ends at
age one, a probe is due at two, and a silence is too long beyond one: outage, probe, recovery
and a second outage fit, so do a silence after a recovery and a second silence, each told by
a dead-man notice. In the code the dead-man limit (24 hours) is longer than the probe's age;
the order of the two is assumed nowhere, and the theorems hold for either.

## DealAlerts

Files: `DealAlerts.tla`, `MCDealAlerts.tla`, `DealAlerts_everywatch.cfg`,
`ScraperProofs.tla`; also checked in `Operations`.

**State.** One offer, new or with rows an older version recorded without a lowest price
(`Legacy`): its rows, its lowest price, what the page shows, the watch to visit
next and the alerts of the run with their judgement. `seen` is history: every row of an
earlier run, pruned or not.

**Actions.** `StartRun`, `Visit` (record, prune, lower, decide, judge), `EndRun`, `NextDay`. The
judgement is the rule of `analyze.py` (`Verdict`, with its rounding to two decimals) and the
statistics of `deal_stats.py` (`Suspect`, with the median), written as functions of the
window.

**Properties.**
- `GenuineBeatsTheWindow`: a "genuine" deal is below every price of the 30 days before,
  whatever was pruned.
- `JudgementsAgree`: a suspected fake is never called a deal, a drop or a price with an
  inflated reference.
- `RecordAlerts`: the first aggressive watch alerts on each lowest price ever, from the second
  run on. The first run over rows of an older version takes the lowest price from them but
  compares with none, so a record in that run is judged like any other drop; src/README.md:120
  makes no such exception.
- `EveryWatchAlerts`: what the README promises of several watches, refuted (below).

**Assumed.** `Window <= Keep`: rows live at least as long as the window looks back (30 and 90
days in the code). Prices are positive, which the parser sees to, and there is a watch.

**Bounds.** Two watches (one without conditions, one with all), three prices around the
5 RON and 2 % floors, one reference, three runs over five days, ages 1, 2 and 3 for 14, 30
and 90 days; no older rows, or two of which the lower one is pruned on the way. Runs and days end, so TLC's deadlock check is off.

**Left out.** The deltas and percentiles, which are only displayed; currencies.

## AiAnalysis

Files: `AiAnalysis.tla`, `OperationsProofs.tla`. Checked in `Operations`.

**State.** The alert at hand, who was asked and what came back, the records made so far,
the three files the stage writes; `Torn` is a file whose writing was cut short.

**Actions.** `NextAlert`, `AskHf`, `AskOllama`, `QueueOutage` (read, append, write in place),
`Judge`, `Audit`, `WriteFile`, and `KillAnalysis` at any step. A provider may fail, answer something
that is not JSON, something the schema refuses, or a verdict of its own.

**Properties.**
- `RuleDecides`: a finished stage has one record for each usable alert, in order, and each
  says what the rule says, whatever the providers said.
- `NoticesSurvive`: the scrape's notices are still in front of the stage's own.

**Bounds.** Every batch of up to two alerts, of two verdicts and three flaws.

## OfferStore

Files: `OfferStore.tla`, `OperationsProofs.tla`. Checked in `Operations`.

**State.** The schema's version and, for each process that opens the file, where in the
migrations it is; products with their present titles, offers with their product, links
and remaps. `applied` is history. Whether the URL of an offer fits its shop's pattern is
taken as fixed (`WellFormed`); two spellings of one offer's URL, of which only one fits, are
left out.

**Actions.** `Peek` and `Migrate` (the version is read without and again with the write
lock), `Reopen` after a death or a rollback, and `Record`, one transaction. How alike two
titles are is a constant; ties are a choice.

**Properties.**
- `MigratedOnce`: each migration is applied once, so the salt of the pseudonyms never
  changes.
- `StableIdentity`: an offer keeps its product while titles change and others join it.

**Bounds.** Two openers, three offers of two shops, one without a well-formed URL, two
titles.

## Operations

Files: `Operations.tla`, `MCOperations.tla`, `Operations.cfg`, `OperationsProofs.tla`.

The eight components above and the dashboard's sync stand side by side in one module and
share the run `operations`. They have no variable in common: what passes between them (the
alerts, the notices, the outbox, the database) is an input of the component that reads it,
over the values that the other one may leave. So interleaving them would show nothing but
products of their states, and `part`, chosen in the initial state, says which one moves; the
others stay where they began, in one of their initial states. The properties need no guard:
those of the parts that stand still hold of their initial state. `MCOperations` gives the
constants that a cfg cannot write.

`SyncTerminates` is checked here with one watch and one foreign commit, under the fairness
of `DashboardSync`, and `KeepsGoing` under that of `MonitorLoop`.

## Proofs

`DashboardSyncProofs` proves `TypeCorrect`, `NoClobber`, `EditsKept`, `PushedInOrder` and
`RepliesAreTrue`, for any numbers of watches, edits, servers, foreign commits and attempts. The
typing invariant strengthens `TypeOK` with what the lock, the tip and a half-parked
entry look like. `NoClobber` needs that every commit between the fetched origin and the
clone's HEAD is an edit of the content before it. `EditsKept` assumes one server
process, and the run `dash_twoservers` shows why: its invariant relates each entry
that left `pending` to the replay or the commit that let it go. `PushedInOrder` needs
that the entries a replay has dealt with come before those it has not, that what is
pending is one of the two, and that an entry put aside blocks its watch for the rest of
the sync (`OrderInv`); a second attempt starts from what is pending, in the same order.
`RepliesAreTrue` assumes one server too. An entry that leaves the queue leaves what it asks
for in place, as a fate of this sync or with an equal entry (`EqualUnqueued`), so what the
request asks for is never unaccounted for (`WantInv`); what was parked is on record and not
queued (`FateInv`); and a push that is acknowledged takes all that is queued (`EndInv`).

`NotifyOutboxProofs` proves `NotifyTypes`, `OncePerCooldown`, `AuditIsTrue` and
`EveryoneIsTried`. The inductive
invariant says that the event being sent is `PENDING` on file until its outcome is
(`JobInv`), that records are about what their id says (`LabelInv`), and that a
delivery within the cooldown which is not in `unsure` is on file as `SENT` with a
record no older than the delivery (`KeptInv`); it rests on the cooldown guard, on the
replay and the loop sharing one map, and on time ageing record and delivery alike.
`OncePerCooldown` follows, because `JobInv` and `KeptInv` contradict each other for an
event that is delivered again. `AuditIsTrue` relates each audit row to a delivery and each
`SENT` record to its row, but for the event between the two writes (`RowInv`).
`EveryoneIsTried` assumes that distinct notices have distinct texts (`DistinctTexts`; the
run `notify_outage` shows what happens otherwise). `SentInv` says that a `SENT` record means
a delivery, so what a run skips is settled (`SentSettled`), what is settled stays so while
the run lasts (`SettledStays`), and `ProgressInv` says that everything before the run's
place in its lists is settled, or is a channel still to do of the offer it is at.

`RuntimeStateProofs` proves `TypeCorrect`, `GreenRunsKeep` and `SaveIsAtomic` for any
numbers of runs, damaged and kept snapshots, on a clock that goes forward
(`ClockForward`, a hypothesis of each: the code sorts snapshots by their time and prunes
without looking at `CURRENT`). `SaveInv` says what the running job has made of its
directory at each stage, `RestoreInv` that the files copied so far are those of the best
snapshot at the start. The refinement needs that the list has one first element
(`FirstFacts`, from the well-foundedness of `<`), that pruning spares the snapshot just
promoted (`PruneSpares`), and, for each step, that the set of usable snapshots stays as it
is or gains the workspace (`SameRestorable`, `OneMore`).

`PersistHistoryProofs` proves `TypeCorrect`, `AnswersAreTrue`, `RunsAreRecordedOnce` and
`LowestIsKept` for any numbers of runs, products, prices, attempts and repetitions. The invariant is per
run (`RunOK`): its base is known to the branch, what it adds is its own and of one day,
what it drops is old, its pending merge is current unless the branch has moved, and once
it has landed its rows are present or old and its drops are gone. A landing then is the
run's change applied to the tip (`LandedRows`), which removes only what is old and returns
nothing (`LandedKeeps`); a second one changes no row because the job is still young
(`Young`, where `Retention + 1 <= MaxDays` is used). `LowestIsKept` (`LowInv`) says that the
tip's lowest price is exact, that a base's was once on the branch, and that a run's copy
has a lowest price which the branch knows or which is that of a row it adds, and which is
not above any of these; the smaller of the two is then that of everything ever there.

`FeedbackCollectorProofs` proves `FeedbackTypes`, `NoPressIsLost`, `OnePulls`,
`TheLastLabelWins` and `ErasedLabelsStayErased` for any numbers of presses, ids, days,
collectors and updates per answer. `BaseInv` says that ids rise with the presses unless
a quiet period lies between and that what is held is young; `WaitInv` that the stored
and the asked offset, and what a collector is about to confirm, are below every press
that still waits, which is where `Retention < Trust` and `Trust + Retention <= Quiet` are
used: an offset that is trusted comes from a press too recent for the ids to have
restarted since. `OrderInv` says that what precedes a committed press is committed or
too old, `LeaseInv` that whoever pulls in time has the lease, and `SerialInv` that without
an overrun what is committed but still at Telegram is below every offset in use.

`SchedulingProofs` is about when things run. It proves `CyclesAreFresh` and, for
`MaxAge >= 3`, `HeartbeatsHold` of the loop. `FreshInv` says that a stage which has begun
reads what an earlier stage of this cycle wrote, or a file that the loop removed when the
cycle began; `BeatInv` that the heartbeat's age is bounded by the units since it was last
touched: each stage that ends adds at most one, a stage that has to be killed two.
`DispatchesAreSpaced` is about the dispatcher. `Spaced` is not inductive, because it asks only
about scrapes, and a run that waits may become one; `Apart` therefore asks it of every run
that was not skipped or cancelled, `ByAge` says that runs are listed by age, and `Ready` that
between the dispatcher's look and its call each run it saw is old enough.

`ScraperProofs` is about the three components of a scrape.
- It proves `RetriesAreFresh`, `BrowsersAreClosed` and `LayersSuffice` of `PageFetch`, the last under
  `UniqueUrls` (the cards of a page that match a watch differ in their addresses; a failure
  is logged by its address, so it could otherwise be read as that of another card).
  `EngineInv` relates the open page, the contexts and the drivers to the place in the run
  (`Launches`: all drivers but the newest are ones without a browser) and says that a context in which something raised is gone before the next try; `LayerInv`
  that a failure on record after the first try is of a card without a price in any layer
  of its own.
- Of `ScrapeHealth` it proves `QuarantinesAreTold`, `SilencesAreTold` and `NobodyStarves`.
  `BreakdownTold` says that a text notify has sent about a quarantine is of the outage that
  lasts, or of one that a successful parse has ended; `DeadManTold` says the same of a
  silence, and `KnownInv` ties both to the notices the user got since the store last parsed.
- Of `DealAlerts` it proves `GenuineIsBelow`, `SuspectsAreNoDeals` and `RecordsAlert`. None of
  them is inductive: they compare an alert with rows the history may have dropped.
  `HistoryInv` says that the history holds every row of the last `Keep` days, and besides rows
  of earlier runs only this run's own, which it has from the first visit on; then the least
  price of the window (`LowOfWindow`) is that of all rows seen in it, and a judgement made from
  the history is true of what was seen (`JudgedSound`). `LowInv` says that, from the
  first visit of all on, the lowest price on file is that of a row once seen, which is what lets a record be recognised when its rows
  are gone (`FirstAlert`).

`OperationsProofs` proves the rest, and what holds of the whole.
- `TheRuleDecides` and `TheNoticesSurvive` of `AiAnalysis`: `LoopPlace` says where in the batch
  each step is and that what is about to be recorded is the rule's verdict, `RecordsInv` that the
  records are those of the usable alerts dealt with so far, in order.
- `MigrationsAreApplied` and `OffersKeepTheirProducts` of `OfferStore`: `SchemaInv` says that no
  process is more than one version past the file's, and that one which has seen a version
  missing has not finished; the look without the lock may be stale, but the one with it is
  not.
- `EveryPartIsTyped` and `EveryPartIsSafe`: a behaviour of `Operations` is one of each
  component (`OpsRefines`), so what is proved of the components, without a hypothesis of its
  own, holds of it.

The types have theorems of their own (`LoopTypes`, `DispatchTypes`, `FetchTypes`,
`HealthTypesHold`, `DealTypes`, `AnalysisTypes`, `StoreTypes`, `FeedbackTypes`).

The hypotheses of theorems are `ClockForward`, one server, `DistinctTexts`, `MaxAge >= 3` and
`UniqueUrls`; the deployment, the code's values or a shop's pages meet them, or a run shows
what happens without. The theorems otherwise rest only on the named assumptions about
constants, which the sections above justify by the code's values and TLC evaluates in the runs.

Only model-checked is liveness (`SyncTerminates`, `PendingResolved`, `KeepsGoing`), which is out
of the prover's reach: it needs ENABLED and the fairness of steps. The runs that refute a
document's claim are TLC's as well.

## What the runs found

- `dash_twoservers`: a dismissal rewrites `conflicts.jsonl` outside the clone lock, so
  with a second server on the clone an edit that is being parked can vanish.
- `dash_pushed`: a save can be answered "pushed" although its edit is on no origin.
- `dash_lostack`: after a push whose answer was lost, the first of two chained edits is
  reported as a conflict nobody caused.
- `notify_outage`: a later AI outage whose failure reasons read the same is never
  reported, because the text carries nothing that identifies the outage.
- `deal_everywatch`: of two watches with one rule that find the same offer only the first
  alerts, because the second compares the price with the row the first one has just
  recorded; the channels of the second get nothing.
- `state_forget`: a run whose restore did not happen (a set-up step failed, the access
  list could not be read) still saves, and promotes its nearly empty workspace.

## Not modelled

- Report, anomaly pilot, retro metrics: they read the data files and write pages or tables
  that nothing reads back.
- Domain models and configuration: declarations and their validation.
- Migrations of old data: one-shot commands, run by hand, each a single pass.
- The dashboard's page: it shows the HTTP answers, and what these may say is
  `ReplyTruthful`.
- `search_product.py`, `qa_watchlist.py`: they print and keep no state.
- PowerShell helpers and container packaging: no data of the system is theirs.
- Markup: which tag of a shop's page holds a price is a fact about that shop, not a
  behaviour; `PageFetch` starts from what the parser sees.
