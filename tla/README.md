# taistock-mcp: specifications of the data plane and of what it answers

taistock-mcp is a Cloudflare Worker that serves Taiwan market data and research tools over MCP and
REST. It has no database: what it must remember is a JSON file on one branch of a GitHub repository
(or, for OAuth, an entry of a key-value store), changed by short-lived Worker invocations that
overlap, lose races, time out and get evicted. What makes it correct is therefore spread over many
invocations, none of which sees the whole. Around that core are readers that ask the exchanges, and
algorithms that compute what a tool answers: backtests, replays, studies, screens, evidence.

This directory models the store protocol and the state machines built on it, the readers and the
routing, and the algorithms as operators. TLC checks the state machines on small instances and the
algorithms on all small inputs; TLAPS proves the safety of the store, the ledgers, the daily lane, the
publisher, the history bootstrap and the research gateway, and what the backtests, studies and
records promise, for all of them.

    tlc -workers 2 -config GitHubStore.cfg MCGitHubStore.tla
    tlapm GitHubStoreProofs.tla

## 1. Inventory

Paths are relative to `src/` of the repository; `v6/` stands for `src/v6/` in it.

| Component | State it keeps | Operations | What is hard |
|---|---|---|---|
| **GitHub store** (`v6/github-data-store.ts`, `v6/github-atomic-json.ts`) | files of a branch; nothing in memory that matters | `updateGitHubJson` (read, merge, PUT under the blob sha), `putImmutableGitHubJson` (create or verify), `atomicUpdateGitHubJsonFiles` (blobs, tree, commit, ref PATCH without force) | two kinds of compare-and-swap on one branch; 409/422 and retries; a write whose answer is lost and which is served late |
| **Immutable ledgers** (`putIndexedImmutableRecord` and its callers: signal events, experiments, judgments, supply chain, research memory) | one file per record, one index per collection | create-or-replay, reference checks, listing | record and index are two writes; identity of a record is a hash without the clock, the race is decided by a hash with it |
| **Daily capture lane** (`v6/market-data-scheduled-dispatch.ts`, `-daily-capture.ts`, `-cloudflare-chunked-runner.ts`, `-incremental-controller.ts`, `-history-index-v2.ts`, `-capture-context.ts`) | per date: `manifest.json` (layers, day status, index state), symbol shards; per isolate: module variables for policy and date | a wake runs units: capture one layer, close the date, index prefixes | a unit decides on a manifest it read minutes ago; two indexers; module variables shared by overlapping invocations |
| **Market publisher and gateway** (`v6/market-data-publisher-v5.ts`, `-publish-fence-v2.ts`, `-publish-history-fence.ts`, `-published-gateway-v2.ts`) | per date: publish state, generation manifest; one pointer | audit and pin shards, commit the generation, move the pointer; read what the pointer names | pins are collected over several wakes while shards are rewritten; commit and pointer are two writes |
| **History bootstrap** (`v6/market-data-360d-backfill.ts`, `-history-staging-v2.ts`, `-history-builder-v2.ts`) | a cursor and phase, staged prefixes per date, month shards, catalogue | stage a date, build a month, finalize, terminal audit | whole-state overwrite from an earlier read; interleaving with the daily indexer |
| **OAuth** (`v6/owner-oauth.ts`, `v6/family-oauth*.ts`) | client records, grants and login counters in a key-value store | registration, login, token exchange, recovery of a lost client record | read-then-write without compare-and-swap; a recovery around somebody else's exchange; which of several kinds of client a request is |
| **TPEx transport and relay** (`v6/tpex-cloudflare-transport.ts`, the relay workflows in `.github/workflows/`) | a relay branch with a file per date and dataset; per isolate: the requested date | a chain of four sources per dataset; workflows that rebuild the branch | sources that answer with another day; a module variable cleared under an awaiting lane; a stale tree laid over a branch |
| **Research memory and gateway** (`v6/research-vnext/`, judgment and review ledgers) | two cached promises per session; records through the ledgers | routing of three tools to a new engine with the proven handler behind it; acceptance, review and listing of records | late answers of operations given up; which engine's words are returned; what a listing limit cuts |
| **On-demand readers** (`v6/tw-credit-sbl-query-fast-path.ts`, `tw-chip-on-demand.ts`, `tw-broker-ranked-on-demand.ts`) | promises of pages, shared by questions of an isolate | fetch official pages, say ready, empty, pending or error | an absence concluded from a page that is late; a failure that is kept |
| **Market activity and broker bundles** (`v6/tw-full-market-on-demand.ts`, `tw-warrant-activity-on-demand.ts`, `broker-*.ts`) | none that matters | market scan with retries, warrants of a stock, windows of a broker page, one provider for a bundle | partial answers, statuses that combine |
| **Stock selection** (`v6/family-stock-selection*.ts`, `stable-swing-screen.ts`, `stable-market-tools.ts`) | a cached universe | universe, screens, scores, prefilters | what missing data does to a filter |
| **Readers of stored data and prices** (`v6/market-data-cross-section.ts`, `-fast-gateway.ts`, `tw-market-data*.ts`, `formal-blind-ohlc-reader.ts`, `cross-account-read-service.ts`) | none | windows, cross-sections, bars up to a decision, the live tape | mixing a pinned generation with the live index; looking ahead |
| **Family questions and evidence** (`v6/family-query-resolver.ts`, `family-smart-rest.ts`, `family-unified-evidence.ts`, `family-fundamental-summary.ts`) | none | understand, route and date a question; put answers together; nodes of evidence | precedence of rules; what "ready" and "formal" cover |
| **Backtests, studies and replays** (`v6/*-backtester.ts`, `v6/selective-1m-replay.ts`, research-vnext engines) | none | first-touch backtest and replay, datasets, walk-forward, swing paths, metrics, rankings | stops and targets in one bar, sessions, contracts, leakage of the future |
| **User data** (`v6/github-user-data.ts`) | watchlists, aliases, event marks | read-merge-write calls of the store | repeating a call whose answer was lost |
| **Automation bridge; MCP tools, facades, formatting; former runner; other readers; deployment** | none across requests | routing, argument checks, rendering, scripts | - |

Interactions. What is stored goes through the GitHub store, except OAuth's records. The daily lane's
manifest decides when the publisher may run; the history cursor holds the publisher back; the
publisher's pins name blobs of the shards that both indexers write. The daily and the history lane
capture through the TPEx transport and share its isolate's variables. Readers of stored data read what
the indexers and the publisher wrote; on-demand readers ask the exchanges instead; screens, evidence and
the family's answers compute from either. Research calls pass the gateway, and what they record becomes
a ledger. Research and user data meet the market data only on the branch, where any commit of one
fails the ref update of another.

Status of the code. The deployed Worker is `src/index-automation-bridge.ts` (`wrangler.jsonc`). Its
`scheduled` handler is retired: market data is read on demand
(`docs/changes/2026-09-04-on-demand-chip-migration.md`, lines 78-82 and 196;
`tests/market-data-cloudflare-cron.test.ts`, lines 22-24), and the scheduler of daily
capture, history and publisher (`scheduled` in `src/index-v6.ts`, lines 261-264) is kept as
compatibility code with its tests. The store, the ledgers, the readers, the research tools, user data
and OAuth are live. The models of the market data pipeline describe it as it runs when its scheduler
is on.

What makes each component correct: for the store, that an acknowledged write is never undone and a
commit is seen whole; for ledgers, that what a call was told is listed and never changes, and that
references resolve; for the daily lane, that no unit takes back data or a complete day, and that what
is counted as indexed is in the shards; for the publisher, that what the pointer names can be read
and holds audited rows; for the bootstrap, that its cursor passes no date it has not dealt with and that
completion means whole; for OAuth, that a recovery takes no good record away and a refused one leaves
no trace; for the transport, that rows stored as a day's are that day's; for the gateway, that the
proven handler's words are the answer and every call is answered; for readers, that no absence is
reported that is not one; for the algorithms, that they compute what their reference definition says
and nothing after the decision enters. `PROJECT.json` lists every hazard with its line and the
properties that would catch it.

## 2. Modules

    StoreJobs <--- MergeStore (abstract) <--- GitHubStore <--- GitHubStoreProofs
                                                  ^--- MCGitHubStore

    state machines                 checked on all small inputs          instance
    ImmutableLedger                ResearchRecords, by the MC module    MCImmutableLedger
    DailyCapture                   -                                    MCDailyCapture
    MarketPublisher                ReadChecks (ChipReads, OhlcReads)    MCMarketPublisher
    HistoryBootstrap               FamilyChecks (FamilyQuestions,       MCHistoryBootstrap
                                     FamilyEvidence)
    OAuthClients                   Authorization, by the MC module      MCOAuthClients
    TpexTransport                  ActivityChecks (MarketActivity,      MCTpexTransport
                                     BrokerBundles)
    ResearchGateway                ResearchChecks (IntradayReplay,      MCResearchGateway
                                     FrozenDatasets, ResearchStudies)
    MarketReaders                  ScreenChecks (StockScreens,          MCMarketReaders
                                     StableMarket)

    ImmutableLedger  <--- ImmutableLedgerProofs      MarketPublisher <--- MarketPublisherProofs
    DailyCapture     <--- DailyCaptureProofs         HistoryBootstrap <--- HistoryBootstrapProofs
    OAuthClients     <--- OAuthClientsProofs         TpexTransport    <--- TpexTransportProofs
    MarketReaders    <--- ImmutableLedgerProofs, second part

    ResearchGateway, IntradayReplay, ResearchStudies, ResearchRecords <--- ResearchProofs

One result licenses the layering. `GitHubStore` implements `MergeStore`, where each call merges its
change into the files in one indivisible step. The modules above it therefore take a store call as
one step, with everything the code awaits before and after it as steps of their own.

An MC module extends a state machine and the checks of the pure algorithms nearest to it. The checks
are named `ASSUME`s, universally quantified over all small inputs; TLC evaluates them before it
explores the state machine, and stops if one is false. Those that say something a reader of the code
might not expect are collected in section 6.

### StoreJobs, MergeStore, GitHubStore

A job is one call the program makes: its operation, its files, what it adds to each. A file is the
set of contributions merged into it (so a lost one is visible), and its blob sha is its content.
`MergeStore` is the promise: `Commit(j)` merges, `Acknowledge(j)` may follow only while the
contribution is there. `GitHubStore` is the protocol:

| Code | Model |
|---|---|
| branch head, its tree | `head`, `tree` |
| a PUT or ref PATCH sent and not yet processed | an element of `wire` |
| entry of the three operations, the loop's first read | `Call`, `Read` |
| nothing to change, existing record equal / different | `AlreadyThere`, `Conflict` |
| sending the write | `Send` |
| GitHub's compare-and-swap: blob sha for a PUT, parent commit for a ref | `Accept`, `Refuse` (`Accepts`, `NewTree`) |
| `ok`, 409/422 with attempts left, attempts used up | `Finish`, `Retry`, `GiveUp` |
| any other status, a failing fetch, an eviction | `Abandon`: the request stays on the wire |

`Refuse` is also possible when only the branch moved, as GitHub answers 409 to concurrent PUTs of
different files. The blobs, tree and commit objects of a multi-file update are unreachable until the
ref moves, so they are one step with it.

### ImmutableLedger

`putIndexedImmutableRecord` with the reference check of its callers: `Call`, `CheckReference`,
`ReplayFound`/`LookupConflict`/`LookupFree` (the lookup by content hash), `ReadRecord`, `PutRecord`
(with the create race of `putImmutableGitHubJson`), `ReadIndex`, `PutIndex`. Reads and PUTs are
separate steps here, because the race between them decides what the loser is told. `Abandon` may leave
a PUT that `ServeLate` serves. `recorded_at` is the number of the call, so no two calls share it.

### DailyCapture

One trade date. `Wake`, `Facade`, `OutOfBudget` are `runDailyLane`'s loop around
`runAdaptiveDailyMarketDataCapture`; `ReadManifest`, `Calendar`, `Fetch`, `Reconcile`, `Close` are a
capture unit; `SliceCommit` and `SliceYield` the compact indexer, `LegacyShard` and `LegacyManifest` the
older one. Four reads stay apart because the code awaits between them: the facade's read of the
manifest, the runner's own, the read of the isolate's policy when layers are chosen, and the merge.
`Tick` begins the next retry checkpoint, `ChangeOverride` is an operator's edit of the calendar
override, `Throw` and `Evict` are faults. Times are counted in checkpoints; the ten minutes between two
attempts are a free choice within a checkpoint and over between two.

### MarketPublisher

`Check` (date complete and indexed, history cursor outside the month), `Plan`, `Yield`, `Pin` (audit
one shard against the snapshots, make a reference), `Commit` with `CommitThrows` and `CommitLoses`, and
`Point`. A shard is the set of dates whose rows it has, plus a version, since `updated_at` gives each
write a new blob. Around it: `IndexShard` is what DailyCapture's slices do, `Rewrite` an overlapping
index unit, `Damage`/`Repair` the failure injection of `tests/market-data-publisher.test.ts` (lines
187-208), `HistoryMoves` the bootstrap's cursor. The gateway is the property `PointerResolves`: what it
asserts of each generation it reads.

Assumptions of this module: a date has one generation, because a complete date keeps its layers
(`DataIsKept` of DailyCapture); `NextDay` happens only between wakes, because the windows of two
dates are hours apart and a wake has thirty seconds. The pointer itself has no guard against going
back to an earlier date; it is that assumption that keeps it from doing so.

### HistoryBootstrap

The day before the anchor down to the target is walked by a cursor; when it has passed the target,
months are built. `Begin` reads the state and stops if it is COMPLETE; `Persist` writes a
whole state made from the one read, which is `persistState`; `Prepare`, `Promote`, `Capture` deal with
the date under the cursor; `ReadCatalogue`, `ReadProgress`, `Stage` are `stageHistoryUnit` in its three
awaited parts; `Scan`, `BuildPrefix`, `Finalize` the month builder; `Fail` a unit that yields, throws or
is evicted; `DailyIndex` the daily lane's indexer on the same shards. A shard counts how often the rows
of a date are in it, so a date built twice is visible. A stale state may move the cursor back: that
only repeats work, and the properties allow it.

Left out: the calendar does not change meanwhile; `Scan` reads all months in one step; stage files never
change once written; an index unit without progress is no unit.

### OAuthClients, Authorization

`OAuthClients` follows one client record. An authorization is `SubmitLogin`, `Lookup`, `ReadFailures`,
`WrongCode`/`RightCode`, `Register`, `Create`, `Complete`, `Remember`, `Undo`; a token exchange is
`SubmitExchange`, `ReadGrant`, `ReadPending`, `Learn`, `Write`, `Issue`/`Refuse`, `Clear`, `Rollback`. Each
get, put and delete of the store is a step of its own, because nothing makes two of them one. `Evict`
ends a request anywhere; `Expire` and `Forget` are entries running out. The provider library is
external: what this code needs of it is the three outcomes of an exchange. Reads return the latest
write. The two deletes of `Undo` are one step, and a failing put inside a rollback is an eviction.

`Authorization` are the decisions without state: which kind of client a request is, which resource and
scopes it is given, who may log in, what a recovered record holds, metadata-document clients and the
owner's legacy marker included. The library's own check of a client is `ProviderKnows`.

### TpexTransport

A lane asks for a dataset by open API, relay branch, modern page and legacy page, in the order and
under the conditions of `tpex-cloudflare-transport.ts`; what a source answers is `[stamp, of]`: the date a row carries
and the day it is of. `context` is the isolate's `requestedTradeDate`: a lane that ends clears it under
one that awaits. Three workflows load the branch, build a tree and publish it (`LoadBranch`, `CaptureToday`,
`CaptureHistory`, `CaptureWatchdog`, `PublishRelay`, `JobFails`); their concurrency group lets one run at a
time. The watchdog leaves a complete date as it is and writes all the datasets of another anew. PENDING and
ERROR are one failure here, and the number of wakes is not bounded.

### ResearchGateway

A review or a selection runs the proven handler first (`Receive`, `LegacyAnswers`), then asks the new engine
for each part of its summary and compares (`Invoke`, `Dispatch`, `Compute`, `Compare`); a replay asks the
engine first and falls back on the handler. The promises of the gateway's and the facade's modules are
shared, and a rejected one stays (`LoaderSettles`). `TimesOut` gives an operation up that goes on running: its late answer is
`ops` reaching its end after the call has moved on. What the resource policy's walk over an input decides
is a free choice. The replay's answer is not compared, as in the code.

### ResearchRecords

How judgments, reviews and knowledge are validated, identified, stored and listed
(`memory-core.ts`, `gpt-judgment-memory.ts`): acceptance conditions, the identity hash as the record
without its clock and with its sets canonical, listing order and limits, reviews that may only refer to
what was open. How a record reaches the store is `ImmutableLedger`.

### MarketReaders

One of three readers answers two questions. `Ask` makes or shares the promise of each page the question
needs, `Settle` ends a fetch (with the day before's page, an undated one, the day's, or failure; a page of
an origin also with an empty ranking, without the marker words, with them but without a date, or without
rows), `Answer` judges by what the question took, `Publish` and `Tick` are the exchange and the clock.
A failure removes the entry it was kept under, which may by then be a newer one's; every other outcome is
kept as a success. A ranking is read from the first origin whose page has the marker words (`Taken`),
whatever that page turns out to be worth. Left out: the institutional layer, the fast path's layer of securities
lending (`TWT72U`, `v6/tw-credit-sbl-query-fast-path.ts:223-226`), calendar resolution, archive rows, and the second
attempt of a transport.

### Pure algorithms

| Module | Source | What is abstracted |
|---|---|---|
| `IntradayReplay` | `deterministic-backtester.ts`, `txf-review-engine.ts`, both `selective-1m-replay.ts` | prices are integers, a bar is open/high/low/close of a minute; signal guards, rounding and run identities |
| `FrozenDatasets` | `batch-backtester.ts`, `research-contract.ts` | a dataset is its bars, sessions and contract; hashes |
| `ResearchStudies` | `research-validation.ts`, `swing-outcome-path.ts`, `review-metrics.ts`, `swing-evidence.ts`, `review-orchestrator.ts` | seeds of shuffles and of the Monte Carlo study are the permutation chosen; rounding |
| `StockScreens`, `StableMarket` | `family-stock-selection*.ts`, `stable-swing-screen.ts`, `stable-market-tools.ts` | liquidity points are given with the row; reasons, texts, rounding |
| `ChipReads`, `OhlcReads` | `market-data-cross-section.ts`, `-fast-gateway.ts`, `-published-gateway-v2.ts`, `-monthly-symbol-bundle.ts`; `formal-blind-ohlc-reader.ts`, `tw-market-data*.ts`, `cross-account-read-service.ts` | dates are numbers, paths and hashes are their content, CSV parsing |
| `MarketActivity`, `BrokerBundles` | `tw-full-market-on-demand.ts`, `tw-warrant-activity-on-demand.ts`; `tw-broker-ranked-on-demand.ts`, `broker-provider-bundle-router.ts` | advice texts; a `Scaled` average is its sum and count |
| `FamilyQuestions`, `FamilyEvidence` | `family-query-resolver.ts`, `family-smart-rest.ts`, `tw-trading-asof-resolver.ts`; `family-unified-evidence.ts`, `family-fundamental-summary.ts`, `family-eleven-point.ts` | a question is the kinds of words in it; percentages are hundredths rounded down |

An algorithm that loops in the code is stated here by what the loop arrives at where that can be said with a
quantifier (the first bar that touches, the last row before a date), and by a fold or a recursive
function where it cannot. The `*Checks` modules compare these with a second, independent definition, or
state what the answer does and does not cover.

## 3. Runs

| Run | Instance | Shows |
|---|---|---|
| `store` (`GitHubStore.cfg`) | two invocations, three calls out of five jobs (single file, two-file commits that include it, one with `retries: 0`, two records for one path), one fault, fairness | `NoLostUpdate`, `AllOrNothing`, `ExhaustionMeansContention`, `RecordsImmutable`, `EveryCallReturns`, the refinement `Implements` of MergeStore, and the inductive invariant `IInv` the proofs use |
| `ledger` (`ImmutableLedger.cfg`) | two callers, three calls, an event and a signal that refers to it, two contents, one cut-off call | `LedgerInv` (entries match records, what was acknowledged is listed, and what calls and late PUTs rely on stays true), `UnlistedIsUnfinished`, `ReferencesResolve` |
| `daily_safety` (`DailyCapture.cfg`) | two wakes of one isolate, two layers, two checkpoints, providers with two answers, two edits of the override | `CaptureInv` (what is counted as indexed is stored, units that index see the day as it is, units that capture have room for their attempt), `AttemptsAreBounded`, `DataIsKept`, `IndexProgressKept` |
| `daily_indexed` (`DailyCaptureIndexed.cfg`) | two isolates, wakes of two units, one fault, no closures, fairness | `CompleteDayIsIndexed`, `CompleteGetsIndexed` |
| `publisher_safety` (`MarketPublisher.cfg`) | two wakes, two dates of one month, two prefixes; one fault, one damage, one rewrite | `PublisherInv` (a generation is its publish state, whole and audited, and so is what a unit is about to publish), `PointerResolves`, `PinnedRowsAreCanonical`, `PublishedIsKept` |
| `publisher_publishes` (`MarketPublisherPublishes.cfg`) | one date, two faults, two rewrites, fairness | `ReadyGetsPublished` |
| `publisher_compact` (`MarketPublisherCompact.cfg`) | one date of one-digit prefixes | the finding of section 5 |
| `history` (`HistoryBootstrap.cfg`) | two wakes, dates 0 to 5 in two months with a holiday and a date before the window, two prefixes, one fault, three states a deployment may find, fairness | `HistoryInv` (a catalogued date has all its files, no row is in a shard twice, READY has its rows, and no stored or remembered state claims more than is done), `HandledAboveCursor`, `CompleteIsWhole`, `BootstrapCompletes` |
| `oauth` (`OAuthClients.cfg`) | two requests, two codes, every kind of client with a lost, secretless or good record, a lock after two wrong logins, one extra request, one fault, fairness | `ClientsInv` (a lock is earned, wrong codes are counted once at most, a request on its own works on the record it began with), `SettledClientIsKept` (once quiet and known, known for ever after), `RefusalLeavesRecord`, `EventuallyConnected` |
| `tpex` (`TpexTransport.cfg`) | two lanes of one isolate, today's with an exact dataset and the lending balances, the day before's with the exact dataset, three workflows, an undated legacy page, two versions of a relay file, one fault, fairness | `TransportInv` (lending rows have their day, `latest.json` names files, a lane keeps its own date in hand, a workflow's copy has nothing older than the branch), `ExactRowsAreOfTheDay`, `RelayIsMonotonic`, `ExactLayersAreReady` |
| `gateway` (`ResearchGateway.cfg`) | two calls of any of the three tools, fairness | `GatewayInv` (the proven handler runs once, each part is its own operation's), `MeaningIsKept`, `EveryCallIsAnswered` |
| `readers` (`MarketReaders.cfg`) | each of the three readers, two questions that share pages, promises of one tick, two fetches that fail or show nothing of use | `ReadersInv` (a published day is seen, the second origin is asked in its turn, what is kept has neither failed nor outlived its time), `EmptyIsSound`, `NothingOfTheDayBefore`, `FailuresAreCurrent` |

The runs from `ledger` on, the daily ones excepted, also evaluate the `ASSUME`s that section 2 names, of
the checks modules or of the MC module itself. `readers` has `CHECK_DEADLOCK FALSE`: two questions are asked and answered, and then
nothing is left to do.

Why the bounds are enough to see what matters:

- Store. A lost update takes one reader, one writer in between, and a late request of a third call:
  two invocations with three calls. One fault leaves one request behind whose caller has gone on; the
  proofs remove the bounds for safety.
- Ledger. The races are between two calls of one key and between a child and its parent; three calls
  admit a cut-off call, its repetition and a competitor, or a parent and a child recorded twice.
- Daily. A layer the first checkpoint allows and one only the later ones do are all the distinctions
  `allowed layers` makes. Two compact prefixes admit a partial slice. Three two-digit prefixes are more
  than two units of the older indexer finish before the first compact slice, as the roughly seventy of
  the market are; with fewer, that indexer could finish the day, which it cannot in reality. The
  budget of 42 subrequests admits about four capture units per wake; `MaxUnits` 2 already lets a wake
  capture and then index, and wakes of one unit interleave as finely. A fault only ends a unit, which
  its files cannot tell from one that is slow; it matters for progress, where it is.
- Publisher. Two prefixes make a generation from pins of two units; two dates are what the pointer and
  the shared shards need.
- History. Three trading dates of which two share a month admit a month whose dates are staged by
  different units, and a month that is built while the other waits; the anchor's own date is the daily
  lane's. Two prefixes staged at most two at a time admit a partial stage by a fault.
- OAuth. Two codes are an exchange around another's authorization; an extra request overlaps each place
  of the first. Two wrong codes under a lock at two let parallel writes of the counter lose one.
- TPEx. The lanes' two dates are what a shared context can confuse; a relay file that exists in two versions is
  what a stale tree can take back. The lane of the day before needs no lending of its own to set or clear the date.
- Gateway. Two calls share each promise in each of its states; both parts of a review time out freely.
- Readers. One tick expires a promise; one failure is enough to be kept or to evict, two leave both origins
  of no use.
- Pure algorithms: tapes of two bars of two minutes, series of three bars, up to six cases, four returns,
  a handful of dates and rows. A stop and a target are touched in one bar or two, before or after each
  other, at a gap, at a session's end or never; longer inputs repeat these. The theorems of section 4
  remove the bound for the most important ones.

Several bounds are also guards of the models (`MaxCalls`, `MaxFaults`, `MaxUnits`, `MaxCheckpoint`,
`MaxOverrides`, `MaxDamage`, `MaxRewrites`, `MaxWrong`, `MaxExtra`, `MaxVersion`, `MaxTime`); each is named
where its constant is declared. Symmetry is used only in runs without liveness properties.

Fairness, and why the code justifies it:

- Store: `WF` of each invocation's `Step` (a Worker that is not evicted runs on; eviction is
  `Abandon`) and of `Serve` (GitHub answers what it receives).
- Daily: `WF` of `Wake` and `Step`; `SF` of `SliceCommit`, that is, the index commit does not lose the
  race for the branch every time. `WF` of `Wake` idealises the cron trigger: the real window of a date
  has finitely many wakes, so the property says what happens if there are enough of them.
- Publisher: the same, with `SF` of `Plan` and `Commit` (deadline and race are not lost every time),
  and `WF` of `HistoryMoves`, since the bootstrap runs in the spare wakes.
- History: `WF` of each wake's `Step`. `BootstrapCompletes` is conditional: a month with nothing to stage
  is waited for without end (section 6).
- OAuth: `WF` of each request's `Step`; of `SubmitLogin` (the person tries again) and `SubmitExchange`
  (the client uses its code); of `Expire` and `Forget` (entries have a lifetime).
- TPEx: `WF` of the exchange publishing, of each lane and of the workflows' steps; `SF` of
  `LoadBranch("official")`: the scheduled workflow gets the concurrency group again and again.
- Gateway: `WF` of the gateway's loader, the proven handler, the runtime's steps and the timers. Nothing is
  assumed of the facade's loader or of the engine, which is the point of the timers.
- Ledger, readers: none, and no liveness is claimed.

Each property of a passing run has a mutant in `PROJECT.json`: a plausible bug in a mapped definition
(a forced ref update, a merge based on the stale read, a missing limit) under which TLC finds
the property violated.

## 4. What is proved

`GitHubStoreProofs` holds for every set of invocations, files and jobs that satisfies `StoreJobs`' and
`GitHubStore`'s assumptions, with any number of calls and faults.

| Theorem | Statement |
|---|---|
| `TypeCorrect` | `Spec => []TypeOK` |
| `Invariance` | `Spec => []IInv` |
| `UpdatesAreNotLost` | `Spec => []NoLostUpdate` |
| `CommitsAreWhole` | `Spec => []AllOrNothing` |
| `ExhaustionIsContention` | `Spec => []ExhaustionMeansContention` |
| `RecordsNeverChange` | `Spec => RecordsImmutable` |
| `Implementation` | `Spec => Implements` |

The assumptions are the named ones: operations of a single file name one file (`JobsAssumption`),
files of immutable records are named by no updating call (`RecordsApart`, which the path layout of the
repository gives: raw bodies, snapshots and records live under paths no merge names), and numbers are
numbers (`StoreAssumption`). `AllOrNothing` speaks of jobs whose contribution no other job makes.

`NoLostUpdate` is not inductive: it says nothing of what is in flight. The proof rests on `IInv`:

- `SnapshotsAreHistory`: what an invocation read is an earlier tree (`Grown`), and the current one if
  the branch has not moved. Hence a retry starts from something that was there.
- `RequestsAreHistory`: a request on the wire carries such a tree with its parent; for an atomic commit
  `parent = head` then means that its unchanged files are the current ones. This is what makes a late
  request harmless: it is accepted only where its tree is still true.
- `RequestsBelong`: a request is the one its caller waits for, or one of a call its caller has
  abandoned. Without it an answer to an abandoned call could acknowledge another job.
- `AcceptedLanded`, `AttemptsAdvance`: a caller about to report success is right, and each attempt read
  a later head than the one before, which gives `ExhaustionMeansContention`.

The key lemma is `AcceptApplies`: under `IInv`, every request GitHub accepts merges exactly its job
into the tree of that moment. From it follow the preservation lemmas, one per action
(`AcceptIInv`, `RefuseIInv`, `CallIInv` ...), the immutability of records and, in `StepImplements`, the
step simulation for `Implementation`: `Accept` is `Commit`, `Finish` and `AlreadyThere` are
`Acknowledge`, everything else is a stutter.


The other machines each have their invariant checked by the run of section 3 under the same name it is
proved under, strengthened until it is inductive. What a machine's invariant lacked was in each case the
same: it spoke of the files, and a step is justified by what an invocation remembers of them.

| Module | Theorem | Statement |
|---|---|---|
| `ImmutableLedgerProofs` | `TypeCorrect`, `LedgerIsConsistent` | `Spec => []TypeOK`, `Spec => []LedgerInv` |
| | `RecordsNeverChange` | `Spec => [][RecordsKept]_vars` |
| | `UnlistedAreUnfinished` | `Spec => []UnlistedIsUnfinished` |
| | `ReferencesAlwaysResolve` | `Spec => []ReferencesResolve` |
| `DailyCaptureProofs` | `TypeCorrect`, `IndexIsAlwaysTrue` | `Spec => []TypeOK`, `Spec => []CaptureInv` |
| | `DataStays`, `ProgressStays` | `Spec => DataIsKept`, `Spec => IndexProgressKept` |
| | `AttemptsStayBounded` | `Spec => []AttemptsAreBounded` |
| | `CompleteIsIndexed` | `Spec => []CompleteDayIsIndexed`, without closures |
| `MarketPublisherProofs` | `TypeCorrect`, `PublicationIsSound` | `Spec => []TypeOK`, `Spec => []PublisherInv` |
| | `PublishedNeverChanges` | `Spec => PublishedIsKept` |
| | `PointerAlwaysResolves` | `Spec => []PointerResolves` |
| | `PinnedRowsStayCanonical` | `Spec => []PinnedRowsAreCanonical` |
| `HistoryBootstrapProofs` | `TypeCorrect`, `HistoryIsSound` | `Spec => []TypeOK`, `Spec => []HistoryInv` |
| | `CursorPassesNothing` | `Spec => []HandledAboveCursor` |
| | `CompleteLeavesNothingOut` | `Spec => []CompleteIsWhole` |
| `ResearchProofs` | `TypeCorrect`, `ProvenHandlerRunsOnce` | `Spec => []TypeOK`, `Spec => []GatewayInv` |
| | `MeaningIsAlwaysKept` | `Spec => []MeaningIsKept` |
| `OAuthClientsProofs` | `TypeCorrect`, `ClientsAreServed` | `Spec => []TypeOK`, `Spec => []ClientsInv` |
| | `RefusalLeavesNoTrace` | `Spec => RefusalLeavesRecord` |
| | `KnownIsKept` | `Spec => SettledClientIsKept` |
| `TpexTransportProofs` | `TransportIsSound` | `Spec => []TransportInv`, with the types |
| | `ExactRowsStay` | `Spec => []ExactRowsAreOfTheDay` |
| | `RelayOnlyGrows` | `Spec => RelayIsMonotonic` |
| `ImmutableLedgerProofs`, | `ReadersTellWhatTheySaw` | `ReadersSpec => []ReadersInv`, with the types |
| second part: MarketReaders | `OnlyTheDay` | `ReadersSpec => []NothingOfTheDayBefore` |
| | `EmptyStaysSound` | `ReadersSpec => []EmptyIsSound` |
| | `FailuresReachTheWaiting` | `ReadersSpec => FailuresAreCurrent` |

**Ledger** (`LedgerAssumption`; `NoRecord` is no record). A record that is there never changes, because its
PUT names no sha. So `CallsRelyOnFacts` (a call past its reference check has its reference, one at the index has its
record) and `LatePutsRelyOnFacts` (the same for a PUT whose call was cut off) hold however late they are
used, and `EntriesMatchRecords`, `AckedIsListed` and `ReferencesResolve` follow. `UnlistedIsUnfinished`
needs that a late PUT belongs to a call already counted as `broken`.

**Daily lane** (`DailyAssumption`; the sets are finite, `NoManifest` is no manifest). A complete day has all
its layers and only a complete day is indexed (`CompleteIsReady`); so a closure cannot touch it, a merge
leaves it alone, and a unit that indexes has in hand the very layers the day has ever since
(`IndexersSeeTheDay`), however old its manifest. Every shard it writes is then right, and so is what it counts.
`ManifestSteps`, `ShardSteps` and `IndexerSteps` say what a step may do to the three; the rest uses only them.
For `AttemptsAreBounded` the units that may still count an attempt (`MayAttempt`) are those that read the
manifest before the limit; the attempts plus their number stay below the limit plus all invocations, since
an attempt counted is a unit that leaves them. `CompleteIsIndexed` has two hypotheses. `MaxOverrides = 0`: a
closure that a capture overtakes leaves READY behind (section 6). More two-digit prefixes than
invocations: the older indexer may write READY when *its* prefixes are all counted; but until the day is
indexed the facade sends no further unit to it, each of those under way (`OlderUnits`) adds one prefix,
and so they never count them all (`OneForOne`, `OlderNeverFinishes`). The market has about seventy such prefixes and
wakes are minutes apart. The invariant of that proof, `FirstIndexInv`, is stated in the proof module.

**Publisher** (`PublisherAssumption`; `NoPin` is no shard, `NoManifest` no references). A unit publishes what
it found in the publish state together with what it pinned, while others extend that state. `UnitsReferTruly` says that what it
found is still there and what it pinned is audited; it is kept because no reference is replaced or taken
back (`Kept`). Hence generation and state agree, and rewriting or damaging a shard afterwards touches
no pinned blob.

**History** (`BootstrapAssumption`). The hard case is that a unit puts back a state made from an old one.
`Sound` says what a state may claim; it stays true of a state once it is, whoever holds it, because
the repository only moves forward (`Forward`): files, catalogues, progress and finished manifests are not
taken back. So any state a unit still holds may be written. A month is built from the dates staged in it when it
was scanned; that these are still all of them needs that a date newly catalogued was not handled before, hence
that the staging is not over and no build has begun (`BuildingIsSound`, `BuildsAreSound`). Only a month's build
status moves back: a late unit's prefix (`BuildPrefix`) may turn READY into FINALIZING, and a later unit of the
month gives READY again; what READY said of the manifests stays true meanwhile. About the state a deployment finds
(`Starts`) it is assumed: manifests agree with the calendar, a stored state is RUNNING with its cursor
below the anchor, in phase BUILD below its target, and dates above its cursor are closed or indexed.
These are what an earlier bootstrap with a nearer target leaves behind.

**Gateway** (`GatewayAssumption`). `PartsAreTheirOwn` ties what a call has taken to the operation of that
part; an operation given up ends when it likes, but `Awaits` names part and call, so it is never taken for the next.
`ReplayRunsLate` and `OthersRunFirst` say at each place of a call how often the handler has run.

**OAuth** (`OAuthAssumption`; `NoClient` and `NoCode` are no record and no code, and an action is a client
that keeps a secret, `v6/family-oauth-token-recovery.ts:339`). A lock is earned because each wrong code moves the
counter by one at most, also in what a request has read and will write back (`MistakesAreCounted`): overlapping
requests lose counts, they never add one. `AloneOnItsRecord` says that a request no other has overlapped
has the record it began with, in the store until it writes and in its own hands afterwards; so its rollback puts
back that one, which is `RefusalLeavesRecord`. `SettledClientIsKept` is about requests that do overlap, and is no invariant: it needs what each
may still write. `Harmless(h)` says that what `h` holds knows the client and that it will neither create nor
undo; with a known record (`Settled`) every request begins harmless and stays so (`HarmlessStep`).

**Transport** (`TransportAssumption`; the branch starts with the day before today's, so `Today > 1`). The variable of the isolate may name any day when a lane
reads it. What saves the exact datasets is that a call takes the date into its own hands when it asks
(`ExactCallsKeepTheirDay`), and that a body it accepts carries that date; a lending layer is judged by the first
date of its balances. For the relay branch the concurrency group does the work: one workflow runs at
a time, so what it loaded stays at least as new as the branch until it publishes (`CopiesAreNoOlder`).

**Readers** (`ReadersAssumption`). `MarketReaders` names its specification `ReadersSpec`, and its other general names likewise, so that a
module can extend it beside another machine. A question is given a fetch, its own or one still kept, so it asks less than
`Ttl` after that fetch began (`FetchesAreShared`, from `EntriesAreCurrent`); and a fetch that showed the day before
began before the day was published (`FetchesShowTheirTime`). The two give `PublishedDayIsSeen`, for any number of
questions and any delay. The second origin is asked only by who has found the first of no use, and a ranking ends
without a page only when both were (`OriginsInTurn`), because what an answered ranking needed is settled and
settles once (`RankingsAreTold`, `SettledStays`). For a layer `EmptyIsSound` needs no history: the stock's own market
is always among those the answer looks at, whatever the fetches brought. For a ranking it is that only a stock
without one is shown an empty page (`FetchesShowTheirTime`).

The rest of `ResearchProofs` is about the algorithms. Of `IntradayReplay` it covers every tape of minutes with integer prices, every
position and every number of bars. Its hypothesis is `Case`: the bars record the tape (`Recorded`, each bar `MadeOf` its minutes).
Whether a bar is the exit is said by the predicate `ExitAt` and whether a minute decides an ambiguity by
`ResolvedBy`, instead of by a loop: so no induction is needed. The lemma that carries the argument is
`MinuteTouchesLess`: a minute touches no level that its bar does not touch.

| Theorem | Statement |
|---|---|
| `QuietUntilExit` | no minute between entry and exit bar touches a level |
| `BacktestIsFirstTouch` | an unambiguous stop or target is that of the first minute touching either |
| `ReplayIsFirstTouch` | with all minutes of the bar, the replay finds the market's first touch |
| `NeverOvernight`, `OneContract` | a position leaves neither its day nor its contract, nor its limit of bars |
| `ExcursionsBoundReturn` | the return lies between the excursions reported with it |

Of `ResearchStudies` it covers every list of cases, candidate and path, of `ResearchRecords` every set of
judgments, reviews and index entries.

| Theorem | Statement |
|---|---|
| `TestFollowsTraining` | no test case is dated before a training case of its fold, and none is in both |
| `TestedOnce` | with a step of at least a test window, no case is tested twice |
| `SelectionIsBest` | one candidate at most is selected, and none scores above it |
| `FutureNeverSelects` | two histories that agree on the training window select the same |
| `SwingExcursionsBoundReturn`, `SwingExcursionsWiden` | a swing path's return lies between its excursions, which only widen |
| `OneStandsForSymbol` | one signal stands for a symbol, and none of the symbol is preferred to it |
| `JudgedBeforeOutcome` | what a judgment was drawn from lies before the outcome its review reports |
| `RepetitionIsTheSame` | a repetition with its sets in another order has the first's content |
| `NewerAreListed` | a listing has no gap |
| `LatestIsOne` | a judgment has one latest version if no two were recorded in one millisecond |

Only model-checked: all liveness (`EveryCallReturns`, `CompleteGetsIndexed`, `ReadyGetsPublished`,
`BootstrapCompletes`, `EventuallyConnected`, `ExactLayersAreReady`, `EveryCallIsAnswered`), which is
beyond this prover as is `ENABLED`; and the assumptions of the checks modules, which include everything computed by a
fold or a recursive function, since induction over data is out of this prover's reach too.

## 5. Findings

**Compact dates are never published** (`publisher_compact`, `MarketPublisherCompact.cfg`,
`v6/market-data-publisher-v5.ts:139`). The audit files the rows it expects under the first two digits of the
symbol, while every date indexed by the compact indexer names one-digit prefixes: the audit of such a prefix
expects nothing and throws, in every wake. The gateway expects such generations
(`v6/market-data-published-gateway-v2.ts:208` and `:192`).

## 6. What the models show besides

Where code and comment, document or name differ, or where an answer covers less than its wording suggests,
the model follows the code. These have no run of their own; those with a name in parentheses are the `ASSUME` that
holds the case.

Store, ledgers, pipeline:

- The loser of two equal concurrent records is told `IMMUTABLE_CONFLICT`: a record's identity is a hash
  without the clock, its create race compares the text with `recorded_at` (`v6/github-data-store.ts:344`).
- A date completed between two reads goes to the older indexer (`v6/market-data-daily-capture.ts:65`), although
  line 29 says "New Daily dates never create legacy two-digit shards".
- A capture that lands after a closure keeps the closed day's READY index, so a reopened date is not indexed
  (`v6/market-data-cloudflare-chunked-runner.ts:625`); the fair run has no closures for that reason.
- `v6/market-data-incremental-controller.ts:308` promises one attempt per layer and checkpoint. Overlapping
  wakes exceed it; `AttemptsAreBounded` says how far: one attempt per overlapping invocation.
- The capture policy is a variable of the isolate: an invocation that ends resets it under another
  (`v6/market-data-scheduled-dispatch.ts:105`), which may then capture a layer its checkpoint does not allow yet. The
  attempt is counted like any other, and the layer is of the date it is stored under.
- A unit cut off between the publisher's commit and the pointer leaves its date unpublished: the generation is
  compared with its `created_at` (`v6/market-data-publisher-v5.ts:398`). `ReadyGetsPublished` excepts `Orphaned`.
- A cursor below a month guarantees that its dates are staged, not that they are merged, while
  `v6/market-data-publish-history-fence.ts:5-8` takes the cursor for both.
- A required month in which there is nothing to stage waits in `WAITING_MONTH_CAPTURE` without end
  (`v6/market-data-history-builder-v2.ts:561-566`); `BootstrapCompletes` assumes `EveryMonthHasHistory`.

Transport, OAuth, research calls, readers:

- A legacy page without dates gets the requested date stamped on its rows (`v6/tpex-cloudflare-transport.ts:243-248`)
  and is then stored as verified; an undated open-API body passes line 94 and fails the later validation at every wake.
- A known family client that does not ask for `family:read` is granted an empty scope, a recovered one gets it
  (`v6/family-oauth.ts:484`; `KnownClientMayGetNothing`). Overlapping duplicate exchanges may wipe a secret one of
  them has learned.
- A rejected module promise is kept for the session (`v6/research-vnext/compat-cutover.ts:181-184`), although
  `docs/change-notes/2026-09-01-research-vnext-gateway.md` calls the containment per call.
- A page of the ranking with the marker words but no date, or no rows, ends in ERROR; the page is kept until it
  expires and the second origin is not tried (`v6/tw-broker-ranked-on-demand.ts:439-452` and `:468-485`;
  `RankedWindow` of `BrokerBundles` has the same cases).
- The fast path looks an unknown stock up in the listed market first; if that page is late and the stock is not in
  the other market, its layer is given as READY_EMPTY of the other market (`v6/tw-credit-sbl-query-fast-path.ts:438-453`).
- Parallel wrong login codes may count as one: the counter is read and written in two steps
  (`v6/family-oauth.ts:379` and `:398`). `ClientsInv` says only that it never counts too many.
- A slow failure of an earlier fetch evicts the newer entry of its address, in all three readers and in the
  warrants' cache.

Stored days and prices:

- A month of the published generation is pinned; every other month of the same answer is read live though the
  answer calls itself formal (`PublishedMonthIsPinned`, `EarlierMonthsAreLive`). A compact shard hides legacy rows
  (`CompactHidesLegacy`). READY of a cross-section certifies its day only, and windows count rows, not market
  days (`FormalIsOfTheDayOnly`). Older windows count null as 0 (`LenientCountsUnknownAsNothing`). A stock that
  changed market counts a day twice (`ChangedMarketCountsTwice`).
- `dataset_complete_view` is true though a year file failed to read (`PartOfTheFilesIsComplete`,
  `v6/cross-account-read-service.ts:165-186`). A blind read may be refused because of bars after the decision
  (`LaterBarsMayRefuse`). `get_daily_price` begins at most 280 days before its end (`DailyPriceBeginsLater`). The
  180-second flow is of the 300 trades shown (`FlowIsOfWhatIsShown`).

Market activity, stock selection:

- The branch that is in both halves of a ranking counts two appearances and its purchase is overwritten
  (`BothHalvesCountTwice`); a page dated without a year takes the asked one (`YearIsTheAskedOne`); among bundles
  with nothing ready an ERROR may hide a PENDING one (`ErrorHidesPending`).
- `PENDING` may stand beside a diagnosis of `ERROR`, and the named cause may be the milder
  (`PendingHidesError`, `NamedCauseMayBeTheMilder`). Warrants call themselves full when degraded
  (`CalledFullRegardless`); an unknown listed warrant is lost (`UnknownListedWarrantIsLost`).
- Unknown values outrank known declines (`UnknownBeatsDecline`); half a market is screened
  (`HalfAMarketIsScreened`); days may mix in one universe (`DaysMayMix`); dividends are seen by one generation
  (`GenerationsSeeDividends`); completeness is of the master list (`CompletenessIsOfTheMaster`); the chase list
  names weak stocks too (`ChaseListsTheWeak`); an all-rising market is "mixed" (`RegimeNeedsBothSides`).

Family questions and evidence:

- A question for the branch ranking of one stock goes to the market screen, though the broker pattern knows
  its words (`BranchRankingIsAScreen`); a spoiled date leaves its year as a stock code (`SpoiledDateIsAStock`); a
  structured date may move to an earlier day (`GivenDateMayMove`); `/api/family/query` of the compatibility handler
  is shadowed (`OlderHandlerIsShadowed`); `encoded_bytes` is measured before the response's meta is added
  (`MeasuredBeforeStamped`).
- Evidence may be formally eligible with its status UNAVAILABLE (`FormalThoughMissing`), a decision READY with the
  current chips PENDING (`ReadyWhilePending`). The trend of a loss that stays or grows is up (`LossMayTrendUp`), the monthly
  change is against the previous row (`MonthMayBeSkipped`), an unknown holding level counts as 0
  (`UnknownLevelCountsAsNothing`).

Backtests, studies, records:

- A bucket with a minute missing may invert the answer of a replay (`PartialBucketMayInvert`). A gapped stop is
  filled at its level, a price that was not traded (`GapIsFilledAtLevel`).
- One day may be on both sides of a fold (`DayMayBeOnBothSides`); with a step below the test window cases are
  tested twice (`StepDecidesTestedOnce`). Unknown outcomes count as flat (`NullIsFlat`); a share of 1.00 ranks above
  a score of 1.01 (`ShareAboveScore`). A second bundle of a dataset version is never looked at
  (`EveryCaseHasItsBundle`); eligibility flags are not part of the version's hash (`AcceptedIsWhole`).
- A summary mixes units its own warning says are never aggregated (`UnitsAreMixed`,
  `v6/gpt-judgment-memory.ts:315-316`). Listing limits cut by time of recording (`LimitIsByRecording`). Lines and
  patterns keep their order in the hash, other lists do not (`LinesKeepTheirOrder`, `OrderIsForgotten`). The
  evidence count of knowledge is the caller's word (`EvidenceIsTheCallersWord`). A "no lookahead" context may use
  the close of a bar still open (`ContextMayStillBeOpen`, `v6/txf-review-engine.ts:245-253`).

## 7. Not modelled, and why

- Provider payloads, normalisation, compression, encodings, wording of errors, rounding: data the properties do
  not tell apart.
- The numbers of the request budget and of deadlines: where they decide whether a unit goes on, the
  model lets it go on or stop.
- How generations of earlier formats were written (how they are read is in `ChipReads`); the former
  single-pass runner, which nothing calls.
- User data: each call is a job of `MergeStore`; a repeated call after a lost answer appends its event twice
  (`v6/github-user-data.ts:22`), and nothing in the record tells that from two events.
- The cache of the stable market beside a forced refresh, and the page cache of the warrants: the
  hazard is the one `MarketReaders` shows for shared promises.
- Stale reads of the key-value store, the OAuth library's own storage and cryptography, races of two
  workflow runs (their concurrency group excludes them).
- MCP tools, facades, formatting, news, the automation bridge, deployment scripts: nothing across requests
  but what the modelled parts keep.

## 8. Plan

1. Done: the store with its promise and proofs; ledgers; daily lane; publisher; history bootstrap; OAuth; TPEx
   transport; research gateway; on-demand readers; the pure algorithms with their checks and proofs.
2. Done: the proofs of every safety property of the store, ledgers, daily lane, publisher, history bootstrap,
   OAuth, TPEx transport, research gateway and on-demand readers.
3. Proofs to come, for all inputs instead of all small ones: those assumptions of the checks modules that need no
   fold, first who is granted what (`OwnerIsNeverInferred`) and which stored day an answer is of (`ChipReads`).
4. The cache of the stable market as a further reader of `MarketReaders`; `MarketPublisher` with
   `HistoryBootstrap` as its cursor, which shows what a published month misses when it is not merged.
