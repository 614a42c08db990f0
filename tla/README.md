# TLA+ models of regime-engine

This directory holds a formal model of regime-engine: TLA+ modules, the TLC
configurations that check them on small instances, and theorems that TLAPS
proves for every instance.

Paths below are relative to the repository's root (`src/` is its TypeScript
source, `drizzle/` its Postgres migrations).

## 1. The system

regime-engine is a Fastify service with two stores and background programs. It
ingests candles and evidence, answers "what should this position do" with a
plan, and publishes *policy insights* computed from evidence, plan and market
regime.

| Component | State it keeps | Operations | Status |
|---|---|---|---|
| Position request queue (`adapters/postgres/postgresPositionPolicyInsightSynthesisQueueAdapter.ts`) | Postgres rows: scope, two hashes, status, lease, attempts | enqueueOrReconcile, claimBatch, complete, fail, supersede, releaseForRetry, failWaitingForPlan, three listings | modelled |
| Position reconciliation (`requestPositionPolicyInsightSynthesisUseCase.ts`, evidence and plan handlers, the internal trigger) | none of its own | reconcileSingle, reconcileStartup | modelled |
| Position synthesis worker (`workers/positionPolicyInsightSynthesizer.ts`, `workers/policyInsight/runPositionSynthesisCycle.ts`) | what a cycle has read | startup sweep, poll, claim, synthesise, record | modelled |
| Pair synthesis worker and cursor (`postgresPolicyInsightSynthesisTriggerAdapter.ts`, `policyInsightSynthesisWorker.ts`, `policyInsight/runSynthesisCycle.ts`) | one cursor row with a lease | claim, complete, release | modelled |
| Evidence store (`postgresEvidenceBundleRepository.ts`) | append-only bundles | append, getLatest, getHistory | modelled |
| Evidence selection (`engine/evidence`) | pure | selectEvidence | modelled |
| Policy reducer (`engine/policy`) | pure | synthesizePolicyInsightV1 and the contract's checks of it | modelled |
| Policy insight synthesis (`synthesizePolicyInsightUseCase.ts`) | none | gather inputs, check the selection, reduce, insertOrGet | partly |
| Policy insight repository (`postgresPolicyInsightRepository.ts`) | append-only insights | insertOrGet, getCurrent, getHistory | modelled |
| Candle store, aggregation (`ledger/candle*`, `engine/candles`, `engine/marketRegime`) | append-only revisions | ingest, read latest, cut off, derive hours, judge freshness | modelled |
| Gecko collector (`workers/geckoCollector.ts`, `workers/gecko`) | the batch it posts | poll, normalise, post, retry, stop | modelled |
| Regime classification (`engine/regime`, `engine/marketRegime`) | the client's hysteresis | classify, judge suitability | modelled |
| Plan engine (`engine/plan`, `engine/churn`) | the client's counters | govern, plan | modelled |
| Plan ledger (`ledger/writer.ts`, `sqlitePlanLedgerReadAdapter.ts`) | SQLite: plan requests and plans | write, latest, by hash, list | partly |
| HTTP layer (`adapters/http`) | none | parse, authorise, answer | partly: histories and the current insight |
| Contracts (`contract`) | none | validate, canonicalise | partly: semantic checks |
| S/R levels and theses (`ledger/srLevelsWriter.ts`, `ledger/srThesesV2Store.ts`) | append-only | ingest, read current | later |
| Execution ledger (`ledger/writer.ts`) | SQLite rows | record results and CLMM events | later |
| Weekly report (`report/`) | pure | aggregate, baselines | not planned |
| Composition (`composition/`) | none | wiring, migrations, health | not planned |

How they interact. `POST` evidence appends a bundle and then reconciles its
scope; `POST` plan reads the candles, classifies the regime from the state the
client carries, writes the plan to SQLite and then reconciles its scope; the
internal trigger reconciles one scope or sweeps them all; so does a position
worker when it starts. Reconciliation reads the latest plan (SQLite), the
newest evidence of each source (Postgres), computes the hash of the evidence
selected, and calls the queue. The worker claims one request at a time, checks
that its plan is still the latest and its position recent, reads the market
regime, selects the evidence again, reduces all of it to an insight, stores
that and records the outcome. Apart from all this the collector polls a price
provider and posts candles, and clients page through evidence and insights.

What is hard. Nothing spans the two stores, so a plan may be stored and never
requested. Every `await` is a point where another handler or worker may write.
The queue's statements run at READ COMMITTED and two of them choose a row in a
sub-select that they lock later. Leases run out under slow workers. Evidence
goes from fresh to stale to expired by the clock alone, which changes the hash
a request is identified by. A row's id and stamp are taken before it commits,
so histories fill in behind a cursor. Posts of candles arrive late, twice and
behind newer ones. Selection closes over lineage in a loop with removals; the
reducer's stages lock and overwrite one another's fields, and the contract
judges the result by rules of its own.

What makes each component correct:

- *queue*: one row per synthesis whatever the order of arrivals and replays;
  waiting rows never duplicate a row that answers them; one holder at a time;
  outcomes are final; a scope's requests go in order; retries are capped;
- *reconciliation*: the latest facts end up requested, and a sweep repairs
  what was lost;
- *worker*: an insight answers a request, a completed request has an insight,
  a ready request gets an outcome;
- *pair cursor*: no evidence is passed over; attempts are capped per target;
- *archives*: a run or an input hash is stored once; a client that follows the
  cursors misses nothing and sees nothing twice; the current insight never
  gets older;
- *selection*: closed under lineage, ranked rightly, summarised truly, a
  function of the evidence and its freshness;
- *candles*: genuine, never set back, in the end the provider's;
- *plans and advice*: a regime changes only when confirmed; guards outlive
  their plan; evidence only tightens; advice ends with its inputs.

## 2. Modules

| Module | Models |
|---|---|
| `RequestQueue` | the table and the adapter's operations, one action each |
| `LeasedWork` | abstract: what a queue of leased work promises |
| `QueueRefinement` | the mapping from rows to jobs |
| `PositionFacts` | the evidence store and the plan ledger, with the reads the pipeline shares |
| `Reconciliation` | the use case and its callers; it composes `RequestQueue` (by INSTANCE) with `PositionFacts` |
| `SynthesisCycle` | the worker |
| `PositionSynthesis` | the pipeline: handlers, workers, time, failures; its properties |
| `PairSynthesis` | the pair insight's cursor and its workers |
| `EvidenceSelection` | the store's newest bundles, the bundle contract and `selectEvidence` |
| `MarketRead` | pure: cut-off, hours from quarters, freshness, the classifier, suitability |
| `CandleFeed` | provider, collector, network and candle table; extends `MarketRead` |
| `PositionPlan` | pure: the churn governor and a plan's action; extends `MarketRead` |
| `PolicyReducer` | pure: the reducer's rules and the contract's checks of what they make |
| `PolicyInsights` | candles, plans and insights over time; composes `PositionPlan` with `PolicyReducer` (by INSTANCE) |
| `Archive` | evidence and insight histories, their writers and their clients |
| `RequestQueueProofs`, `QueueRefinementProofs`, `PositionSynthesisProofs`, `PairSynthesisProofs`, `EvidenceSelectionProofs`, `CandleFeedProofs`, `ArchiveProofs`, `PolicyInsightsProofs` | theorems: see 6 |
| `MC...` | instances for TLC |

### RequestQueue

`rows` maps a serial id to a row (`sel` is selection_hash, `plan` plan_hash).
`enqueueOrReconcile` runs under a transaction-scoped advisory lock, so it is
one action; `EnqueueBoth` is its four ways to treat a call with both hashes
(the row is there, the row waiting for a plan is promoted, the one waiting for
evidence is promoted, a row is inserted), `EnqueueSelection` and `EnqueuePlan`
the calls with one. `complete`, `fail`, `supersede` and `releaseForRetry`
carry their whole condition in the locked row's WHERE clause and are one
action each; when the row is no longer the caller's they change nothing.

`claimBatch` is `ClaimSnapshot` (the candidates and the instant) and
`ClaimLock` (lock the first candidate that is not skipped, by id alone). SKIP
LOCKED skips a row that another session may hold at that moment: one it has in
its own candidates, or, when statements overlap, one it owns. That is more
often than Postgres would, so safety covers the real choices, and liveness
assumes strong fairness of a claim that takes a row. `failWaitingForPlan` is
likewise a snapshot and a locked update; the update is refused when the new
row breaks a CHECK, which it always does (see 5).

`Overlap` says whether other statements may commit between a snapshot and its
lock. TRUE is what READ COMMITTED allows; FALSE is what one worker per
database gives, the deployment the documents ask for.

### PositionFacts, Reconciliation

A bundle is the times the reads compare (as of, fresh until, expires) with its
run, scope and source; a plan its hash, scope, as-of time and the time its
position was observed. The hash of a selection is modelled as the selection
itself: which runs, each with its lifecycle, because that is what
`computeEvidenceSelectionHash` covers and what drifts with time. Plans of
positions without a wallet are left out: the code does not enqueue them.

`job[c, s]` is caller c's call of `reconcileSingle` for scope s: its `pc`
names the next await, and `plan`, `sel`, `waits`, `at` are its local
variables. A handler makes one call; a sweep makes one for every scope it
lists, all in flight at once (`mapConcurrent` starts ten, and the instances
have fewer scopes). `sweep[c]` is the call of `reconcileStartup`: four reads,
one step each, then the calls, until all end or one throws. `settled` is a
history variable: how many writes had happened when the last finished call of
a scope began.

### SynthesisCycle, PositionSynthesis

`work[w]` is worker w's place in `runPositionPolicyInsightSynthesisCycle` with
what it has read. `CheckPlan` does the two SQLite reads (synchronous, so one
step), `ReadMarket`, `SelectEvidence` and `InsertInsight` the reads and the
write of the use case, `Record` the queue's update, `CycleFails` the error of
a store at any of them, `Crash` the death of the process. `market` is a
version of the market regime; the S/R theses, a second such version in the
hash, are left out. An insight is what its input hash covers. Every failure
counts in `faults`, bounded by `MaxFaults`.

### PairSynthesis

The pair worker is a system of its own: one cursor row follows the largest ids
of `evidence_bundles` (scope `pair`) and `sr_theses_v2`. `drawn`, `open` and
`stored` model a table by its ids, which a transaction draws before it
commits, so they may appear out of order; `late` remembers (history) which
did. `ClaimLock` is the claim's transaction up to its first maximum,
`ClaimUpdate` the second maximum and the update; between them the row is
locked and every other writer of the cursor waits (`Unlocked`). The instant of
a claim is taken before the wait (`Poll`). A synthesis reads evidence, then
theses, then stores its insight; `answered` collects (history) what insights
were made from and what was given up. `Fails` is an error the cycle catches,
`Drop` one it does not, or a crash.

### EvidenceSelection

`rows` are stored bundles, `Post` and `Tick` change them and the time. A
selection is one synchronous call; it is split at its loop so that TLC can
look at each pass and so that its end is a liveness property: `Begin` reads
the newest bundle of each source, rejects bundles, scores, ranks and cuts;
`ClosurePass` is one pass over the features in the order of their ids;
`JudgeBriefs` the rest; `Return` goes back to idle and keeps the call as
`last` (history). Posts and ticks wait meanwhile, as the event loop makes
them. `ValidBundle` is the semantic part of the bundle contract, and decides
what may be stored. Scores keep the code's integer arithmetic with basis
points scaled to `Bps`. The order of the output's arrays and the texts of
warnings are left out.

### MarketRead, CandleFeed

Prices are abstracted to the bands the thresholds cut them into (`Telemetry`),
since nothing below the classifier tells prices apart otherwise; the
indicators' floating point is outside TLC's integers. A candle is a version
number of its slot, as the provider counts it: `Revise` moves it on, a faulty
answer of the provider (`Answers`) has a duplicate, a contradicting or a
garbled row. `net` holds the posts under way. A post leaves when `Take` or
`Again` sends it, is applied by `Deliver` at any later time, a retry or a
newer batch before it included, is rolled back by `IngestFails` or lost by
`Lose`; the collector may give up waiting at any time (`PostTimesOut`). `Keep`
is `classifyCandle`; `Latest` is the read's `DISTINCT ON` order. The rate
limiter only delays, and is left out.

The provider is taken to revise forward only: were a candle to return to an
earlier version, the re-confirmation would be classified as idempotent and
would not refresh its stamp.

### PositionPlan, PolicyReducer, PolicyInsights

`PolicyInsights` is a history of what the pure parts do: candles come in, a
client asks for plans, giving back the regime state of its last plan
(`carried`) and its own churn counters, and insights are reduced at any time
from what is there. `answer` keeps the last insight with what it was made of.
The evidence is an input here (claims with direction and expiry, conflict,
breached features, brief, S/R bias, levels): its selection is
`EvidenceSelection`'s matter. Scales of four or five words are numbers.
Reading the reducer taught some facts worth stating: a trending market is
always `BLOCKED` for liquidity, so its advice is to stand down, with no
capital; a qualified breach in a market too bad to judge is answered with
STAND_DOWN and not with an exit; a later stage overwrites the risk floor of an
earlier one, `critical` with `elevated` (`synthesizePolicyInsight.ts:493`; the
tests expect it); `whirlpool` scope behaves as `pair`. The allocation policy,
its caps and the chop gate have no caller outside tests and are left out.

### Archive

`kind` chooses the archive. `Stamp` is the instant a row is stamped with (a
bundle's receipt, a synthesis' beginning), `Insert` the statement, which draws
the id, `Commit` the moment others see it; between any two everything else may
happen. A reader goes from `Begin` (parse or refuse) through `Read...` and
`Ask`, and `owed` (history) is what was committed when it began. All clocks
are one machine's, a tick being a second. Clients only read, so a behaviour
has either one that pages or one that polls.

## 3. Runs

All times and hashes are small: in the queues, leases and retries last one
unit, two attempts are allowed, the window around a plan is one unit.

| Run | Instance | What it shows |
|---|---|---|
| `queue_serial` | 1 scope, 1 selection, 2 plans, 2 sessions, time 0..2, statements one after the other | schema and unique indexes, no waiting duplicates, retries capped; outcomes final, leases respected, first in first out per scope; the table implements `LeasedWork` |
| `position_wakeups` | 2 handlers; bundles: one drifting from fresh to expired, a forged payload of its run, one too late for the first plan; 2 plans; empty at first, or with a bundle whose wake-up failed | no order of arrivals loses a wake-up; a sweep repairs what was lost |
| `position_recovery` | 2 workers, a plan and a bundle stored and not requested, the market moves once, 2 failures or crashes, statements overlap | insights answer requests, completed requests have one, the queue is used as specified; types of the whole pipeline |
| `position_liveness` | 3 workers one after another, 2 requests of one scope, the first superseded, 2 failures, time 0..9 | every ready request gets an outcome |
| `position_stale` | 1 handler, 1 drifting bundle, 1 plan | counterexample: see 5 |
| `pair_cursor` | 2 workers, 2 bundles, 1 thesis in any order of commits, time 0..2, 2 failures | cursor coherent, nothing skipped but late rows, never back, lease respected |
| `pair_liveness` | 2 workers, 1 bundle, 1 thesis, 2 failures, time 0..8 | the cursor catches up |
| `evidence_selection` | 2 sources, one with three features in four lineages (independent, a chain either way, a circle), claims and briefs, one that competes for its families; up to 2 bundles stored, time 0..3, cap 2 | closure, ranking, summary, stability and end of a selection |
| `candle_feed` | 3 slots of 2 ticks, 2 to an hour, 2 versions, 2 attempts, 2 faults, time 0..7 | stored candles are genuine, never set back, in the end the provider's; freshness calls stale only a market that misses candles |
| `policy_insights` | 3 slots, 4 readings, 9 plan requests, 11 selections, time 0..4, 2 bars confirm a switch after 1 held | guards hold, evidence never loosens, advice ends with its inputs, refusals are three known ones, switches are confirmed |
| `policy_reasons` | the same | counterexample: see 5 |
| `archive` | 2 writers, 3 keys, 3 ids, 1 client, pages of 1 and 2, time 0..2, both archives | histories complete, each row once and newest first; the current insight never gets older |

`late` matters in `pair_cursor`: `NothingSkipped` without it is false. A
bundle that commits after one with a larger id has been claimed is below the
cursor when it appears and triggers nothing; only the next bundle brings it
into an insight. No document of the repository says otherwise, so it is no
finding, but it is what the cursor promises. `owed` plays the same part in
`archive`: a row stamped before a page was read and committed after it is
never part of that history.

Why the bounds are enough.

- *Queue.* The queue's decisions compare rows of one scope and ruleset
  pairwise, so two values of one hash against one of the other reach a waiting
  row, its counterpart and the ready row that joins them; two sessions are the
  smallest number that overlaps, and two attempts the smallest cap that has a
  boundary. Time goes far enough for a lease or a retry taken in the first
  unit to run out. Larger instances of the table are what the theorems are
  for.
- *Pipeline.* Time stops mattering once every deadline is past (`Deadlines`),
  and `Tick` stops there. In `position_liveness` the clock's bound is past
  every retry and lease that the two failures and two attempts of two requests
  can produce, and each of the three workers that could die has a successor.
- *Selection.* Three features are the shortest lineage in which a removal in
  the middle of a pass undermines what the pass has kept; a cap of two with
  four competitors has ties; two stored bundles let one replace another
  between two selections; the last instant is past every boundary of a bundle.
- *Candles.* Two attempts, two versions and two faults let an old post arrive
  behind a newer one, a retry behind its own success, and a fault follow
  another; three slots give an hour derived from complete quarters and one
  that is not. At the horizon sleeps end without the clock, so that the
  collector's loop, not the bound, decides convergence.
- *Advice.* Two bars confirm a switch, so a reading in between can undo it;
  every range is combined with each state of the counters that changes the
  action; each kind of evidence comes alone and with what it interacts with,
  expiring at the synthesis and after it. The time passes every lifetime.
- *Archive.* Three rows are the fewest with a page boundary between rows that
  share a stamp and one that commits behind it.

`CHECK_DEADLOCK FALSE` is set where the model may stop: bounded counters are
used up, workers dead or idle, clients done.

Every property of a passing run has a mutant in the modules (marked *Mutant*),
a plausible mistake in one definition, under which TLC finds the property
violated.

## 4. Fairness

`PositionSynthesis!Fairness` assumes weak fairness of time and of every step
of a worker that is up (the poll loop never stops by itself, and an error is
logged and followed by the next poll), and strong fairness of a claim that
takes a row: PostgreSQL skips a locked row only while another session holds
it. A worker that crashes is replaced (`Boot` is fair) and, in the liveness
run, only one runs at a time (`Solo`), as the documents demand: "Deployment
must remain single-writer". Failures are finite. Handlers need no fairness:
nothing in the liveness run depends on one.

`PairSynthesis!Fairness` is weak for time and for each worker's cycle, and
strong for the three statements that wait for the cursor's row lock, because
PostgreSQL grants a row lock in turn. `Prompt` keeps time from passing a lease
while its holder works: "Lease duration must exceed a normal synthesis cycle".
Without it two slow workers could take the lease from each other until the
clock's bound.

`CandleFeed!Fairness` is weak for time, for the collector's own steps when
nothing fails, and for the arrival of some post that is not lost. Nothing is
assumed of faults but that there are `MaxFaults` of them; after the last the
provider answers and the service stores. `EvidenceSelection!FairSpec` is weak
for the two steps of a running selection, which is a synchronous call.

## 5. Where the code and its documents disagree

Two counterexamples are runs:

- **POSITION_STALE cannot be recorded.** `failWaitingForPlan` sets a row
  without a plan to `failed`; `chk_synthesis_requests_hashes` forbids it.
  `position_stale` shows the refused update; the call that meets it throws,
  and with it a startup sweep.
- **Advice in the documented order is refused.** The contract's validator
  orders the CHURN codes before data and breach codes, and
  NO_ELIGIBLE_PRICE_LEVELS before the evidence's; ruleset and document order
  them after. `policy_reasons` shows advice that is reduced, then refused as
  OUTPUT_SCHEMA_INVALID and never stored, such as an exit during a cooldown.
  `RefusedOnlyHere` bounds what else is refused.

### Known deviations

These follow from the models, and are described here without a run of their
own:

- *A claim can take a request that is held.* `claimBatch` locks by id what it
  chose in an older snapshot (queue adapter, line 306). After the wait for a
  row that another claim updates, PostgreSQL checks again that the id is among
  the candidates, which were computed before; it is. The adapter's test "does
  not steal an unexpired processing lease"
  (`postgresPositionPolicyInsightSynthesisQueueAdapter.test.ts:180`) makes its
  claims one after the other. The owner checks of the updates contain the
  damage, and with a single worker it cannot happen: `NoLiveLeaseStolen` is
  checked and proved for that.
- *A reclaimed request may leave two insights.* The request pins evidence and
  plan, the insight's hash covers the market as well
  (`policyInsightFingerprints.ts:66`). A worker that stores an insight and
  dies has a successor that stores another one for the same request, where
  `task-context-step-9.md:131` says "exactly one canonical insight".
- *An insight as of its own instant.* The document bounds `asOf` by `<=`
  (`docs/contracts/policy-insight.v1.md:82`), the validator by `<`.
- *Newest evidence.* The repository orders bundles by as-of time, then by
  receipt; `docs/contracts/evidence-bundle.v1.md:159` promises "the most
  recent bundle by `receivedAtUnixMs`".
- *A fresh insight may be refused to a reader.* One made two seconds or more
  after the reader's clock was read lies in its future: the page, or the
  current insight, is answered with 400. A client that asks again loses
  nothing (`HistoryIsComplete`).
- *A partial last candle is read as closed* while the collector is down: no
  column says whether a revision is final. `Converges` shows that it is
  repaired.

## 6. What is proved

Eight modules hold theorems, for any value of the constants that satisfies the
named assumptions of the modules (TLC evaluates these on the instances).

`RequestQueueProofs` (`QueueAssumption`):

- `TypeCorrect`, `SchemaCorrect`, `WaitingUnique`, `RetriesCapped`: the types
  and the three invariants of `queue_serial`, and `IdentityKept`, that hashes,
  ready requests and counts of attempts are never lost. These hold whether
  statements overlap or not;
- `OutcomeFinal`, `LeaseRespected`, `HeadOfLine`: the action properties of
  `queue_serial`, assuming `Overlap = FALSE`.

The four invariants are not inductive one by one. That a promoted row has both
hashes and breaks no index needs `WaitingAlone` (nothing else of its plan
waits) as well as the uniqueness in `SchemaHolds`; that the attempts of a row
that waits are zero needs the types. `QueueInv` is their conjunction with
`ClaimsSound`: whatever commits between a claim's snapshot and its lock, the
rows it chose stay in the table with both hashes. Each action preserves it.
For the serial properties `SerialInv` adds that at most one session is between
a snapshot and its lock and that its candidates are still heads and due; with
it each step of `ClaimLock` takes a row that may be taken.

`QueueRefinementProofs` proves `LeasesImplemented`: with `Overlap = FALSE`,
`Spec => ImplementsLeases`. `SchemaHolds` makes the mapping a function of the
job (at most one row has both its hashes); each action then posts, takes,
returns or closes one job, or none.

`PairSynthesisProofs` proves for any workers, bounds and timings
`TypeCorrect`, `CursorCorrect`, `NothingLost`, `OnlyForward` and
`LeaseRespected`: the five properties of `pair_cursor`. The invariant
`PairInv` rests on one observation, lemma `CommitKeeps`: once an id is stored,
whatever commits below it is late, so the rows a target covers are fixed when
it is claimed. `ReadSound` carries that from the claim through the two reads
to the insight, and `CursorSound` from there to the cursor; `ClaimSound` says
that a claim under way still finds the cursor it locked, and `AttemptsSound`
that cursor and worker agree on the attempts as long as the claim is held.

`ArchiveProofs` proves for any writers, clients, keys, queries and page sizes
`TypeCorrect` (with it: one row for a key), `HistoryComplete` and
`CurrentMonotone`: the two properties of `archive`. That no page skips or
repeats a row rests on an invariant with four parts: what the pages have given
is stored and lies before the cursor (`PagesStored`, `PagesBehind`), pages are
in order (`PagesOrdered`), and what was owed and not given lies after the
cursor (`RestListed`). Rows never change once they are committed
(`TableGrows`), so neither part can be undone by a commit, wherever in the
order it lands; ids of different rows differ (`IdsApart`), so the order is
total.

`PolicyInsightsProofs` (`MarketAssumption`, `PlanAssumption`,
`InsightAssumption`) proves for any candles, requests and evidence
`TypeCorrect`, `GuardsCorrect`, `EvidenceTightens`, `LiveInputs`,
`RefusalsKnown` and `SwitchConfirmed`: all the properties of
`policy_insights`. `InsightAssumption` asks of a request what its validation
does: a position not observed later than the plan (`contract/v1/validation.ts:217`)
and counters that are natural (line 84).

- `InsightInv` says that an answer is the reducer's answer to a sound plan (it
  asks for an exit when its position is breached, and a stand-down of its lasts)
  and to a sound market (UNKNOWN when its candles are too old). What the advice
  may then be relied on for is read off the reducer.
- `LiveInputs` rests on `ExpiryBounds`, and that on lemma `NatMin`: a set of
  naturals has a least element, which is what `Min` chooses.
- `RefusalsKnown` goes through the contract's rules one by one. The two orders
  of the reasons differ on the pairs of `OrdersDiffer` only, and `ReasonsWhy`
  says why both codes of such a pair can be among the reasons. Working out the
  proof corrected the property: it named counted claims, but the bias of an
  S/R thesis is a vote without any. It now says that the evidence has a vote,
  and the instance has such evidence.
- `SwitchConfirmed` has its own invariant `SwitchInv`: the pending regime is
  another than the current one and what the last plans wanted, as many of them
  as are counted, and counting starts only after the hold.

`CandleFeedProofs` (`FeedAssumption`) proves for any slots, batches and faults
`TypeCorrect`, `StoredGenuine`, `NeverSetBack` and `StaleOnlyMissing`: the
safety properties of `candle_feed`. Those of the table are not inductive: what is on the net or in the collector's
hands will be stored later. `FeedInv` therefore speaks of every *sighting* of
a candle, in the table, in a post under way or in the batch about to be sent:
each was at the provider at its instant, and of two of one slot the later is
not of an older version (`SightingsSound`). A post that arrives late then
finds a newer revision and is not kept, or is in order; that a slot with
revisions has a newest one (`NewestThere`) makes what the read shows well
defined. `SeqOfSet` says what the order of a batch's rows in the table comes
to: each of them once.

`StaleOnlyMissing` needs no history but the types: when no candle that was due
is missing, the newest bar read opens at the cut-off itself, quarters
(`QuartersReachCutoff`) and hours (`HoursReachCutoff`) alike, and its close is
less than a bar and the delay ago (`CutoffIsLast`). It assumes two things of
the constants. `LimitsAllowForDelay`: a limit for stale data is no shorter
than a bar and its delay, and hours wait no less than quarters;
`MARKET_REGIME_CONFIG` has 25 minutes for bars of 15 and a delay of 2, and 75
for bars of 60 and 5. `SlotsHaveNoGap`: the slots of the instance, which stand
for all the openings of time, leave none out in between.

`PositionSynthesisProofs` (`FactsAssumption`, `ReconcileAssumption`,
`SynthesisAssumption`) proves for any handlers, workers, scopes, plans and
evidence, with `Solo` or without, `TypeCorrect`, `QueueCorrect`,
`InsightsCorrect`, `WakeupsKept` and `SweepsRepair`: all the safety properties
of `position_recovery` and `position_wakeups`. `FactsAssumption` asks that
evidence does not expire before it goes stale, which the evidence contract
checks (`contract/evidence/v1/validate.ts:316`), and that no hash is NULL.

- The queue inside the pipeline is an instance of `RequestQueue`. The lemmas
  of `RequestQueueProofs` are stated for any constants and are instantiated
  (`QP`): once every step of the pipeline is seen to be a step of the queue or
  none (`QueueStep`, which is also `QueueCorrect`), `QueueInv` holds here
  without a second proof.
- `PipelineInv` adds what a call, a sweep or a worker remembers across an
  await. `WorkerSound`: the request a worker works on is in the table with
  both hashes, and the plan and selection it read are that request's, even
  after its lease has passed to another worker. This, and not a lock, is why
  `InsightsAnswerRequests` survives a slow worker: a row is completed only by
  its owner, and hashes once there are never changed.
- `WakeInv` is about time. A call whose first read is as new as the last write
  (`Current`) holds exactly the plan and the selection the facts call for, so
  its enqueue leaves the scope requested (`CurrentServes`), and a step that
  writes nothing keeps it so (`RequestedKept`: what is expired stays expired,
  and rows keep their hashes). `SweepCurrent` says the same of a sweep: the
  scopes it has left out had no plan and nothing but expired evidence
  (`Outdated`), and one of its calls ends quietly only by an enqueue or
  because nothing is called for (`SweptMoves`).

TLC confirmed `PipelineInv` and `WakeInv` on the instances of
`position_recovery` and `position_wakeups` before they were proved.

`EvidenceSelectionProofs` (`PolicyIsValid`, `BoundsAreNatural`,
`OffersFollowSchema`) proves for any sources, bundles, windows, weights and
caps the seven safety properties of `evidence_selection`: `TypeCorrect`,
`ClosureExact`, `NothingIsLost`, `RankedRight`, `ConclusionsRest`,
`SameVerdict` and `SummaryTrue`. `OffersFollowSchema` is what the JSON schema
asks of a bundle, as far as the selection reads it.

- The inductive invariant `Inv` says that a finished verdict is `Judged`: what
  the records and the instant alone decide. The six properties other than the
  types then need no further induction over steps; each is read off the
  verdict's form (`VerdictForm`, `SelectedItem`). `SameVerdict` is the case in
  point: between two instants with no boundary between them (`Quiet`) lemma
  `QuietRecords` gives the same candidates and exclusions, and `OneVerdict`
  the same decisions.
- The loop needs no induction over its passes or over a lineage. A pass keeps
  everything that can be built up from the ranked features (`Grounded`, the
  least set closed under lineage: `PassKeepsGrounded`), so `LoopState` is
  invariant; and a pass that drops nothing leaves nothing else
  (`FixedPassIsGrounded`): among features that are in and not grounded one
  would, by `AcyclicLineage`, depend on no other of them, hence on grounded
  ones only, and so be grounded. `Pass` is written with this in view: it gives
  the set of outcomes that agree, feature by feature, with what the pass has
  done before in the order of ids; there is one.
- The sums behind a brief's score and a consensus are folds. That a sum exists,
  is natural and bounds its summands is proved by a least counterexample
  (`LeastNatural`, `SumExists`, `TotalBounds`): the smallest size of a set for
  which it fails.
- `SummaryTrue` assumes `MinScore > 0` and `StaleWeight < Bps`. The code's
  validation also accepts a policy without them; the shipped one has 2500 and
  5000 of 10000 (`engine/evidence/selectionPolicy.ts`). Without a threshold a
  claim of score 0 can contest a family whose consensus then reads as full;
  with a stale weight of 10000 the selector, which knows stale evidence by its
  weight, warns of `stale_input` for fresh evidence too. The other six theorems
  assume neither.

Only model-checked: liveness under fairness (`RequestsEnd`, `CatchesUp`,
`SelectionEnds` and `Converges`), which the provers do not reach. Every type
invariant, safety invariant and action property that a passing run checks is a
theorem. Nor do the provers apply the library's induction theorems; the one
induction over data, that of the sums, goes by hand on a least counterexample,
and a definition that says what a loop leaves rather than how it runs avoids
the others.

## 7. Not modelled

Request parsing outside the histories, authentication, the OpenAPI document,
canonical JSON, JSON schemas and the types generated from them are stateless
conversions. Wiring, migrations and health checks are run once before anything
else. The indicators and the report's arithmetic are floating point, outside
TLC's integers. The S/R theses enter the pair cursor as ids, the pipeline as a
part of the input hash (left out there, `market` being such a part already)
and the reducer as a bias; their ingest is left to the plan.

## 8. Plan

1. *(done)* Queue, its abstract specification, their proofs.
2. *(done)* Facts, reconciliation, worker, pipeline.
3. *(done)* `PairSynthesis` and its proofs.
4. *(done)* `EvidenceSelection`.
5. *(done)* `MarketRead`, `CandleFeed`: collector, network, candle table,
   reads.
6. *(done)* `PositionPlan`, `PolicyReducer`, `PolicyInsights` and their
   proofs.
7. *(done)* `Archive` and its proofs.
8. *(done)* Theorems about `CandleFeed`: `StoredIsGenuine` and
   `NeverRegresses`.
9. *(done)* Theorems about the pipeline: types, `QueueImplemented`,
   `InsightsAnswerRequests`, `NoLostWakeup`, `SweepRepairs`.
10. *(done)* Theorems about `EvidenceSelection`: all its safety properties.
11. *(done)* Theorems about what was left: the types of `PolicyInsights` and
    `RefusedOnlyHere`; `StaleOnlyWhenCandlesMissing` of `CandleFeed`.
12. `ExecutionLedger` and `SrStore`: idempotence and conflicts as one abstract
    specification (*stored once*), refined by each store.
