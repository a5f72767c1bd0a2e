# frtb-capital: a TLA+ model of the parts that keep state or decide in steps

frtb-capital is a monorepo of Python packages that calculate the FRTB capital
charges of a bank (`frtb-ima`, `frtb-sbm`, `frtb-drc`, `frtb-rrao`, `frtb-cva`),
aggregate them (`frtb-orchestration`), store the results (`frtb-result-store`)
and show them (`frtb-navigator`). Its tools include an onboarding mapper, a
small web server with sessions.

What is modelled: the result store, which is where state, crashes and concurrent
callers are (write path, catalog, run status, export, organisation hierarchy);
the session store of the mapper, which threads share; and those calculations
whose outcome depends on a long sequence of dependent steps or on data that
changes between two of them (the default risk charge of a bucket, the daily
assessment of an IMA desk, the way from prices to the capital of risk factors
that cannot be modelled).

## 1. Inventory

| Component | State | Operations | What is hard | What makes it correct | Module |
|---|---|---|---|---|---|
| Result store, write path (`_io_write.py`, `_io_manifest.py`) | a staging directory per run id, one Parquet file per table, mart and artifact, the manifest | `write_bundle`: stage, publish, commit by hard link, roll back | a crash, an interrupt or an error between any two file operations; retries; two writers on one run id; an operator's clean-up | a readable run is whole, never changes, and failed calls never block a retry | `ResultStore` |
| Result store, catalog (`_io_catalog.py`) | DuckDB views with a fixed list of files | refreshed after a commit, errors swallowed | files that go away after the view was made | a view never names a missing file | `ResultStore` |
| Result store, run status (`_io_write.py`, `_io_run_queries.py`) | one event file per transition | `append_status_event`, `status_history`, `latest_status` | the latest status is read, then a file is published; events are ordered by a text | the history is one chain of transitions from the initial event | `StatusLifecycle` |
| Result store, export (`admin.py`) | an export directory | `export_run` | the old export is removed before the new one is complete; events appended while it copies | what verifies is a whole run, and as new as its call | `StoreExport` |
| Result store, organisation hierarchy (`org_hierarchy*.py`) | none (validated input) | aggregates by level, rows behind an aggregate, pages under a node | effective dates, versions, cycles; three requests that resolve the tree in different ways | every amount is counted once, and the rows behind an amount are those it counted | `OrgHierarchy` |
| Result store, readers, validation, HTTP API, marts | none | selections over committed files | what a reader sees while a writer works | only committed, whole runs | through `ResultStore` |
| DRC (`gross_jtd.py`, `maturity.py`, `netting.py`, `kernel/nonsec.py`, `capital.py`) | what is left of each short while layers are netted | gross JTD, scaling, netting, credit-quality check, hedge benefit ratio, bucket capital | the greedy order decides what later layers can use; caps and floors meet netting; one bad record stops everything | nothing that may be offset is left; the charge does not depend on how the netting was done | `DrcNetting`, `DrcCapital` |
| IMA, desk (`backtesting.py`, `pla.py`, `ima_eligibility.py`, `capital.py`, ...) | series of P&L and VaR | backtesting, PLA, alignment of their windows, eligibility, multiplier, assembly | series cut one by one, calendars, missing values, gates in several places | a trace is about the day it names; not reporting never pays | `ImaDesk` |
| IMA, RFET and NMRF (`rfet*.py`, `nmrf*.py`) | observations, classifications, a valuation run | count, classify, select methods, request, reconcile, capital | prices and classifications change while the engine works; two counting loops | a figure is of the run, factor, period and approval it was ordered with | `Rfet`, `NmrfCapital` |
| Onboarding mapper (`tools/onboarding_mapper/backend`) | sessions bounded by number and idle time, a lock | create, get, delete from threads | eviction under a concurrent request, a clock that does not wait | the bound holds, a session goes only for a reason, every request is answered | `MapperSessions` |
| SBM, RRAO, CVA, the rest of IMA | none | weighted sums and matrix aggregations, expected shortfall | numerical | numerical | |
| Orchestration (`suite.py`, `standardised.py`) | none | aggregates component summaries, routes desks that fall back to SA | a desk counted twice or in neither | each desk is in exactly one approach | |
| Capital graph, AI explanation records, bundle model | none | construction and validation of records | identifiers | | |
| Navigator | a fixture store in a shared temporary directory | web view | two processes building the fixture | the fixture is whole | |
| Agent worktrees (`scripts/agent_worktree.py`) | git worktrees | create, remove | a check made long before the action | one agent per worktree | |

The calculators hand immutable records to the orchestration, which hands a
bundle to `write_bundle`; readers, the API, the export and the navigator read
what `write_bundle` committed. The only state that several callers share is the
result store's directory tree and the mapper's session store. `PROJECT.json`
lists every component with its status, and the hazards at their lines, those that
no property covers included.

## 2. Modules

| Module | Models | Uses |
|---|---|---|
| `ResultStore` | `write_bundle` and the staging clean-up, with faults, for the local and the s3 backend | `RunArchive` |
| `RunArchive` | what `write_bundle` promises: an append-only archive of whole runs | |
| `StatusLifecycle` | `append_status_event`, the readers of the history | |
| `StoreExport` | `export_run` of a run whose status goes on | extends `StatusLifecycle` |
| `OrgHierarchy` | view, trace and detail of a dashboard session | |
| `DrcNetting` | the netting of one obligor in one bucket | |
| `DrcCapital` | the bucket from contracts to charge | extends `DrcNetting` |
| `ImaDesk` | the daily assessment of one desk | |
| `Rfet` | the risk factor eligibility test (operators) | |
| `NmrfCapital` | from prices to stress-scenario capital | extends `Rfet` |
| `MapperSessions` | the session store and its requests | `SessionCache` |
| `SessionCache` | what it promises: a bounded cache of what was used last | |
| `MC*` | small instances for TLC | |
| `InductionLemmas` | induction, sums, sorting and folds as facts to cite in proofs | |
| `ResultStoreProofs` | theorems about `ResultStore` and its archive | |
| `StoreExportProofs` | theorems about `StatusLifecycle` and `StoreExport` | |
| `DrcCapitalProofs`, `NmrfCapitalProofs`, `ImaDeskProofs`, `OrgHierarchyProofs`, `MapperSessionsProofs` | theorems about the module in their name and those it extends | |

Each definition is tied to lines of the source in `PROJECT.json` (`map`). A
definition whose comment says that it is a *mutant* is a deliberately wrong
variant of another one; it is in no specification, and replacing the original
by it makes a property fail.

### ResultStore

An actor is a call of `write_bundle`. A retry is another call with the same run
id (`RunOf`). `pc` is the line a call is at, `todo` the files its current loop
has not treated, `moving` the file it is moving. `stagingDirs` and `staging` are
the directory `_staging/<run>`, `final` the files at their published paths,
`manifest` the file whose existence commits the run, `catalog` the files each
DuckDB view names. A file holds the call that wrote it, so a run that mixes the
files of two calls can be recognised; `Torn` is a file whose copy has not
finished.

One action is one file operation, in the order of the code: clear the staging
directory (`ClearStaging`), remove orphans (`RemoveOrphanedRunFile`), make the
directory, stage (`StageFile`), publish (`TakeFile` is the check of the target
path, `RenameStagedFile` or `StartCopy`/`FinishCopy` the move), validate the
artifacts, stage and check the manifest, commit (`LinkManifest`; on the s3 backend
`StartManifestCopy`, `FinishManifestCopy` and `UnlinkCopiedManifest`, each of which may
fail on its own), unlink the staged manifest, remove the staging directory
(`RemoveStaging`, the `finally` clause) and refresh the catalog. The `except`
clause is `RollbackFile`; what it removes follows from how far `moved_paths` had
got (`RollbackSet`). What the code removes with `rmtree(ignore_errors=True)`, the status
event and the artifacts (`Swept`), may silently stay (`RemoveFile`). `Error`, `Interrupt` and `Crash` can hit a call at every
step. `CleanupOrphanedStaging` is the operator's command, at any moment; for a
call at work in that directory it counts as a fault. `RefreshView` is the refresh that
`append_status_event`, the command line and `read_only_connection` make, at any moment
and view by view.

Constants choose the setting: `Backend`; `SingleWriter`, which is the
single-writer rule of ADR 0034 and guards only the start of a call; `Faults`, the
kinds of fault that occur. `late_error`, an exception of the `unlink` right after
the link, is a kind of its own because on the local backend the code survives all the
others.

The two backends commit at different steps. On the local one the link makes the
manifest readable and nothing takes it back. On s3 the copy makes it readable, but an
exception of the `unlink` that follows still removes it and rolls the run back: the
run can no longer be lost only once that `unlink` is done, or the call has died or been
interrupted before it (`Committed`).

`RunArchive` has no files: a run enters the archive in one step, whole; the
answer of a call tells the truth. `ResultStore` implements it under
`archive[r] = final[r]` once `Committed(r)`, and `answer` the way the
call ended (a crashed or interrupted call leaves its caller in doubt). For s3 this says
what is kept of runs that are past their point of no return, not that a reader meets no
other: run `s3_unlink` shows a run that is found and then disappears.

### StatusLifecycle and StoreExport

An actor of `StatusLifecycle` is a call of `append_status_event` on one committed
run. An event is a record with the statuses it leads from and to, its instant, the
offset of the time zone it is written in, and the rank of its digest; the digest
names the file, so equal events share paths. A file is the set of the calls that
have yet to write their part of it: `Whole` is the empty set. This makes the
shared temporary file of two racing calls visible, with the truncation of one
under the other. `Before` is the order of the query: text of the local time, then
text of the offset, then the digest. `mart` is the status in the marts of the run. `SingleWriter` allows one call at a time,
`InOrder` makes callers date an event after those they can read.

`StoreExport` adds calls of `export_run` on one output path. `out` is what the
directory holds, `checksums` what `checksums.json` lists. A call removes what was
there file by file (`RemoveExportedFile`, in any order, as `rmtree` does), makes
the directory, copies manifest and tables (`Head`), reads the history once and
copies the events it selected, copies marts and artifacts (`Tail`), hashes what it
has copied and writes the checksums last. Appends take their steps between any
two of these, and `FailExport` ends a call anywhere. `known` is a history
variable: the events published when the call began. One export works on a path at
a time.

### OrgHierarchy

A behaviour is a session of a dashboard on the rows of one run and the nodes of
all versions: a view (`Aggregate`), then the rows behind one of its aggregates
(`Trace`), or the pages of the rows under a node (`OpenNode`, `NextPage`). The
three resolve the tree in different ways, which is the point: the view and the
detail by date, the trace by the version in the row id and without a date.
Validation (`ValidVersion`, `Mapped`) is what the code checks and no more: nothing
compares the level of a node with that of its parent. An amount is the set of the
rows it sums over, so that an amount counted twice, or not at all, can be seen.

### DrcNetting and DrcCapital

The longs of each seniority are a layer. `OpenLayer` takes the next layer by
rank, `AddLong` sums it, `ConsumeShort` offers it the next short that the
seniority rule permits, `CloseLayer` ends it. `remaining`, `remainingGross` are
the fields of `_ShortState`. Several seniorities share a rank, and among those
the order is that in which the positions first name them, as with a Python
dictionary (`SeniorityBefore`). The implementations of records and of columns are
one algorithm, and both are meant.

`DrcCapital` puts the rest of the way around it: the positions are contracts with
a notional, a market value and a profit or loss (`contracts`), from which
`GrossJtd` with its signs and caps, the maturity weight and the book follow; after
the netting, `Charge` refuses the calculation if a net record has positions of
two credit qualities, and otherwise nets longs and shorts with the hedge benefit
ratio, next to the records of other obligors (`others`). Rates are quarters and
years are units, so amounts are integers; the charge is a fraction and is compared
as one.

### ImaDesk

`NewDay` brings a row of the desk (actual and hypothetical P&L, a VaR per level, a
holiday flag; each may be missing) or none, and `RepeatDay` another row of the same day:
`validate_observation_dates` wants dates that do not decrease, and windows are cut by
position, so that equal dates may lie on both sides of an edge. PLA has a feed of its own,
with one row a day at most.
`AssessDesk` cuts the windows, counts exceptions with their reasons, compares the
P&L distributions (Kolmogorov-Smirnov and Spearman, compared as products and
squares so that they stay integers), checks the alignment of the two windows for
callers that ask for it, and decides the eligibility: the steps that a caller of the
package takes in this order, as `benchmark_target_scale.py` does without the alignment, which
no caller in the repository asks for. `AssembleCapital` applies the
red-zone gate, the multiplier schedule and the PLA add-on. Calendars, prorated
limits and the second PLA metric are options (`Setups`).

### Rfet and NmrfCapital

`Rfet` is the test of one factor on one day: why an observation does not count
(`PreRepresentativenessReason`, `ExclusionReason`), the counting loop with what it
has seen (`Count`), the separate loop that counts raw duplicates, the older counting
in `rfet.py`, the threshold with its prorating for new issues, and the
classification. The evidence records and the columns are one algorithm.

In `NmrfCapital` prices arrive in any order (`Observe`), days pass, and at any
moment the caller classifies the factors, selects methods and requests a valuation
run (`Request`), the engine returns an artifact (`Deliver`; the engine is outside
of the repository: it may return what was asked for, earlier or never asked for,
twice, or for a shorter horizon), the run is completed and reconciled
(`CompleteNmrfValuationRun`), and capital is calculated from the run
(`CapitalFromRun`) or from artifacts alone (`CapitalFromArtifacts`). Any of these can
happen between any two others, so the classification that capital uses need not be
the one the run was ordered with.

### MapperSessions and SessionCache

An actor is a request, served by a thread. `sessions` and `behind` are the
`OrderedDict` (`behind[s]`: the keys after `s`), `lastAccess` the time of the last
use, `clock` the monotonic clock, which may tick between any two steps, `lock` the
lock of the store. `Enter` takes the lock and evicts what has expired, `Insert` and
`PopFirst` are `create` with its eviction of overflow, `Find` and `Miss` are `get`,
`Pop` is `delete`; `Work` is what the handler does with its session after the lock
is free. `Reject` is a request that never gets to the store. A client knows a
session once its creation was answered.

`SessionCache` has neither lock nor clock: sessions are put, hit, missed and
forgotten in one step each, and expire at any moment from the longest idle on.
`MapperSessions` implements it with the `MaxSessions` sessions used last as the
cache, which hides the one session too many between `Insert` and `PopFirst`.

## 3. Runs

| Run | Setting | Shows | Distinct states |
|---|---|---|---|
| `write` | 2 calls on one run and 1 on another, local, errors, interrupts, crashes, refreshes that stop half-way, clean-up and refresh by others at any moment | `TypeOK`; a committed run is whole (`CommittedRunComplete`) and never changes (`CommittedRunImmutable`); a call without faults is refused only if another one committed (`RefusedOnlyIfCommitted`); no view names a missing file (`CatalogNeverDangles`); the archive is implemented (`ImplementsArchive`) | 776,952 |
| `concurrent` | 2 calls on one run at once, errors, clean-ups, fairness | at most one call returns (`OneWinnerPerRun`); every call ends (`EveryCallEnds`) | 147,912 |
| `s3` | 3 calls on one run, 2 tables, s3, errors, interrupts, crashes, clean-ups | the archive is implemented, whole runs, refusals and answers included (`ImplementsArchive`) | 454,867 |
| `s3_unlink` | the same with errors and clean-ups only | violation: see below | |
| `late_error` | local, an error right after the link | violation: see below | |
| `chain` | 4 appends in turn, dated in order, failing anywhere | the history is a chain (`HistoryIsChain`); every event file can be read (`EventsReadable`) | 252,873 |
| `export` | 2 exports on one path, overwriting or not, failing anywhere; 2 appends at once, any dates, two time zones | `ExportTypeOK`; every event is reached from the initial one by published transitions (`HistoryReachable`); what verifies is a whole run with a history (`VerifiedIsTheRun`); an export is as new as its call (`ExportIsCurrent`); only an overwrite takes it away (`LostToOverwriteOnly`) | 1,860,657 |
| `organisation` | every organisation of up to 9 nodes in 2 versions, 16 row sets, 2 dates | `TypeOK`; amounts are counted once (`RollUpAddsUp`); a trace has the rows that were counted (`TraceAgrees`); pages of any sizes list each row once (`DetailReconciles`) | 93,952 |
| `netting` | 2 longs, 3 shorts, 4 seniorities of 3 ranks, both orders, other obligors | `TypeOK`; no permitted offset is left (`NoOffsetLeft`); the netting offsets as much as any permitted one could (`OffsetIsMaximal`); the records add up (`RecordsReconcile`); the charge is that of the best netting (`ChargeIsOfBestNetting`); a hedged pair costs nothing (`HedgedPairIsFree`) | 190,480 |
| `desk` | 5 days, the first row perhaps twice, windows of 3, 2 levels, 3 PLA feeds, 4 set-ups | `TypeOK`; the audit trace is about the day it names (`TraceMatchesHistory`); a missing value never makes a desk eligible or cheaper (`SilenceNeverHelps`); aligned windows are the same days (`AlignedMeansSameDays`); a failed desk passes only when an exception has left the window (`RecoveryNeedsAgeing`) | 702,192 |
| `nmrf` | 2 factors, 3 days, 3 observations, 2 artifacts | `TypeOK`; one price counts for a date, in whatever order they came (`CountIsOfDates`); figures are of the run they were ordered with (`FiguresAreOfTheRun`); approvals reach the capital (`ApprovalReachesCapital`) | 575,237 |
| `sessions` | 4 requests, 2 sessions kept, fairness | `TypeOK`; the bound (`BoundHolds`); a session goes for a reason (`GoneForAReason`); every request is answered (`EveryRequestAnswered`); the cache is implemented (`ImplementsCache`) | 257,936 |

### Why the bounds are enough

- `write`, `s3`: two calls on one run id are a failed call and a retry that meets its
  remains; the other run id is there because a view mixes runs and because a
  clean-up treats every run. `s3` has three calls on one run id, so that a retry that
  failed too is met, and two tables, so that a group of files can be half-published.
  Status event, mart and artifact are the other kinds of file, one each, since the code treats
  each kind in one loop; `write` has no artifacts and `concurrent` no marts, which are alike
  in all but the order, and `s3` has both. Calls on one run id are interchangeable, and `write`
and `s3`, which check safety only, are reduced by that symmetry; `concurrent`, which checks
liveness, is not. The local properties are also proved, for any number of calls,
  runs and files.
- `chain`: four appends are enough for a promotion through all statuses and for a
  repetition. `export`: two appends race, one is dated before the run, one written in
  another zone; two exports are a failed one and its retry, or one and its overwrite.
- `organisation`: nodes are chosen freely from a pool with a desk that moves, a Volcker
  desk, a cycle, an entity that ends and a second version that is invalid; rows are on
  several grains, in two currencies, mapped rightly and wrongly.
- `netting`: a short can be too small, too large, exactly enough or zero for a layer,
  two layers can compete for it, and two seniorities share a rank; terms include caps,
  floors, defaulted positions, given profits and mirrored pairs.
- `desk`: five days let a window of three move twice, so that an exception ages out, and where
  the first two rows have one date they lie on both sides of an edge (as TLC confirms: the
  start of a window moves on while its date does not, and the desk recovers by it); the red
  zone starts below the looser level's limit, as in the policies. The red-zone gate, all
  zones and both refusals of capital occur.
- `nmrf`: three observations are a count, its duplicate and one more; two artifacts are one
  per factor or a duplicate. Behaviours are followed up to the first capital result, which
  feeds nothing back, and a request starts a new run.
- `sessions`: four requests are a creation, two more that overflow, and a request for what
  was evicted; four instants with a time to live of one are enough for expiry and reuse.

Deadlock is checked in every run but `desk`: `Finished`, `NothingToAppend`, `AllFinished` and
`Answered` are the only states where nothing is left to do. In `desk` the days run out, and
there is nothing to do after the last.

Bounds that are guards of a specification: `MaxClock` (`MapperSessions`), `LastDay`
(`ImaDesk`, `NmrfCapital`), `MaxRows` (`ImaDesk`: rows that a repeat may bring a series to), `MaxObservations` and `MaxArtifacts` (`NmrfCapital`). No other
guard has a numeric bound.

`OffsetIsMaximal` compares the result with an optimum without computing one: for
every rank the longs down to it are either offset in full, or there is a rank
`t` from which on every usable short is used up, and a netting that does better
cannot exist (a cut of the bipartite graph of longs and permitted shorts).
`ChargeIsOfBestNetting` goes on from there with the least cut as the offset, over the
obligors that have one credit quality.

### Fairness

`ResultStore!FairSpec` assumes weak fairness of the steps of each call, and only those: a
call is a thread of Python code, and as long as it neither crashes nor blocks it
goes on. Nothing is assumed of faults, clean-ups or of a caller starting a call.
`MapperSessions!FairSpec` assumes weak fairness of `Proceed(r)`, the steps of a request
that has started. Weak fairness is enough although requests compete for the lock: there are
finitely many, each holds it for a bounded number of steps and releases it with the `with`
statement, whatever the outcome. Nothing is assumed of clients or of the clock.

### Where the code differs from what it says

Shown by a run:

- `late_error`: an exception of the `unlink` after `os.link` rolls back a run that
  is committed.
- `s3_unlink`: on the s3 backend the manifest is whole and readable after `shutil.copy2`;
  if `staged_path.unlink()` then raises, by an error of its own or because a clean-up has
  removed the directory, the manifest is removed again and the rollback deletes a run that
  readers may have found.

Found while modelling, without a run of their own:

- `moved_paths` grows one group at a time, so an error in the middle of the tables leaves
  the published ones, though STORAGE_CONTRACT.md says that moved Parquet is removed on
  any error before the commit. A later call on the run id removes them
  (`RefusedOnlyIfCommitted`).
- The manifest is copied on the s3 backend, so it exists before it is complete, though
  the docstring of the backend says that a run is visible only after its manifest has been
  written: a crash in between leaves a run that can be neither read nor rewritten. The run
  `s3` has such crashes; the archive, which holds no such run, allows the refusals that
  follow, so it says nothing of retries there. Also on that backend a view can name a file that goes away: a
  refresh by someone else lists the run whose manifest is being copied, and the copy fails.
  Hence `CatalogNeverDangles` is a property of `write` alone.
- `append_status_event` ignores `event_time`, by which the history is ordered: an event
  dated before the run becomes the first of its history, though DETAILED_DESIGN.md says
  that the first event of a committed run is `CANDIDATE`. Hence `InOrder` in `chain`.
- The marts keep the status of the commit when the status goes on.
- `source_rows_for_org_aggregate` has no date: it validates the nodes of all versions and dates,
  while the view validates those active on its date. So it may raise for an aggregate that was
  shown, where a node id has two entries of different dates or another version is
  invalid. Duplicate ids are documented as invalid, so this is a stricter check of the input
  rather than a broken promise; `TraceAgrees` speaks of traces that are not refused.
- A layer of the netting that is offset exactly to zero makes no net record, and its
  positions appear in none. With several credit qualities on one obligor, whether a book
  is refused, and what it is charged, depends on the ids that order its shorts, as they
  decide which positions share a record. Hence `OneQuality` in the properties of the charge.
- The alignment of the windows of backtesting and PLA compares their first and last days
  only, and is called by callers that choose to. `AlignedMeansSameDays` says when that is
  enough: both windows vouched for by one calendar.
- A desk that is `IMA_ELIGIBLE` by the limits of its levels can be in the red zone, where
  the assembly refuses it; no fallback route is made for such a desk, which stops the
  calculation instead.
- Without a factor that is not modellable, method selection, specifications and request
  each raise for an empty sequence: there is no valuation run, and capital is a direct
  call. That direct call does not check prototypes (`ApprovalReachesCapital` speaks of
  prototypes in runs only). The raw duplicate counts and the exclusions split duplicates
  differently between source and date, and only their sums agree. With a calendar the
  lookback window has one end inside, without one both.

Outside the single-writer rule, which nothing in the code enforces, weaker
guarantees are left: the loser of two writers on one run id removes files of the
winner in its rollback, and two appends that race can publish two transitions
out of one status. Setting `SingleWriter = FALSE` in `write` and `chain` shows
both. What does hold for racing callers is `OneWinnerPerRun` and
`HistoryReachable`.

## 4. Proofs

Every theorem is checked by TLAPS for every value of the constants that satisfies
the named assumptions of the modules: any number of calls, runs, files, events,
positions, seniorities, observations, factors, artifacts, days, nodes, rows,
requests and sessions. Every invariant that a run checks is the conclusion of one of
them, and so is every action property and every refinement.

### What the constants are assumed to be

The assumptions are named, stand where the constants are declared, and are evaluated by
TLC in every run. Those that say more than a type, and what justifies them:

- `BooksAssumption` (`DrcNetting`): amounts are counted in a `Unit` so fine that one unit of
  a position has a whole gross amount. The code divides, in floating point; the model
  has integers, and any finite book of rational amounts can be counted that finely.
- `GroupAssumption`: an obligor has at least one position, and finitely many.
- `ContractsAssumption`: a position has a market value or a profit (the code raises
  otherwise), loss given default is of four quarters at most, the maturity floor is
  at most a year.
- `CapitalAssumption` (`ImaDesk`): the multiplier does not fall as the number of exceptions
  rises, as in the schedule of every policy of `regimes.py`; the code that reads one asks only
  for the floor of 1.5. With another schedule a missing value could pay
  (`SilenceNeverHelps`), which is why the assumption is spelled out. Averages of capital are
  not negative, as `models_based_capital` validates.
- `ImaDeskAssumption`: the required history is no shorter than the window and the thresholds
  are in order, as in those policies (both are 250 days); a VaR that is there is positive.
- `PagesAssumption` (`OrgHierarchy`): a page has room for a row, as `source_rows_for_org_node`
  requires. `RowsAssumption`: a row is known by its `source_row_id`, by which pages are
  sorted. Nodes are not assumed to be valid: cycles, orphans and overlapping versions are
  among them.
- `NmrfAssumption`: an observation has a date and a defect, or none.

### Sums, sorted sequences and loops

The capital properties speak of sums over sets, of loops over sequences and of places in a
sorted list. The library has no theorem about these that can be cited for a particular set,
so `InductionLemmas` carries the induction out once. The set of all
subsets of `S` for which a fact holds contains the empty set and, with each subset, that
subset with one more element; if `S` were not among them, a smallest complement would have
an element too many (`SubsetInduction`, from the well-foundedness of the natural numbers).
From it follow what `SumFunctionOnSet` does with an element more, a disjoint union, a value
that changes, a common factor and a partition (`SumOneOut` to `SumTimes`), that a finite set
of integers has a greatest element, that ranks by distinct keys are places (`RankIsPlace`,
with which a sorted sequence has every element once), and that the function which `FoldLeft`
chooses exists and goes from prefix to prefix (`FoldExists`).

### Theorems by module

`ResultStoreProofs`
- `TypeCorrect`: `TypeOK`, without further assumptions.
- `CommittedRunsAreComplete`, `CommittedRunsStay` and `CommittedRunsAreImmutable`: under
  `SingleWriter` and without `late_error`, a readable run is whole on both backends; a
  run past its point of no return (`Committed`) is changed by no step on both; and on the
  local backend that is every readable run (`LocalRunsAreCommitted`), which is
  `CommittedRunImmutable`. On s3 the last is false, as `s3_unlink` shows. None
  is inductive: a step of the commit makes a run complete only if the call had
  published every file and no other call is at work on them. `IInv` adds that:
  `Alone` (one active call per run id) and, for every call, `CallInv`: before the
  commit the run has no readable manifest; what is staged is the call's own; the files
  it has published are as it wrote them, and so are all of them from `validate` to the
  commit. `RunInv` is the property itself. There is one lemma per action; each shows
  that `IInv` is kept and that the step leaves committed runs alone (`Kept`). Both
  assumptions are necessary, as `late_error` and a `write` without `SingleWriter` show.

- `WriteBundleImplementsArchive`: `Spec => ImplementsArchive` under the same two
  assumptions. `IInv` does not say whose the committed run is; `OwnInv` adds it: a call
  past the commit owns the manifest of its run, one before it does not, a call that
  copies a manifest has left it unfinished, and one that has yet to unlink the staged manifest
  owns a run that the archive does not have. On s3 a run comes into the archive by that
  unlink, or by the death of the call before it (`CommitSilently`). `Outcome` condenses the twenty-odd actions
  of a call to what the archive can tell apart, namely whether the step commits the run and
  from where the call goes on to where (`OutcomeOfStep`, one case per action), and
  `StepIsArchived` maps each outcome to `Commit`, `Return`, `Refuse`, `GoSilent` or
  a stutter.

- `OneCallWins`: `OneWinnerPerRun` on the local backend without an assumption on the
  callers. The link of the manifest is the only step that decides: a call past it owns the
  manifest, and a manifest has one owner (`WinInv`).
- `CatalogsNeverDangle` and `RetriesAreNotBlocked`: `CatalogNeverDangles` and
  `RefusedOnlyIfCommitted` under `SingleWriter`, on the local backend and without
  `late_error`. A view lists the files of runs that had a manifest (`ViewInv`), and `IInv` says
  that those stay; a refusal needs a file that stands in the way, and those an earlier call left
  are removed by `RemoveOrphanedRunFile` before anything is staged (`FreshInv`).

`StoreExportProofs`, of the lifecycle:
- `StatusTypeCorrect`: `TypeOK`.
- `HistoryIsReachable`: `HistoryReachable` without an assumption on the callers. The
  strengthening `RInv` adds that from its comparison on a call knows of a published event
  that leads to the status its own event starts from. Published events stay, so this
  survives whatever the other calls do meanwhile.
- `HistoriesAreChains` and `EventsCanBeRead`: `HistoryIsChain` and `EventsReadable` under
  `SingleWriter`, `InOrder` and one time zone. `CInv` adds that the latest status is
  still the one a call compared while that call is at work, that its event is dated
  after the history, and that its temporary file is unfinished by nobody else and whole
  when it replaces the published one. `LastIsLast`,
  which says that the choice in `Last` is the greatest event, needs a maximum of a
  finite set and a proof that `Before` is a strict total order on events.

and of the export:
- `ExportTypeCorrect`: `ExportTypeOK`.
- `ExportKeepsLifecycle`: `ExportSpec` implements the specification of `StatusLifecycle`, so
  that its theorems hold while exports are made.
- `VerifiedExportsAreTheRun`, `ExportsAreCurrent`, `ExportsAreLostToOverwriteOnly`: the three
  properties of `export` for any number of exports and racing appends. The invariant
  relates what a call has copied to where it is: it has copied each group it is past, what it
  selected was a history at one moment, which stays reachable as published events stay, and
  no other call is at work on the path.

`DrcCapitalProofs`
- `NettingTypeCorrect`: `TypeOK`; no amount becomes negative.
- `NettingIsExhaustive`: `NoOffsetLeft` for any book, ranks and order. `NInv` says
  that for each short the open layer has been offered, the short is used up or the layer
  is; that the longs of the layers that are done stay summed; and that the open layer is
  not one of those.
- `CapitalKeepsNetting` and `ChargedNettingIsExhaustive`: `CapitalSpec` implements the netting
  it composes, so the two hold of what is charged.
- `NettingIsBest`: `OffsetIsMaximal`. The property says that the flow from layers to shorts
  reaches a cut, so the proof is that of max-flow and min-cut for this greedy order, with two
  invariants. `FlowInv`: for every set of layers, what is left of it and what it took is
  what was summed of it; for every set of shorts, what is left and what was taken of it is
  what it was. `GreedyInv`: the layers come by rank; a layer that took something of a short,
  or was given up with something left, has left the permitted shorts that come before used
  up, and no later layer has anything of those. Given a rank `r`, either the layers down to it
  have nothing left, or the last rank with something left has used up all shorts from
  it on, and nothing of those went to layers after it: this rank is the cut.
- `NettingReconciles`: `RecordsReconcile`. The signed sum is `FlowInv` for all layers and
  all shorts, over the records (`SignedSum`). That the gross amounts keep their proportion
  needs `GrossInv`: amounts are whole units, so every division by ratio is exact.
- `CapitalKeepsNetting` has these hold of what is charged, too.
- `ChargeOfBestNetting`: `ChargeIsOfBestNetting`. The least cut is what the netting offset
  (`OffsetIsBest`: no cut is below a flow, and `NettingIsBest` gives one that is reached), and the
  charge is a function of the amounts of the two directions. `ChargedInv` keeps the charge
  of the netting that is done.
- `MirroredExposuresAreEqual`: the exposures of a long and a short on mirrored terms are the
  same amount, through signs, caps and maturity.
- `HedgedPairsAreFree`: `HedgedPairIsFree`. Taking such a pair out lowers every cut by its
  amount, for a cut either contains the long or the short (`OffsetWithoutPair`); with it go
  the least cut and both directions, and what is charged stays.

`NmrfCapitalProofs`
- `NmrfTypeCorrect`, `FiguresBelongToTheRun`, `ApprovalsReachCapital`: `NInv` has three
  parts: what is classified is a status for every factor (`ClassifiedInv`); a run that passed
  holds artifacts that each reconcile with the specification of their factor, as they were
  requested, however the classification has changed since (`RunInv`); and capital has one
  accepted figure per factor (`CapitalInv`).
- `CountsAreOfDates`: `CountIsOfDates`, for any number of observations of any dates, sources and
  defects. Sorting keeps every observation (`RankIsPlace`). Each of the three loops has an invariant over the first
  `k` observations: the eligible ones are as many as the dates seen, and these are the usable
  dates (`StageInv`); the loop that counts duplicates has seen the same dates and keys
  (`RawInv`); both have found equally many duplicates, though they may call one differently
  (`PairInv`), which holds because a key contains its date; the older
  counting has the dates of all it admits, which are more (`SimpleInv`).
- `PricesNeverTakeAway`: on one day no further price lowers a count or turns a pass into a
  fail. The count is of usable dates (`CountOfDates`), which only grow, and the threshold,
  prorated or not, is a number that does not depend on the prices (`RequiredIsInt`). From
  one day to the next a count may fall, since the lookback moves.

`ImaDeskProofs`
- `Invariance`: the inductive invariant `IInv`. The series is aligned and of the past; while
  capital has not been assembled the verdict is the assessment of the series; and at any
  time it is the one of the series, or of the series without the day reported since. The last part is what
  relates the verdicts of two days. `TypeCorrectness` (`TypeOK`) follows.
- `TraceIsTrue`: `TraceMatchesHistory`. The window of each array ends with the array, so
  index and day agree for arrays of equal length; the exceptions of the trace and of the
  count are the same set of days, which the shift from window to history does not change
  (`ShiftKeepsCount`).
- `SameDays`: `AlignedMeansSameDays`. Both windows are the last days of one calendar with
  equal ends, and a sequence of all business days between two ends is determined by them.
- `SilenceIsNotRewarded`: `SilenceNeverHelps`. A day whose value is missing is an
  exception unless it is a holiday; so the counts do not fall, and limits, eligibility,
  gate and multiplier, which are monotone, follow (`CapitalAssumption`).
- `RecoveryByAgeing`: `RecoveryNeedsAgeing`, where days may be reported more than once. The
  position that leaves is the one the start of the window moves over. If no exception left the window between the two
  verdicts, the later window has all exceptions of the earlier one and at least its count, and
  both are full, so they have the same limits.

`OrgHierarchyProofs`
- `Invariance`: a view is none, a refusal, or, for nodes and rows that are valid, what the
  rows give each node shown; a trace is of a group of it; a listing has the rows of its node up to its
  last page, whatever the limits of the pages were. `TypeCorrectness` (`TypeOK`) follows.
- `AmountsAddUp`: `RollUpAddsUp`. `Chain` is the least set closed under parents. In a valid
  version it is linear: of two ancestors of one node one is an ancestor of the other, since the
  set of those that are comparable with a given one is closed. With finitely many nodes there
  is a nearest ancestor that is shown, so that the groups placed under one parent share no row.
- `TraceIsOfView`: `TraceAgrees`. A version that is valid as a whole has no node twice, so
  that the tree without a date is the one that the view was made of, or the request raises.
- `PagesReconcile`: `DetailReconciles`. Pages are consecutive parts of one sorted sequence.

`MapperSessionsProofs`
- `SessionsTypeCorrect`, `StoreIsBounded`, `SessionsGoForAReason`: the invariants of `sessions`.
- `EvictionOrderIsUseOrder`: the order of the dictionary is the order of the accesses
  (`OrderIsByAccess`), the fact that makes the first key the least recently used one. The
  reasons rest on it: a session that overflow evicts has `MaxSessions` others behind it,
  all accessed no earlier.
- `StoreImplementsCache`: `Spec => ImplementsCache`, for any number of sessions. The step to
  show is `Insert`, which drops a session from `Retained` before `PopFirst` removes it.

What is only model-checked: liveness (`EveryCallEnds`, `EveryRequestAnswered`), as neither
fairness nor `ENABLED` is in the prover's reach, and of the s3 backend who is refused
and what its catalog names, which are properties of `write` on the local one. The theorems about the local
backend have its name in their hypotheses, and `late_error` and `s3_unlink` show
violations. The strengthenings of the netting (`FlowInv`, `GreedyInv`, `GrossInv`) have not been checked
by TLC on their own: they quantify over sets of positions, which the instance of `netting` has
too many states for.

## 5. Limits

Assumed of the environment: a file operation takes effect when it
returns (no power failure that loses a cached write); `rename`, `link` and `unlink`
are atomic; the s3 backend is the code's own copy into a mock root; a Python lock excludes
and its threads make progress.

Abstracted:

- `ResultStore`: the contents of tables, marts and artifacts are who wrote them;
  the validation of the bundle before `write_bundle` begins is left out. A run has one
  initial status event; status events do not appear except for that one.
- `StatusLifecycle`: time zones west of UTC, where the sort by text differs, are left out,
  and so are the actor, the reason and the notes of an event.
- `StoreExport`: one export at a time on a path; the contents of files; artifacts that are
  missing or not exportable end the call like any failure (`FailExport`).
- `OrgHierarchy`: the rows of one run; an amount is its set of rows; labels and metadata are
  left out.
- `DrcNetting`, `DrcCapital`: integers, not floating point; one obligor in one bucket and
  given records of others; non-securitisations only. Amounts are whole numbers of a `Unit`
  small enough for the division by ratio to be exact. Currencies and input validation are left
  out.
- `ImaDesk`: integers; thresholds in percent; one desk. Dates of backtesting do not decrease,
  as the inputs are validated to; PLA is fed a day once at most, though the code would
  accept it twice. That a finite VaR that is not positive raises a `ValueError` is left out: such
  rows are excluded by assumption. Charges of the desk are constants.
- `Rfet`, `NmrfCapital`: what documents lack is one of three defects; a window is a number of days,
  so its shift and the refusal of a calendar that leaves weekdays unexplained are left out;
  the amounts of artifacts, and so the sums that make SES, are left out: the model says which
  artifact a figure is from. One valuation run is followed at a time.
- `MapperSessions`: what a session holds is left out, and so is a preview that fails after the
  session was created, which the client sees as an error though the session stays. In
  `SessionCache` a hit or a miss is of some session, not of the one that the request names. A session bears the name of its creating
  request, as a uuid is used once.

Not modelled, and why:

- SBM, CVA, and of IMA expected shortfall, liquidity horizons, IMCC, stress periods and
  attribution: arithmetic over real numbers, out of the reach of the model checker, with
  no order of steps that matters.
- RRAO: a table lookup per position and a weighted sum.
- Orchestration: sums of summaries that are validated by field, and fallback routes for the
  desks given to it; a pure composition. What makes a desk fall back is in `ImaDesk`.
- Capital graph, AI explanation records, bundle model, readers and HTTP API: construction
  and validation of records and read-only selections, without state.
- The securitisations and the correlation trading portfolio of DRC: netting of exact groups,
  which has no order to get wrong.
- Navigator: a view; its fixture store, which two processes can build at once, serves
  demonstrations. The worktree script: git arbitrates between two agents. Scripts, linters,
  benchmarks and the mapper's column heuristics: not a part of the running system, or
  without state.

## 6. Status and possible further work

Done: the write path with its archive, the catalog, the run status, the export, the organisation
hierarchy, the default risk charge of a bucket, the IMA desk, RFET and NMRF capital, and the
mapper's sessions with their cache.

What could follow, in the order of what it would show:

1. The orchestration's fallback routes, composed with `ImaDesk`: a desk is in exactly one
   approach on every day, the red-zone desk above included.
2. The navigator's fixture store, shared by processes in a temporary directory.
3. Status events west of UTC, and appends while a run is being removed by an operator.
4. The exact-group netting of securitisations and its offsetting groups.
