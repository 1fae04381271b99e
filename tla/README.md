# Keel-Trader in TLA+

Keel-Trader is a trading bot that is run by several processes on one machine
and developed with a simulator.  What can go wrong in it is seldom in one
function: two processes share an account, a call fails half-way, a process
dies and is restarted, a bar of the future leaks into a row of the past.
This directory models those parts of it.  Paths are relative to the
repository's `src/`.

## 1. Inventory

| Component | State | Operations | Talks to |
|---|---|---|---|
| Live-writer lock, `core/alpaca_account_lock.py` | lock file with the holder's PID, kernel flock, in-process registry `_HELD_LOCKS` | `acquire_alpaca_account_lock`, `release`, atexit | kernel, deploy script (reads the file) |
| Singleton gate and death-spiral guard, `core/alpaca_singleton.py` | `_STATE`; the buy memory `<account>_buys.json`, an RLock and an flock | `enforce_live_singleton`, `record_buy_price`, `guard_sell_against_death_spiral`, `forget_buy`, `forget_all_buys` | lock, file system |
| Broker, `core/broker.py` | the executor | `submit_order`: validate, guard, execute, record | guard, executor |
| Trading server, `core/trading_server.py` | none | `do_POST` -> `handle_order` | broker, HTTP clients |
| Kraken executor, `core/kraken_executor.py` | ccxt client | `execute` | exchange |
| Kraken paper trader, `core/kraken_paper.py` | bars, `_held`, `fills`, a JSONL ledger | `step`, `run_loop` | feed, strategy, C engine, broker |
| Paper runner, `core/paper_runner.py` | `_held` | `step` | guard, buy memory, a sink |
| Feed, `core/kraken_feed.py` | none | `snapshot` | exchange (public) |
| Strategy, `models/xgb/strategy.py` | none | `decide` | - |
| Live cutover, `ops/deploy_live_trader.sh` | registry of units, history log | dry run, live run | systemd, lock file |
| Fill engine, `sim/src/trading_env.c`, `keel_sim.c`, `sim/keel_sim.py` | agent, log, observation | `c_reset`, `c_step` | market data |
| Promotion gate, `research/eval.py` | a verdict under way | `generate_offsets`, `run_window`, `_run_cell`, `evaluate` | fill engine, policies |
| Policies, `research/policies.py`, `walkforward.py`, `feature_search.py`, `models/xgb/backtest.py`, `models/rl/eval.py` | none | observation -> action number | gate |
| Searches, `research/autoresearch.py`, `feature_search.py` | rows in memory, leaderboard CSV | `run_trial`, `run_autoresearch`, append | gate, each other |
| Forecasts, `forecast/chronos.py`, `build_cache.py`, `build_kraken_cache.py`, `technical.py` | forecast files | fetch, forecast, `write_cache` | exchange, data tools |
| Market data, `sim/kraken_data.py`, `export_data.py`, `binpack.py` | dumps, the market data file | paging, merge, align, join, write | exchange, forecasts |
| Training, `models/xgb/train.py` | model files | `build_dataset`, `train` | market data file |

What is hard in each, and what makes it correct:

* **Lock.**  Acquisition holds a mutex for its whole length, release for two
  short moments with the flock dropped in between; exits and kills come at any
  time.  At most one process may write to an account; a lock that nobody can
  release must not exist; the file must name the holder.
* **Buy memory.**  Read-change-write of one file by threads and processes that
  fail or die.  A call must work as if it were atomic, a recorded buy must be
  on disk, no sell may slip below a floor.  Reading fails open: a call that
  cannot read the file goes on with an empty one.
* **Broker and server.**  Guard, execution and record are three steps with a
  failure possible at each.  No sell below a floor that the memory still has,
  no silent loss of a record, statuses that tell what happened.
* **Paper programs.**  A cycle touches orders, `_held`, the buy memory and a
  ledger, which must agree between cycles; the two programs share one buy
  memory without knowing it.
* **Cutover.**  A shell script judges processes that start and die meanwhile.
  It must not be fooled by PIDs, and its exit status, its last message and its
  history must agree.
* **Gate, policies and engine.**  Early exits must not change a verdict; bars,
  lag, clamps, forced and refused closes in one function of 300 lines must not
  show the future or lose a position; a policy and the engine number their
  actions apart; a window must be one episode.
* **Searches.**  Two searches append to one file through buffers, with no lock.
* **Pipeline.**  Three programs hand files to each other without a lock, while
  the market goes on.  A row must hold what its own bars say of its own hour,
  and nothing of a later one; two definitions of the features must agree; a
  torn file must not become a training set, nor two files one.

The hazards are listed one by one, at their lines, in `PROJECT.json`, one of
them without a property: the forecast cache and the market file may hold
different bars of the hour that was running (section 6).  Two more are real and have no property, since nothing in the code deals with them:
a client of the trading server that gets no answer cannot know whether its
order was executed, there being no idempotency key
(`core/trading_server.py:79`), and the positions of the paper traders are in
memory only, so that a restart forgets them while the ledger still shows them
as open (`core/kraken_paper.py:105`).

## 2. Modules

| Module | Models | EXTENDS / instantiates |
|---|---|---|
| `SingleWriter` | the abstract rule: one writer per account | |
| `LiveWriterLock` | lock and singleton gate | refines `SingleWriter` |
| `FloorRule` | records, expiry, tolerance and verdict of the guard | |
| `FloorMap` | the abstract buy memory: atomic calls on a map | |
| `BuyMemory` | the file, its two locks and every step of every call | `FloorRule`, refines `FloorMap` |
| `GuardedBroker` | broker and server on a shared buy memory | `FloorRule` |
| `PaperMemory` | the buy memory as the paper programs use it | `FloorRule` |
| `KrakenPaper` | the Kraken paper trader | `PaperMemory` |
| `PaperRunner` | the paper runner | `PaperMemory` |
| `PaperHost` | both at once on one buy memory | `KrakenPaper`, instantiates `PaperRunner` |
| `Deploy` | the cutover script and the units | |
| `TradingEnv` | `c_reset` and `c_step` | |
| `Strategy` | filter, picks and capped weights | |
| `Policies` | the policies of the gate | `Strategy` |
| `Backtest` | `run_window`: a policy drives the engine | `TradingEnv`, `Policies` |
| `Gate` | the promotion gate on two splits | |
| `Research` | a search of trials and its leaderboard | `Gate` |
| `Bars` | series, merge, alignment, forecast rows | |
| `Technical` | the eight technical features, twice | |
| `MarketFile` | the binary format, writing and reading | |
| `Pipeline` | cache program, data program and training | `Bars`, `Technical`, `MarketFile` |
| `...Proofs` | the theorems (section 5) | the module of that name |
| `MC...` | the instances that TLC checks | one of the above |

The models are stacked by abstraction: `LiveWriterLock` is proved to implement
`SingleWriter`, so `Deploy` may treat taking the lock as one step and its
payload as another; `BuyMemory` is proved to implement `FloorMap`, so
`GuardedBroker`, `KrakenPaper` and `PaperRunner` treat each guard call and each
record as one step, which may read blind or find a damaged file; `Backtest` checks the policies against the real engine, so
`Gate` may let a window return anything.

### LiveWriterLock
`obj[o]` is an `AlpacaAccountLock` with its open handle: `opened` and `locked`
are the two stages of `acquire_alpaca_account_lock` inside the mutex, `held` is
the returned lock, `releasing` and `unlocking` the two stages of `release()`,
`leaked` a handle whose payload could not be written.  `registry` is
`_HELD_LOCKS`, `flock` what the kernel granted, `payload` the file, `state`
is `_STATE`, and `entering` counts the calls of `enforce_live_singleton` that
have been handed the lock and not yet written `_STATE` (`SetState`), a window in
which another thread may release it.  Threads are anonymous: any acquisition or release of a process
may start whenever the mutex is free.  A process is `down`, `unlocked` (paper
or override), `live` or `exiting`, and `Kill` drops its flocks at any time.

### FloorRule, FloorMap, BuyMemory
`job[w]` is the call of thread `w`: it waits for the RLock, takes the flock,
loads, writes the temporary file, replaces the file, and leaves.  A read or
write may fail, a process may be killed, and a bounded number of times somebody
damages the file, which the next load quarantines.  A missing file and an empty
map are one value.  Prices are integers and tolerances whole basis points, so
that the comparison `price < buy * (1 - bps/10000)` is exact.

### GuardedBroker
`order[p]` goes through `new` (validated), `guarded` and `executed`.  A client
process dies of an exception; a server answers 400, 409 or, for other
exceptions, nothing.  A call of the buy memory that cannot read the file takes
it for empty: the guard approves (`ApproveBlind`), and a record replaces the
file by itself (`RecordBlind`); `Damage` is a file that somebody damages or
removes.  `Paper` are the processes in paper mode, for which the code does
nothing different.  Some variables are history for the properties: `sent`,
`lastBuy`, `own`, `author`, `blind`.

### PaperMemory, KrakenPaper, PaperRunner, PaperHost
`PaperMemory` has the two calls that both programs make, `RecordBuy` and the
guard (`GuardPasses`, `GuardRefuses`), each on what was found in the file or,
blind, on nothing; `lost` is the history of the symbols whose last record was
lost rather than pruned.
The loops of the two `step()` functions over their symbols in any order.  What
`decide()` picks is any set of at most `max_positions` symbols: the ones with a
bar in the Kraken trader, which takes its signals from the snapshot, any at all
in the runner, whose signals and prices are separate arguments.  Quantities are
left out; `executed`, `ledger` and `fills` are sequences of fills.  The Kraken
trader's order passes the engine, then the broker, which records a buy after
it; the runner guards a sell or records a buy, hands it to its sink, which may
take its time, and updates `_held` when the sink returns: `ordered` is the
symbol between the two steps.  An exception ends the program; the buy memory
outlives it.  In `PaperHost` the steps of the two
interleave on one `floors` and one clock, since neither takes the writer lock
and both use the default account name; `since` is a history variable.

### Deploy
`registry` is chosen among an empty one (as in the repository) and two others.
The units' processes boot, lock, write their PID, unlock and die freely.
A run of the script is a sequence of steps, with `set -e` where it bites:
`StopsDone` ends the script if a unit was stopped, since the function then
returns the status 1 of its last test, and `HistoryFails` wherever
`append_history` cannot write its log.  The history field of a run is `first`,
the first PID after its restart; PIDs are not used again.

### TradingEnv
Money is left out.  Whether an order fills, and whether equity ends an episode
early, is chosen; everything else that decides which bar is read, which
position is held and for how long is in the model: the forced close before the
action, the decoding of the action by symbol, side and bin against closed
markets, the refusal by the guard with its two tolerances, switching, the
advance by one bar, the terminal close at the next bar, the log and the
automatic reset with its observation.  An early stop is allowed to any episode
with a trade, which contains the code's two tests: without a trade neither the
drawdown nor the equity has moved.

### Strategy, Policies, Backtest
A signal is a score and a volatility; a weight is an exact fraction of whole
exposures over divisors of `Unit`, so that the rounds of the capped
inverse-volatility allocation lose nothing to rounding (`UnitAssumption`,
`BookingsAssumption`).  Symbols are numbers, which is the order of the ties.  A
policy is the action number, or the set of them, that it may ask for on an
observation.  `Backtest` is `run_window`: `Begin` resets the engine with the start forced, `Turn` is one pass of its
loop, and `pc = "read"` is where it takes the log.  A window's policy may also
be "caller", any program that resets and steps the engine as it likes
(`models/rl/train.py`, the tests).

### Gate, Research
A cell's results are counts of windows by monthly return; a window may return
anything, and in a cell that fails fast it may break the drawdown limit.  The
median is that of `statistics.median`, kept doubled to stay an integer.
Offsets are percentages of the largest start, as in `generate_offsets`.
`Research` runs the gate once per configuration of either search program and
then appends all rows to the board.  The board is a sequence of half lines,
since the buffer of a writer may be flushed, and a writer killed, anywhere;
`created` says whether the file exists, which is what decides on the header.
The stable descending sort of `feature_search.py` is `Ranked`: the place of a
row is one more than the number of rows ahead of it.

### Bars, Technical, MarketFile, Pipeline
Time is counted in hours and a series is a function from hours to bars.  A
forecast is what it was made from: symbol, anchor, target and the set of hours
in its context; what the Chronos model returns is not in the model.  A file is
the sequence of its words, written in three pieces after being truncated, and
read by the offsets that the readers compute; `OldFiles` are the files that an
earlier run may have left.  A reader is the set of what it
returns, which is empty when it raises.  A merge takes each hour from the last
source that has it, as `dict.update` does one source after the other, and
`Update` is that call itself, a page written over what was fetched before.
`MinRows`, the least length of an export, is at least 1.  Features are ratios of integers
(the volatility is kept as a variance), so that the two definitions can be
compared without rounding.

In `Pipeline` a program is a record `job[j]` with its place, its fetches to
come and what it holds; `tape` is the market, `clock` the running hour, whose
bar is offered too and still changes.  Either program may be killed after any
step.  `train` reads each block of the file anew, as the code does; `whole` is
the history of what the file has, or would have, when complete, and
`train.read` of the files that training has opened.

## 3. Runs

| Run | Shows | Bounds, and why they are enough |
|---|---|---|
| `writer_lock` | mutual exclusion, no orphaned flock, holder named, no released lock handed out, exits complete, refinement of `SingleWriter` | 2 processes, one of which passes 2 service names, 3 lock objects, 1 account: an object being released, its successor in the same process and a rival coexist; 1 call at a time between the lock and `_STATE` (`MaxCalls`), since a second one writes the same value; the theorems remove the bounds |
| `buy_memory` | atomic calls (`FloorMap`), verdicts match the file, recorded buys on disk, calls return | 3 threads in 2 processes (both locks contend), 2 symbols (a lost update can hit a symbol the call does not name), times 0..2 with a memory of 1, one damage |
| `broker` | floors, records and statuses under failures | a client and a server on one account, 1 symbol, 2 prices on either side of the floor, 1 tick, after which a record is stale; that a call about one symbol costs another its floor in the ways named only is `paper_host`, and the theorem for any symbols |
| `paper_host` | books agree, ledger truthful, targets reached, recent positions guarded | both programs, 2 symbols, 3 cycles in all, 4 fills: a buy, a cheaper one of the other program, a refusal or a sale past a stale record |
| `deploy` | OK means owned, status, message and history agree on a restart | 2 units, 4 PIDs, 2 attempts: a unit restarts between the two reads while another takes the lock |
| `research` | fail-fast is sound, promotion earned, rejections rank as rejections, no half row lost or doubled, one header if appends do not overlap | 4 windows (an even median), 2 cells, returns below, at and above the target; 2 configurations, another search with 1 row, kills |
| `backtest` | no look-ahead, trades booked, no overdue position, whole windows, sound books, picks traded | 6 bars, 3 symbols, 12 markets, 5 settings, 7 books (the cap binds for none, some in turn, or all; two that may deploy nothing): data longer and shorter than the episode, start drawn, forced and forced beyond the data, guard on and off, 1 and 2 bins |
| `pipeline` | complete fetches that end, rows of their own bars, nothing of the future, equal features, sound training sets | 2 symbols, 6 hours of which the clock runs through the last 2, pages of 2, a window of 3 bars on Kraken, contexts of 2, 2 horizons: holes, a late start, short pages and a moving window all occur; with or without an earlier market file of both symbols over 3 hours, whose prices all fall, so that any block or label of the other file differs |

All bounds are constants (`MaxTime`, `MaxCalls`, `MaxDamage`, `MaxTicks`, `MaxFills`,
`MaxPid`, `MaxEpisodes`, `LastHour`) or named in a comment at the action they
restrict:

* The two paper programs share `MaxTicks` and `MaxFills`; the symbols are
  interchangeable, and the run uses that symmetry.
* The two data programs do not fetch at the same time, and the clock stands
  still while nobody looks at it: fetches of different programs touch nothing
  in common but the clock, which may advance between them.
* Training starts when the data program is about to write or later, and not
  while the cache program runs, whose files it does not read.
* The data program writes the market file once in a run; what it finds is no
  file or that of an earlier run (`OldFiles`).  A reader opens the file for the
  header and once more for the block; here both are one step.
* The other search ends after this one's last trial, and a search that is
  killed before its append is left out: neither touches anything shared before.
* The windows' policies number actions for one allocation and one level, which
  is what every caller of them in the repository uses; the caller of the
  engine has two.

Deadlock is checked in the runs of the lock, the buy memory, the broker and the
paper programs.
In the others the programs come to an end: `deploy` (all runs ended, PIDs used
up), `backtest`, `research` and `pipeline`.

Four runs check what a text of the repository says and the code does not do;
TLC's counterexample is the finding (quoted in `PROJECT.json`):

| Run | Said | Done |
|---|---|---|
| `paper_floor` | recording a buy is "safe to call from paper mode" | a paper process's cheaper buy replaces the live writer's floor, since both have the same default account name, and the live sell passes |
| `kraken_ledger` | fills are appended to the ledger | those before a refused sell of the same cycle are not |
| `deploy_abort` | after restarting, the handshake is verified and logged | having stopped another unit the script ends silently before the restart |
| `gate_unseen` | test windows are unseen | they share bars with train windows |

Every property of a passing run has a mutant, a plausible bug of the code that
is written next to the definition it replaces and that violates the property.

## 4. Fairness

Three properties are about liveness:

* `ExitCompletes` (`LiveWriterLock`): weak fairness of every step inside the
  lock code, of the atexit releases and of the end of a process that has begun
  to exit.  All are straight-line code after a non-blocking flock.  Nothing is
  assumed of kills, new calls, or releases that the program makes on its own
  account.
* `CallReturns` (`BuyMemory`): weak fairness of a thread inside the guard,
  strong fairness of getting the flock: Linux queues the waiters of a blocking
  flock.
* `PagingEnds` (`Pipeline`): weak fairness of a program that is fetching.  No
  assumption is made on what the exchange answers, so the loop has to end by
  its own tests; with pages of a single bar it would not go on
  (`kraken_data.py:92`), hence `PageLimit > 1`, as every limit in use is.

`GuardedBroker`, `KrakenPaper` and `Deploy` state the fairness of a running
process, cycle or script for the runs that look for a violation; the
environment (kills, unit starts, new orders) has none.  Everything else is
safety.

## 5. Proofs

Eight modules hold the proofs.  Each proves an inductive invariant first, with
one lemma for each action or group of actions, and takes the properties of the
runs from it, for all values of the constants.

| Module | Theorems on properties of runs | Assumed of the constants |
|---|---|---|
| `LiveWriterLockProofs` | `TypeOK`, `ExclusiveWriter`, `NoOrphanLock`, `HolderIsNamed`, `GrantMeansHeld`, `ImplementsSingleWriter` | `None` is no process, account, service or object, each process has its services, `MaxCalls` is positive |
| `BuyMemoryProofs` | `TypeOK`, `VerdictMatchesFile`, `RecordedBuyIsOnDisk`, `ImplementsFloorMap` | prices are positive, the other numbers are natural numbers, every thread has a process, `None` and `Corrupt` are no values |
| `GuardedBrokerProofs` | `ClientRecordsItsBuys`, `StatusTellsExecution`, `StandingFloorHolds` | the numbers as in `BuyMemory`, every process has an account, `None` is no process or order |
| `PaperHostProofs` | `HostTypeOK`, `BooksAgree`, `LedgerIsExecuted`, `CycleReachesTargets`, `HeldIsGuarded` | the numbers as in `BuyMemory` |
| `BacktestProofs` | `NoLookAhead`, `TradesAreBooked`, `HeldNoLonger` of the engine and of windows, `WindowIsWhole`, `BookIsSound`, `PicksAreTraded` | there is a bar and a symbol, slippages are not below -100 %, signals have a score and a volatility, each volatility of a book divides `Unit` |
| `DeployProofs` | `OkMeansOwned`, `RestartIsJudged` | the bounds are natural numbers, `None` is no unit or result |
| `ResearchProofs` | `BailIsSound`, `PromotionIsEarned`, `RejectionShows`, `SearchIsOnBoard`, `HeaderOnce` | there is a window and a cell, the returns are finitely many integers, the rows of the other search are a sequence |
| `PipelineProofs` | `TypeOK`, `FetchIsComplete`, `RowsAreOwnBars`, `NoFutureInRow`, `TechnicalParity`, `DatasetIsSound` | the symbols are distinct, a page has more than one bar, contexts, horizons, windows and the least export are positive, a price row has the words it is written with, `None` is no number, an earlier market file is a sequence of words whose header has numbers |

**`LockInv`.**  That two objects are not both `held` does not say why a third,
just opened, will not be granted the lock.  The strengthening: an object whose
status owns an flock is the one the kernel has on record (`OwnersHaveFlock`)
and vice versa (`NoOrphanLock`); one thread of a process acquires at a time
(`OneAcquirer`, the mutex); an entry of the registry is a live object of that
process and account (`EntriesAreReal`); a process acquires an account only
without an entry for it (`AcquirersUnregistered`); and what is held is
registered (`HeldAreRegistered`).  The last two are what the "held is self"
test of `release()` and the re-check under the mutex are for.  For the
refinement, `WritersStep` shows that each step leaves the set of writers alone
or is a take, a drop or a vanish.

**`BuyInv`.**  Whoever is inside the guard has the flock and whoever has it is
inside (`FlockIsInside`), so there is one of them.  That one call is followed
by `JobIsSound`: what it loaded is what the file holds, unless its read failed
or the file was damaged (`Knows`); what it is about to write differs from that
in its own symbol and in stale records only (`EditsItsOwn`, `Keeps`); and its
answer is that of the map it loaded.  For `VerdictMatchesFile` a refusal by a
wider tolerance has to be one by a narrower tolerance (`WiderIsLower`).  The refinement of `FloorMap` maps a
damaged file to no records, unless a call that has already read them is about
to write them back (`Surviving`): the damage then takes effect when that call
fails, or never.

**`BrokerInv`.**  Orders under way are orders (`OrdersAreReal`); a running
client's last buy is recorded or about to be (`BuysAreRecorded`); what is sent
is what has been executed (`SentIsExecuted`); the last record of an account,
unless its author lost it (`author`), is its floor until it is stale
(`LastRecordIsFloor`); and therefore a sell whose guard has read the file is
above it (`GuardedIsAbove`), although the guard and the execution are two
steps.  The last one needs that a stale
record stays stale.

**`HostInv`.**  Outside an exception the ledger and the events of the cycle make
up what was executed, and `_held` is what this leaves open (`BooksFollow`);
the loops have still to visit what the targets ask for (`TargetsFollow`).  For
`HeldIsGuarded` it is enough what one step of either program does to one record
(`FloorsAge`): it stays, or it is pruned because it is stale, or it is lost, or
it is of this moment; and a new position has a record of this moment.  A record that a recent
position relies on is therefore never pruned, whoever does the pruning
(`GuardStays`).

**`EnvInv`.**  The observation is the one of the agent's bar (`shown =
Observed(agent)`), across the automatic reset too; opened and closed positions
are booked (`Booked`); and `hold_hours` is at least the age of the position less
the bars it had to wait (`AgeIsHeld`), which the forced close turns into the
bound.  The effect of each part of `c_step` on the agent - hold, close, open,
advance - is a lemma of its own.

**`WindowInv`.**  `EnvInv`, and: the agent has made fewer steps than make up the
episode, which starts early enough (`AgentFits`), a logged episode is a whole
one (`LoggedIsWhole`), and a window counts as many turns as the engine has made
steps until it is logged once (`WindowIsOnce`). Hence the margin of the loop is
large enough for every lag and length.

**The book.**  `BookIsSound` is about every observation, whatever the state; its
argument runs along the rounds of `inverse_vol_weights` instead of along steps.
`Uncapped` is a recursion over sets of names: `RestUnfolds` shows that it is one
round and itself on the names that are left, and `UncappedSettles` that it ends
in what its rounds keep.  That is `Justified`: there is something left to
deploy, and the names capped so far would get the cap or more from it as well.
It is kept because a round never lowers the level, the budget over the sum of
the inverse volatilities (`RoundArithmetic`, in products): those that overflow
would have taken more than the caps that they get.  Of such an end, `Filled`,
the products show the rest: equal levels below the cap and none above them at
it (`SameLevel`, `LevelAboveCap`), and what is deployed (`RestSums`,
`FilledDeploys`), as sums over sets of names (`SumStep`, `SumScaled`,
`SumSplits`).  That volatilities divide `Unit` restricts their scale only: the
configurations and features of an instance may be any numbers with a common
multiple, as finitely many fractions have.

**What is traded.**  A position that a step opens is the one that the action
number decodes to (`OpensAction`): neither the forced close nor a refused switch
opens another.  With one action to a symbol and side, `1 + sym` and
`1 + NumSymbols + sym` decode to the long and the short position in `sym`
(`DecodesLong`, `DecodesShort`); a window has such settings and keeps them
(`OneBin`).  Then each policy's number is that of what it means (`ChosenIsMeant`),
which needs that the maxima it takes exist and the ties it breaks are broken
(`FirstBestIsBest`, `TopPickIsMeant`), and for the volatilities that equal ones
have no outlier from their mean (`CrossVolIsMeant`).

**`DeployInv`.**  PIDs in use were handed out and the lock file names an owner
(`PidsAreReal`); a run's flags, reads and result belong together
(`RunIsSound`): also a run whose history failed, which ends with status 1, and
the unit's main process, which after the restart is not older than it.  That
the handshake is sound then comes from its comparison
alone, whatever happened between its reads.

**`GateInv`.**  The results of a cell are counts of windows by return, so that
"how many windows are below x" is a sum over a set of numbers.  The lemmas on
`Total` show what the proofs need of such sums: their bounds, that one more
window raises them by one, and that splitting the numbers splits the sum.
`BailIsSound` is then about counts: once more windows have failed than a median
at the target can bear, the median of the completed cell is below it whatever
the windows that were not run return (`Unreachable` implies `median < Target`).
For the verdicts: a cell that failed fast has a reason
(`BailHasReason`), the worst median is the least of the cells so far
(`WorstIsLeast`), and a trial only gets to the test split's next cell if all
cells before it ran every window, without a breach and at the target
(`TrialIsSound`).

**`BoardInv`.**  What a search has still in its buffer is the rest of its text
(`IsRest`); what it has written stands on the board in its order, with the other
writer's halves between (`IsWritten`); and an append that nobody disturbs is
one piece (`InTurn`).  That every row of the text is there exactly once rests on
`RankIsBijection`: the stable ranking gives different rows different places and
leaves none empty.

**`ProgramInv`.**  A program that fetches has nothing yet of the fetches to come
(`IsFetch`), and, of the one that runs, everything that was traded before the
cursor (`IsPaging`); `PageAdds` is that one page keeps this, whether the page
was full, short, or repeated.  Kraken's window makes the invariant unnecessary
there: every page is the whole window.  A series has bars of past hours only,
and whatever can be read from a forecast file is a `ForecastRow` of that file's
symbol, whose context holds its anchor and nothing later.

**`DataInv`.**  The plan of the data program says which sources it can have
(`IsOfPlan`), and its file is the first, first two, or all of three pieces of a
content (`IsWritten`) every row of which is tied to its bars (`IsContent`:
`RightPrice`, `ForecastWords`, `TechnicalFeatures`).  That such a content exists
when the program begins to write is `BuildIs` and `ExportIs`, which go through
merge, alignment and fill (`GridIs`, `ColumnIs`) or through the common index.
The properties are about what readers return, which is `FileIs`: the offsets of
a finished file find exactly the blocks that were written, since a block of
`nt` rows of `ns` symbols is `nt * ns * per` words (`FlattenIs`, `ReadBlockIs`).
For `NoFutureInRow` the features of a row are those of the series cut off after
it (`TechnicalIsCausal`).  `TechnicalParity` compares the definitions word by word:
the deque's recursive sum is the sum of its window (`SumIsTotal`), a window that
leaves out NaN is the one that starts at the second bar (`SameVolatility`), and
the true range is the maximum of pandas' columns (`SameRange`).

**`SetInv`.**  The file is always a beginning of the file that was begun last
(`FileFollows`): the earlier one, or the content of the data program, of which
it has none, one, two or three pieces.  Each open of training is of such a
beginning, and a reader of too few words fails (`ReadingIs`, `ReadBlockFails`).
So the features that it reads are those of the complete file, at most the
prices of which are still to come, and the prices are (`PartIsRead`).  If all
opens met one file, both blocks are of it, and the samples are rows of it below
the split; of a file replaced in between nothing can be said (section 6).

The provers cannot instantiate the library's induction theorems, so the
inductions over data are arguments by a least counterexample: the set of
numbers, or of finite sets, for which a formula fails is empty, because it has
no least element (`WFMin` with `NatLessThanWellFounded` or
`FS_StrictSubsetOrderingWellFounded`).  A recursive function is shown to satisfy
its equation by naming a function that does.

Only model-checked: `ExitCompletes`, `CallReturns` and `PagingEnds`, which are
liveness under fairness and out of the prover's reach.  Every other property of
a passing run is proved.

## 6. Not modelled, and why

* Numerics: cash, rewards and Sortino ratios of the engine, partial allocations
  and levels, PPO and its networks, XGBoost's fit, Chronos' inference and
  fine-tuning, `research/residual_analysis.py` and the statistics of
  `walkforward.py`.  They compute numbers from numbers and keep no state that
  anything else relies on.
* Configuration (`core/config.py`): environment flags are read once; their
  branches are in the models of the readers, but for the guard's override flag
  and the explicit `tolerance_bps`.
* `sim/src/binding.c` parses arguments for an external framework; loading,
  freeing and the sample data generator are plain I/O, as are ccxt, the feed's
  HTTP calls and the executor's construction gate.

Met while modelling, without a run of their own:

* Trading: the trading server answers a refused sell with 409 and goes on to
  the next order, although its header says that a refusal must crash the
  daemon (`core/trading_server.py:40-41`); what the statuses mean is
  `StatusTellsExecution`.  A held symbol that is not quoted or not filled is
  not counted when others are entered, so a paper trader can hold more than
  `max_positions` names and more than the gross exposure
  (`core/kraken_paper.py:157`).
* Engine: in the first `decision_lag` bars of the data the observation is bar 0
  itself (`trading_env.c:176`), which `NoLookAhead` states as an exception; a
  refused forced close followed by a hold counts the same bar twice in
  `hold_hours`, and an invalid action counts none; the reward excludes the cost
  of a forced close, because the equity before the step is taken after it; the
  engine still has the overnight tolerance that `core/alpaca_singleton.py` gave
  up in K3, although its header says that it mirrors it.
* Policies: the numbering `1 + sym` is right for one allocation and level bin
  only, while `research/policies.py:33` speaks of any bin configuration;
  symbols tie-break as strings (`"10" < "2"`).
* Cutover: `release()` leaves the PID in the lock file, so a unit that has
  taken the lock and released it again is still reported as "LIVE cutover
  verified: $UNIT holds the single writer lock"
  (`ops/deploy_live_trader.sh:252`); `OkMeansOwned` is what the handshake does
  establish.
* Market data: a hole in the first hour of the grid becomes a row of zero
  prices, since nothing is carried from before the grid; the features of a zero
  price differ (0 by the loops, infinity clipped by pandas), hence the condition
  in `TechnicalParity`; the bar of the hour that runs is stored as final, and
  the cache and the market file fetch it at different times, so a forecast may
  be of a partial bar; `--timeframe 1d --backfill kraken-csv` loads hourly bars
  into a daily grid (`sim/kraken_data.py:149`); a forecast's target is its
  anchor plus the horizon, whatever gaps follow; `train.py` opens the file anew
  for every block, so that training next to the data program may combine the
  features of the earlier file with the prices of the new one
  (`models/xgb/train.py:48-50`, `sim/binpack.py:32`), which `DatasetIsSound`
  does not speak of; and the C loader does not compare the header with the size
  of the file.
* Buy memory: a guard that cannot read the file approves, and a record made
  then drops every other floor (`core/alpaca_singleton.py:261-266`);
  `StandingFloorHolds` and `HeldIsGuarded` say how far floors hold nevertheless.
  `_STATE` may name a lock that another thread has released between the
  acquisition and the assignment (`core/alpaca_singleton.py:245`).
* Statuses: an injected executor that raised a RuntimeError after an order was
  sent would be answered with 409 (`core/trading_server.py:87`); those of the
  repository raise none, and `StatusTellsExecution` is about them.
* Leaderboard: a row may be torn by a flush of another search between its
  halves, there is no header at all if the search that saw no file is killed before it
  writes, and there are two if two searches look for the file before either
  opens it (`research/autoresearch.py:165`); `HeaderOnce` states when there is exactly one.

## 7. Plan

Done: the lock, the buy memory, the broker, the paper programs alone and
together, the cutover, the engine with its policies and windows, the gate with
its searches, and the way from the exchange to a training set; the proofs of
section 5.  What would add most to it:

1. Composition of the cutover with `LiveWriterLock` instead of its abstract
   steps, so that the handshake is checked against the real order of flock and
   payload.
