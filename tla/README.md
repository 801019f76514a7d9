# NSE stock screener: TLA+ models, model checking and proofs

The application receives market ticks from the FYERS data socket, screens stocks that
move by 4 percent, builds one-minute candles, persists screening events, streams quotes
and candles to browsers, and updates closing prices every night. This directory models
the parts of it that keep state, checks them with TLC, and proves some of the results
for every value of the constants with TLAPS.

Paths below are relative to the repository. Source lines of every definition are in
`PROJECT.json`, `map`.

## 1. The system

### 1.1 Threads and processes

* **Feed thread.** `WebSocketService` runs the FYERS socket in an executor thread. Every
  message calls `combined_on_tick` (`app/main.py`), which stores the quote in the
  `LiveMarketStore`, hands it to `MarketDataService` (screener, then candle engine), and
  queues the candle event. Redis writes are handed to the event loop.
* **Event loop.** FastAPI runs the REST handlers, one coroutine per browser
  (`/ws/live`), the broadcaster (`broadcast_updates`, every 150 ms) and the
  `ScreenerEventWorker`. Coroutines interleave only where they await; the feed thread
  runs between any two bytecodes.
* **Scripts.** `update_closing_prices.py` in the evening, `flush_redis_to_db.py` and
  `dump_memory_to_redis.py` around a restart, `load_instruments.py` now and then. They
  share the database and Redis with the server, not its memory.

### 1.2 Inventory

| Component | State | Operations | What is hard | What makes it correct |
| --- | --- | --- | --- | --- |
| `CandleService` | per symbol: forming candle, deque of closed candles, time of the last close | `process_tick`, `clear_symbol`, readers, timeframe aggregation, merge with history | late ticks, minute rollover, end of session, next day, eviction, readers in another thread | candles in time order, each the candle of its ticks, closed ones frozen, none lost |
| `MarketDataService`, `ScreenerService` | previous closes, screened dict, event queue | parse, `process_tick`, three loads at startup | hysteresis at the boundaries, two sources of the percentage | a stock is screened exactly when the rule says so; queue and state agree |
| `ScreenerEventWorker`, event service, repository | event in flight; tables `screened_stocks`, `screening_events`; Redis stream | dequeue, push, transaction | failing transactions, crash at any point, restart, midnight | row and log agree; rows + pending events = screened set |
| `LiveMarketStore`, `/ws/live` | quotes, dirty set, pending candle events, connections, subscriptions | `process_tick`, broadcast, connect, subscribe, disconnect | two threads on unlocked containers, awaits inside a loop over copies, failing sends | no client goes back in time, none misses an update, nothing is left of a closed socket |
| `FyersRateLimiter` | two deques of stamps | `wait` | sliding windows, time passing between check and stamp | no window holds more than its limit; one sleep is enough |
| `ClosingPriceService` | open transaction, counts, retries | `update_for_date` | 429 retries, checkpoints, crash and rerun | little is lost, nothing is asked twice, the counts are right, the run ends |
| Redis buffer | sorted sets and stream of candles, quotes hash, stream of screener events | push_* | errors swallowed, two writes that are not atomic | the stream misses nothing that is in the tables |
| Flush and dump scripts | none of their own | read stream, insert, commit, trim | events arriving while flushing, crash before the trim, duplicates | what was pushed is on the stream or in the table; every entry is inserted once; the flush goes through |
| `WebSocketService` | socket, symbols, `is_ws_connected` in the store | start, callbacks | reconnection, symbols refused piece by piece, late errors | the feed ends up with every symbol FYERS accepts |
| Instrument sync | table `stocks` | parse CSV, update, insert, deactivate in one transaction | duplicates in the CSV, tokens that move, a server starting beside it | table = CSV; ids stay true |
| Chart endpoint, dashboard page | none; the page keeps candles and quotes | merge history and live candles | stale messages after a change of resolution | the chart shows the candles of its resolution |
| Token manager, login scripts | one token in `.env`, one in the settings of the process | check, refresh, save, log in | tokens that expire under a running server | the server feeds again with a token that lasts |
| Settings, session factory, migrations, demo scripts | — | — | none | — |

Status of each in `PROJECT.json`, `components`; every hazard with its line and the
properties that watch it in `hazards`.

### 1.3 How the parts interact

The screener writes `event_queue` (feed thread) and the worker drains it (event loop);
the worker's tables are read by the next process at startup. The feed thread writes the
quotes, the dirty set and the pending events of the `LiveMarketStore`; the broadcaster
copies and clears them. The broadcaster also walks the screener's dict. The nightly
update writes the closing prices that startup loads. The instrument synchronisation
writes the table of which startup reads the symbols to subscribe and the ids of the
screener, by two queries. Closed candles and screening events go to Redis streams, from
which the evening flush writes tables that the worker writes too. Nothing but the candle
engine uses a lock.

## 2. Modules

| Module | Models | Composes |
| --- | --- | --- |
| `CandleService` | the candle engine for one symbol | |
| `CandleAggregation` | timeframe buckets, completeness, merge with history | extends `CandleService` |
| `CandlePersistence` | closed candles: pushes, sorted set, stream, flush, dump, restart, table | extends `CandleAggregation` |
| `ScreenerService` | parsing, percentage, hysteresis, event queue, startup loads | |
| `ScreenerPipeline` | screener, worker, tables, stream, crash, restart, midnight | extends `ScreenerService`; refines `ScreenedLedger` |
| `ScreenedLedger` | abstract specification: a ledger, a durable prefix, an active set | |
| `ScreenerFlush` | the evening flush of screener events beside the server | extends `ScreenerPipeline` |
| `LiveStore` | quotes, broadcaster, endpoint coroutines, browsers | |
| `FyersRateLimiter` | `wait()` | |
| `ClosingPrices` | the nightly update and what startup loads | its step `Admitted` rests on `FyersRateLimiter` |
| `InstrumentSync` | the symbol master and the transaction that mirrors it in `stocks` | |
| `MarketFeed` | token check, queries and feed of a starting server, the FYERS socket, logins | extends `InstrumentSync` |
| `Subsequences` | no code: elements at given positions, ascending order, stable sort, without recursion | used by `CandleAggregation`, `InstrumentSync` |
| `MC*` | the small instances TLC checks | the module named |
| `SubsequencesProofs` | lemmas on `Subsequences`, `FlattenSeq`, `Min` and `Max`, remainders, counting | used by the next, `MarketFeedProofs` and `LiveStoreProofs` |
| `CandleServiceProofs` | theorems on `CandleService` and `CandleAggregation` | |
| `CandlePersistenceProofs` | theorems on `CandlePersistence` | extends `CandleServiceProofs` |
| `ScreenerProofs` | theorems on `ScreenerService`, `ScreenerPipeline` and `ScreenerFlush` | uses `ScreenedLedgerProofs` through an instance |
| `ScreenedLedgerProofs` | theorems on `ScreenedLedger` | |
| `NightlyUpdateProofs` | theorems on `FyersRateLimiter` and `ClosingPrices` | |
| `MarketFeedProofs` | theorems on `InstrumentSync` and `MarketFeed` | |
| `LiveStoreProofs` | theorems on `LiveStore` | |

Definitions whose comment starts with "Mutant of" are deliberate mistakes. Putting one in
the place of the definition it names must break the property it is listed with in
`PROJECT.json`, `mutants`: this is how each property is shown to depend on the code.

### 2.1 CandleService

`current_1m`, `rolling_1m` and `last_tick_time` are the fields of `SymbolCandleState`.
A time is in milliseconds since midnight IST; a minute bucket is its floor. The cases of
`process_tick` are actions: `IgnoreTick`, `CloseSession` (after 15:30), `FirstTick`,
`UpdateForming`, `Rollover`, `LateTick`. One symbol is enough, since symbols share no
state, and each operation is atomic because it holds the lock of the symbol. `log` is a
history of session ticks; the reference meaning of a candle is read from it. `clock` and
`shut` describe the feed: how late a tick may be (`MaxLateness`), and whether a session
tick may follow an after-hours tick (`LateAfterClose`). Prices are compared only, so any
set of numbers does. Volume is always 0 in the code and left out.

`CandleAggregation` adds what the readers compute and no state. A frame starts at a
multiple of its length from the opening; it is closed when all its candles are and there
is one per minute. `Aggregate` returns the one-minute candles for a timeframe that is
not in the table, as the code does for `1D`. `Histories` are the candle lists that FYERS
may return, in time order and on the timestamps of `HistoryTimes`.

`CandlePersistence` follows a closed candle. `PushesFor` gives the push that an event
makes `combined_on_tick` schedule; a push is a coroutine with two awaits, so pushes of
several candles interleave and any may fail at either. The stream is the sequence Redis
keeps, the sorted set a set. The flush reads the stream, or when it is empty the sorted
sets, commits all or nothing against the unique constraint, and trims; it may be killed
at each point. All symbols share the stream, so that a flush may go its first way with no
entry of this one. The client trims approximately (`MAXLEN ~ 0`, with a limit of some
10,000 entries in Redis), which empties a short stream and leaves the newest entries of a
full day's: `FlushTrim` drops any number of the oldest entries of the symbol. Two
histories are sets of minutes: `doubled`, those dumped or opened again, and `left`, those
on the stream after a flush that had stored it, because the trim stopped early or the
flush died before it. `FlushCollisions` says that a flush of the stream is refused for
such minutes only, and always for those left. `DumpFetch` and `DumpPush` are the memory dump, which asks the chart
endpoint and pushes the answer again. `ServerStops` loses the engine and its pushes.

### 2.2 ScreenerService, ScreenerPipeline, ScreenerFlush and ScreenedLedger

`ProcessMessage` is `MarketDataService.process_message` without the candle engine. A
percentage is an exact fraction `n/d`; the code computes in `Decimal` with 28 digits,
which differs only for quotients that are not finite decimals, far beyond any
threshold. `changes` is a history. `ScreenerPipeline` adds the worker (`Dequeue`,
`PushStream`, `Record` or `RecordFails`), the tables as they are committed, the stream,
`Crash` at any point, `Restart` with the loads of `lifespan`, and `Midnight`. A
transaction is one step: it commits whole or not at all. `rows` holds a sequence per
stock and date so that a double row can be represented.

`ScreenedLedger` says what the pair promises on one trading date. Dates never decrease
along the event table, so the events of the date are its last ones (`Earlier` counts
those before). The refinement maps the ledger to these followed by the pending ones,
`durable` to the number recorded, `active` to the screened set (while the process is
down, to what a restart would load). Entering and leaving are the ledger's `Cross`,
`Record` is `Persist`, `Crash` is `Forget`, a restart on a later date is `NewDate`, and
all other actions stutter.

`ScreenerFlush` puts the flush of screener events beside this server. The flush inserts
one row of `screened_stocks` per stream entry, exits included, beside the rows that the
worker has written and deleted. `inserted` counts, as a history, how often each
entry ever streamed was inserted. The trim is the approximate one of the candles, but this
stream stays far below the limit of Redis (an entry for each crossing of a threshold, not
one for each stock and minute), so that the model empties it.

### 2.3 LiveStore

A quote is the number of ticks its symbol has had, a candle event the number of events.
The feed thread takes `StoreQuote`, `MarkDirty`, `ProcessMessage`, `QueueCandleEvent`,
one shared operation each. `broadcaster` is the point the loop has reached; where it does
not await (`LoopFree` false) no coroutine runs, but the feed thread does. Each send is a
step. `gone` are the clients whose peer has left: their sends may raise or go unnoticed.
What a browser shows is `view` (quotes) and `chart` (the newest candle and whether it
came live or in the snapshot that answers a subscription), as `index.html` stores them: a
live candle of another symbol than that of the chart is ignored.

The copies of the dirty set and of the event list are made, and the originals cleared, in
two steps without a lock, and the broadcaster walks a dict that the feed thread changes.
Nothing in the code prevents what is lost by this, and nothing in the model does. Two
histories, which no step reads, say where it has happened: `forgotten`, the symbols whose
newest quote was marked between copy and clear without being in the copy, or was in a
batch that died when the dict changed its size; `missed`, the candle events queued between
the copy of the list (or the look that found no reason to copy it) and its clear. The
properties say that nothing else is lost.
Left out: summary statistics, the filters of `/api/stocks`, the list of screened stocks
a page shows, and the completion of symbols sent without `NSE:` or `-EQ` (the dashboard
sends them complete). An aggregated candle is represented by how many events it reflects.

### 2.4 FyersRateLimiter and ClosingPrices

Time is discrete and may pass between any two steps of `wait()`. Windows, limits and the
least sleep are constants. `ClosingPrices` takes one step per request, answer, checkpoint
and commit; `Die` is a crash or an exception anywhere, which rolls back what is not
committed. `today` and `StartServer` relate the table to what a server started then
loads. A price is only stored or not stored: the properties do not speak of its value.

### 2.5 InstrumentSync and MarketFeed

The position of a stock in the sequence `stocks` is its id. `Sync` is the transaction of
`sync_instruments`: it updates row by row in the order of the ids, so a token that moves
from one stock to another may meet the unique column on the way, and adds a row for every
new symbol, twice if it comes twice; a conflict rolls all of it back. `MarketFeed` takes
the startup of `lifespan` query by query (`KeepToken` or `RefreshToken`, `LoadSymbols`,
`LoadStocks`, `StartFeed`), so that a synchronisation can commit between two of them, and
the callbacks of `WebSocketService`. FYERS and its socket library are external, and
modelled by what the code relies on: they connect with a token that is valid, close and
connect again, accept a subscription or answer by an error -300 that names some of the
unknown symbols. Tokens are numbered in the order in which FYERS issues them; the file
`.env`, the settings of the process and FYERS each have their own view of the newest.

## 3. Model checking

Runs that pass:

| Run | Bounds | What it shows |
| --- | --- | --- |
| `candles` | 4 session ticks at 10 instants (two in one second, three minutes, the closing instant, after hours, the next morning), 2 prices, deque of 2, a timeframe of two minutes, histories of 2 instants | order, content, retention and immutability of candles; frames are those of their ticks, close only when whole; the merge is ordered |
| `candle_persistence` | 3 session ticks at 5 instants of two days, 2 prices, 2 flushes, dumps or restarts, failing Redis and database, flush killed anywhere, trims that stop anywhere | what was pushed is on the stream or in the table; a flush is refused only for a minute dumped, opened again or left on the stream by an earlier flush; only the last minute of a session is never pushed; copies lack nothing but late ranges |
| `hysteresis` | 4 percentages of one stock, prices and reported changes on and just inside both thresholds, fresh or restored state | the screened set is the rule applied to the whole history |
| `screener_flush` | 2 stocks, 3 messages, 2 days, 2 flushes, failing database and Redis, crashes, flush killed anywhere | each stream entry is inserted once unless a flush died before its trim; rows that disagree with the events are the flush's; a restart follows the events |
| `pipeline_recovery` | 2 stocks, 4 messages, 2 days, any number of crashes, no failing calls, fairness | row and log agree; rows and pending events replay to the screened set; the stream covers the log; the pipeline implements `ScreenedLedger`; the rows catch up |
| `live_charts` | 2 symbols of 2 ticks, one of them charted, 1 browser with 2 requests, resolutions 1m and 5m, unrestricted feed thread | candle events arrive in order and once, none is missed but those of `missed`; nothing is left of a closed socket |
| `live_quotes` | 2 symbols of 2 ticks, one of them entering and leaving the screened set, 2 browsers, unrestricted feed thread, fairness | no browser goes back in time; every quote is delivered but those of `forgotten` |
| `rate_limiter` | 5 requests, 13 time units, windows of 2 and 5, limits 2 and 3 | both limits, one sleep per call |
| `closing_prices` | 4 stocks, checkpoint 2, 1 retry, 2 dates, any number of crashes and reruns, fairness | counts, losses, no second request, termination |
| `market_feed` | 2 starts, 2 synchronisations of any of some fifty masters of up to 4 rows, 2 tokens, 1 lost connection, sockets of 3 symbols, fairness | the table mirrors the master; ids stay true; screener and socket agree; the subscription recovers |

Why the bounds are enough: two stocks or browsers are the least number for every race in
the code, and no code path relates three; the live store needs two symbols, since with one
a mark between the copy and the clear is always of a symbol that is in the copy, and a
page could not meet a frame of another chart, while its quotes and its charts share
nothing but the loop, so that either run leaves out the other half; what one browser is
sent of candles does not depend on another one; three minutes let a candle form,
close and be evicted from a deque of two; a timeframe of two minutes fills a frame of
that deque. Two flushes are a flush and its repetition after a death. The order of the
two prices is all that high and low depend on. A checkpoint of two with four stocks passes
a checkpoint twice and ends on and off one; five requests fill both windows and leave
both. Two rows are enough for a symbol or a token that comes twice, moves or disappears; a
master of four rows has two refused symbols and a delisted one, another is too long for
the socket. `MaxTicks`, `MaxMessages`, `MaxRequests`, `MaxDay`, `MaxTime`,
`LastDate`, `MaxRuns`, `MaxFlushes`, `MaxSyncs`, `MaxStarts`, `MaxCloses` and `MaxTokens`
bound counters only. Where a bound stops the feed the cfg says `CHECK_DEADLOCK FALSE`;
`LiveStore` and `ClosingPrices` are checked for deadlock.

Runs that find a disagreement between the code and what the repository says of it (the
quotations are in `findings`):

| Run | What happens |
| --- | --- |
| `pipeline_midnight` | after midnight the old date is written; a restart loads nothing |
| `flush_after_dump` | without any fault, a memory dump makes the flush violate the unique constraint of the candles: it stores nothing, then and on every later attempt |

Disagreements seen while modelling that have no run of their own:

* `app/services/candle_service.py:21` takes 375 candles for a full session; the session
  check admits the closing instant, a 376th minute, which evicts 09:15.
* `flush_redis_to_db.py:100` trims the stream "after successful flush"; `xtrim` with
  `maxlen=0` is approximate by default and stops after some 10,000 entries, so that a full
  day of all symbols leaves stored entries behind, which refuse the next flush
  (`FlushCollisions` has them in `left`).
* `live_store.py:276`: a candle event queued between the copy of the list and its clear is
  never sent (`missed` in `LiveStore`); `:252` loses the mark of a quote in the same way,
  until the next tick of its symbol (`forgotten`).
* `live_store.py:279`: a raw 1m event can reach a client that has changed to 5m after the
  subscriptions were copied.
* `websocket_service.py:127` asks for a new token when one has expired; the running server
  never reads `.env` again, so that only a restart helps.
* `main.py:184`: `ws_connected` of `/health` is set before the feed starts and never reset.
* `README.md:14` describes the automatic login by TOTP; `auto_login.py:111` needs settings that
  `Settings` does not have, and falls back to the manual login.
* `redis_tick_buffer.py:12` reserves database commits for the evening flush; the worker
  writes the same rows during the day, and the flush writes them again, exits included.
* `main.py:103` loads "existing active" stocks; a restart on the day of a flush, after it,
  screens removed stocks again. `RestartFollowsEvents` allows exactly this.
* `main.py:82` loads the previous trading day's closes; the latest date of the table is
  the same day if the update has already run.
* The shutdown closes Redis before it cancels the worker: an event may be recorded then
  that the stream does not get.

### Assumptions the passing runs make

* `candles`: a tick is late by less than the hours before the opening, and no session tick
  follows an after-hours tick (`LateAfterClose` false). Without the second, such a tick
  opens a minute again that has been closed, and the minute appears twice.
* `candle_persistence` and `screener_flush`: the flush runs in the evening, when nothing is on
  its way to Redis or to the worker and no stock crosses a threshold (`FlushInSession`
  false). The code does not ensure it: what is appended between the read and the trim is
  lost. One flush runs at a time. The cap of a million entries of the streams is not
  reached. The chart endpoint answers from Redis alone when the sorted set has a member.
* `pipeline_recovery`: transactions do not fail (`ReliableNext`). If one does, the
  event is dropped: a screened stock may be without its row, which `screener_flush`
  admits, since it compares the tables with the recorded events only.
* Rows of one stock are loaded in the order in which they were inserted; the queries
  have no ORDER BY, and the database is free to do otherwise.
* The shutdown of the server is one step, the same as a crash.
* `market_feed`: a file `.env` exists; the error -300 arrives with a list of symbols that
  the code can read, and names at least one; the library connects again after a close;
  two synchronisations do not run at once.

### Fairness

* `FairPipelineSpec`: weak fairness of the worker's steps. The event loop keeps running
  the task, each awaited call returns or raises, and every exception is caught.
* `FairStoreSpec`: weak fairness of the broadcaster (its sleeps end, each send returns or
  raises, exceptions are caught) and of the continuation of a tick that the feed thread has
  begun.
* `FairClosingSpec`: weak fairness of a run's steps: requests return or raise. Nothing is
  assumed of the operator or of the answers.
* `FeedSpec`: weak fairness of the steps of the startup, of the library's connecting and
  FYERS' answering, and of the handler of errors. Nothing obliges a token to last or to be
  refreshed, a script to run, or a server to stop.

No fairness is assumed of the market, the browsers, crashes or restarts.

## 4. Proofs

Every theorem holds for all values of the constants that satisfy the named assumptions of
its module (`ConstantsAssumption` and `NoneAssumption`, `AggregationConstants`,
`PersistConstants`, `ScreenerConstants`, `ScreenerNone`, `PipelineConstants`,
`FlushConstants`, `LimiterConstants`, `ClosingConstants`, `StoreConstants`,
`SyncConstants`, `FeedConstants`): sizes are positive where the code divides by or counts
to them, `None` is not a value, a tick is late by no more than the hours before the
opening. The bounds on counters may be any numbers, the sets of symbols, browsers,
prices, times and masters any sets of such values. Where a theorem needs one of the assumptions of
section 3 about the feed or the flush, it is a hypothesis of the theorem
(`~LateAfterClose`, `~FlushInSession`), as the constant is in the run.

| Theorem | States | Argument |
| --- | --- | --- |
| `TypeCorrect` | types, deque never longer than its maxlen | inductive as it stands |
| `CandlesOrdered` | candles in strictly increasing time order, if no session tick follows an after-hours tick | `OrderInv` = `TypeOK`, `RollingOrdered` and `FeedInv` |
| `HistoryFrozen` | a closed candle keeps open and close, its range only widens | one step under `OrderInv`: order makes the first candle of a minute its only one |
| `NothingLostEarly` | a minute that had an on-time tick keeps its candle until maxlen later minutes are closed | `KeptInv`, over `LogInv`: no tick is ahead of the forming candle, so the candle an on-time tick needs is the forming one or a new one |
| `CandlesTellTicks` | every candle handed out opens, closes and ranges as the ticks of its minute say, late ones included | `ClosedContent` and `FormingContent`: `last_tick_time` is the second of the tick that closes the forming candle so far, which is why a tick of an earlier second may be left out of the close |
| `ChartInOrder` | for every table of timeframes and every history: the merged chart is strictly in time order and has every bucket of both sources, if no session tick follows an after-hours tick | frames ascend by construction, one-minute candles by `OrderInv`; `SortByLemma`: a stable sort of distinct stamps |
| `FramesTrue` | under the same feeds, a frame opens, closes and ranges as the ticks of its kept minutes | `GroupLemma`: the group of a frame is its candles in time order; with `CandlesTellTicks` |
| `FramesCloseComplete` | under the same feeds, a frame is closed exactly when each of its minutes has a closed candle | `FrameLemma` and `WholeFrameLemma`: the minutes of a session in a frame are those at 0 to n-1 minutes from its start; the group has them once each, so that n of them are all (`PlacesLemma`, `PlacesNeeded`) |
| `PushedIsKept` | what was appended to the stream is there or in the table, if the flush runs after the session | `LossInv`: a flush that is about to trim has committed every entry of the stream, which does not grow meanwhile |
| `RefusalsExplained` | the unique constraint refuses a flush of the stream only for a minute that was dumped, opened again or left there by an earlier flush, and always for the latter; a flush of the sorted sets goes through only if the table has nothing of the symbol; if the flush runs after the session | `CollisionInv`: but for the minutes of `doubled`, those on the stream, on their way and forming are pairwise distinct and not in the table (`OnTheWayFresh`, `FormingFresh`, `StreamFresh`), except those of `left`, which all are (`LeftStored`); the sorted sets have every minute of the table (`SetsHaveAll`) |
| `LastMinuteAlone` | of the minutes closed only the last of a session is never given to Redis, if no session tick follows an after-hours tick | `GivenInv` over `OrderInv`: a closed minute was given, or an after-hours tick closed it as the last of its day |
| `CopiesTellCandles` | a copy in Redis or the table has the open and close of the engine's candle and at most its range, for each minute that was not dumped or opened again; same feeds, flush after the session | `CopyInv`, over `OrderInv`, `LossInv` and `CollisionInv`: a minute has one copy, made when its candle was closed, and later steps only stretch the candle |
| `ScreenerTypeCorrect` | types; denominators are positive | inductive |
| `HysteresisCorrect` | screened exactly when the rule holds of the whole history | `RuleLemma` gives the rule of a history with one more change from the rule of the history; it is the code's case split |
| `LatestShown` | the shown change is the newest | inductive with the types |
| `PipelineTypeCorrect` | types; an event is in flight exactly while the worker works | inductive |
| `TablesAgree` | one row of the last entry exactly when no exit followed it, whatever fails | `NewestLemma`: a commit is the last event of its stock and date; `OthersKeepLemma`: it is so for no other |
| `StreamMissesNothing` | if Redis answers, the event table is the stream with entries left out | `CoveredBy`: an increasing map of the table into the stream, which ends before an entry in flight that has been pushed; the push comes before the commit |
| `LedgerImplemented` | when transactions succeed, the pipeline implements `ScreenedLedger` | `DatesInv` (dates never decrease along the events, and the last is no later than the process's), types and `TablesAgree`; one lemma per action |
| `RowsReplayToScreened` | under the same assumption, rows and pending events give the screened set | `ReplayCorrect`, instantiated along the refinement |
| `FlushedOnceAlways` | an entry that left the stream was inserted, once unless a flush died before its trim | `FlushInv`: the batch is what the stream holds, in the evening |
| `OnlyFlushAdds` | rows that disagree with the events belong to stocks and dates of a flush | the steps of `TablesAgree` with types weak enough to survive the flush |
| `RestartIsLastEvent` | a restart screens a stock exactly when its last event of the date is an entry, unless a flush added rows | from `OnlyFlushAdds` and what `Restart` loads |
| `ReplayCorrect` | abstract ledger: active = replay | `ReplayAppendLemma`, one entry at a time |
| `AlternationCorrect`, `DurableForever` | abstract ledger: alternation, durable prefix | prefixes, with `ReplayCorrect` |
| `LimitsHold` | no window of either length holds more than its limit | `WindowsRemembered`: what a deque has forgotten is a window old |
| `OneNap` | at most one sleep per call | `NapCovers`: when the sleeper wakes, the oldest stamp of each full window is due |
| `ClosingTypeCorrect`, `LimiterTypeCorrect` | types | inductive |
| `LittleLost` | a crash loses fewer prices than a checkpoint | `SavedSinceCheckpoint`: what is not committed was counted since the last multiple of `CHECKPOINT` |
| `CountsCorrect` | every stock dealt with is counted once, successes being the stored prices | `CountsInv` with `AheadUnpriced`: the stock at the index is new, so both cardinalities grow by one |
| `NothingAskedTwice` | no stock with a stored price is asked for | `AheadUnpriced`: no stock from the index on has a price, because the list names each stock once |
| `StoreTypeCorrect` | types; the broadcaster holds nothing between two rounds | inductive with `FeedInv`, `CastInv`, `ChartInv`, `NotOpenInv` (together `StoreInv`) |
| `ClosedIsForgotten` | a socket whose endpoint has ended is in neither collection | part of `StoreInv`: who fails to send removes it from both |
| `QuotesOnlyAdvance` | no browser goes back to an older quote | `QuotesInv`: the batch on its way is no older than what any of its remaining receivers shows, those who joined meanwhile are not among them |
| `CandlesNeverGoBack` | candle events of a symbol reach a 1m chart in order, none twice | `OrderInv` of `LiveStoreProofs`: the list, the copy and the deliveries still to make ascend, and the chart is behind all of them; `FlattenLemma` for the deliveries of a round |
| `NoQuoteForgotten` | a connected browser has the newest quote, or it is about to be marked, marked, on its way, or in `forgotten`, for every interleaving of the feed thread | `CaughtInv`: what is marked between copy and clear is in the copy or forgotten, and while a batch is sent, those already served have what is neither marked again nor forgotten |
| `NoCandleMissed` | a 1m chart misses no event after its snapshot but those in `missed`, for every interleaving of the feed thread | `GapInv`: unsent events reach without a gap to the newest one; between the copy and the clear those not in the copy (`Copied`) are in `missed`; and the next event of a chart is, but for such events, among the first of the unsent ones or of those due to it |
| `MirrorKept` | the active stocks are those of the last master committed, and no master without a conflict is rolled back | `SyncInv`: symbols and tokens of the table stay distinct; `KeepLemma` for the rows added |
| `IdsKept` | the ids the screener uses name the stocks they were loaded for | `StartupInv`: a synchronisation keeps every row in its place |
| `StartupAgrees` | screener and socket start with the same stocks unless a synchronisation is committed between the two queries | `StartupInv`: the symbols read are still the active ones when the second query runs |

Why the strengthenings are needed. `RollingOrdered` is not inductive: with no forming
candle, any session tick may start one, and nothing in the engine compares its minute
with the deque. `FeedInv` supplies what is missing from the feed: all closed candles are
older than the newest after-hours tick. `CandlesMatchTicks` says nothing of
`last_tick_time`, on which the next close depends, and nothing of ticks ahead of the
forming candle, which would belong to a candle that does not exist yet: `FormingContent`
and `LogInv` do. The limits are not inductive because the deques
alone decide, and they forget; a sleep is enough only because nothing is stamped while
the one thread sleeps. `LittleLost` counts modulo the checkpoint because failed stocks
lie between two commits. `OnlyLastMinuteUnpushed` speaks of what is in Redis or on its
way; that no minute is closed a second time, and so withdrawn from either set, is
`OrderInv`. `NoCandleGap` compares a chart with its snapshot only; that the next event will
come needs the list, the copy and the deliveries in between, which `GapInv` describes for
every point of the broadcaster's round. For the frames nothing is inductive beyond the
candles: the three theorems follow from invariants of the candles (and `SessionLog`: only
session ticks make candles) by lemmas about one state.

The refinement is not a simulation by types alone: that a recorded event is the next one
of the ledger needs the dates in order (a restart after midnight starts a new ledger
while the table goes on), and that a restart loads the replay of the ledger needs the
agreement of rows and events. `RowsReplayToScreened` would need an induction over the
pending events; through the refinement it is a consequence of a theorem of the abstract
ledger, where each step appends one entry. Nothing is proved of the contents of the rows
the flush of screener events inserts: `SelectSeq` is recursive in the standard module and
opaque to the prover, and none of the theorems needs it.

The library theorems on induction take an operator as a parameter, which the installed
provers cannot instantiate. Where a proof needs an induction it is made over a set:
`NaturalsLemma` (a set of naturals with 0 and every successor has them all) follows from
the well-foundedness of the naturals, and gives `FlattenLemma`, on the library's recursive
`FlattenSeq`. The operators of `Subsequences` count instead of recurring: the element at
position k of `Ascending(S)` is the one with k elements up to it, so that `AscendingLemma`,
`KeepLemma` and `SortByLemma` follow from facts on cardinalities.

Only model-checked: liveness (`RowsCatchUp`, `QuotesDelivered`, `UpdateEnds`,
`SubscriptionRecovers`), which the proof system cannot treat under fairness. Every other
property of a passing run is a theorem. The theorems rest on the model, as the runs do:
what a transaction, a socket or the feed may do is assumed in the actions.

## 5. What the project could still do

The plan the modules followed: the candle engine, the screener, its persistence across
crashes, the live store between its two threads and the nightly update came first, with
the theorems of the core; then the aggregation, the way of the candles and of the events
through Redis into the database, and the way of the server to its feed, with the
refinement and the theorems about loss. What is left, by value:

1. A reader that sees half an update: `get_all_candles` returns the candles themselves and
   `to_dict` runs without the lock. The assignments of one update would be single steps.
2. `ClosingPrices` composed with `ScreenerService`: what the screener makes of a table
   whose latest date is today, or which is complete for some stocks only.
3. The list of screened stocks in `LiveStore`: a batch can be sent before the screener has
   judged the tick.
4. The shutdown step by step: Redis is closed before the worker is cancelled.
5. Proofs: the abstract specification of the live store (each browser's view of a symbol
   as a register that only advances) and that `LiveStore` implements it; the same for
   the nightly update, as a set of stored prices that only grows on one date.

## 6. Not modelled

* The dialogue of the login scripts with FYERS and the rewriting of `.env`: one step each of
  `MarketFeed`.
* The hash of quotes in Redis and its dump, which no code reads; the cap of the streams.
* The daily resolution `1D` of the chart, and the completion of symbols.
* Settings, session factory, migrations: declarations.
* Demonstration scripts: they print what the socket sends.
* REST handlers that only read, the filters and summary figures of the dashboard, its
  layout: nothing the properties tell apart.
* Two nightly updates at once: the operator runs one; the unique constraint of the table
  would make the second fail as a whole.
* The queue of the screener at a limit: `queue.SimpleQueue` has none.
