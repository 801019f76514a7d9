---------------------------- MODULE ClosingPrices ----------------------------
(***************************************************************************)
(* The nightly update of closing prices, scripts/update_closing_prices.py, *)
(* which runs ClosingPriceService.update_for_date, and the startup of      *)
(* app/main.py, which loads what the update has stored.  One history       *)
(* request per stock, retried when the API answers 429, a commit after     *)
(* every CHECKPOINT prices and at the end; the process may die anywhere,   *)
(* and the operator runs the script again.                                 *)
(***************************************************************************)
EXTENDS Integers, FiniteSets, Sequences

CONSTANTS
  Stocks,       \* ids of the active stocks
  CHECKPOINT,   \* successes between two commits, 100
  max_retries,  \* 3
  LastDate      \* bound: trading dates

VARIABLES
  daily_closing_prices, \* committed <<stock, date>>
  saved,                \* written in the open transaction
  run,                  \* "idle", "waiting", "asking", "checkpoint", "finishing"
  trading_date,         \* the date of the run
  stocks_to_process,    \* the ids it works through
  index,                \* position in stocks_to_process
  successful, failed, retry_count,
  today,
  previous_closes       \* what the last startup of the server loaded

progress == <<index, successful, failed, retry_count>>
runVars == <<run, trading_date, stocks_to_process, progress>>
closingVars == <<daily_closing_prices, saved, runVars, today, previous_closes>>

ASSUME ClosingConstants ==
  /\ IsFiniteSet(Stocks) /\ Stocks \subseteq Nat
  /\ CHECKPOINT \in Nat \ {0} /\ max_retries \in Nat /\ LastDate \in Nat \ {0}

Dates == 1 .. LastDate

(* daily_closing_prices has at most one row of a stock and a date. *)
DailyClosingPrice == Stocks \X Dates
-----------------------------------------------------------------------------
On(date) == {s \in Stocks : <<s, date>> \in daily_closing_prices}

ClosingInit ==
  /\ daily_closing_prices = {} /\ saved = {}
  /\ run = "idle" /\ trading_date = 1 /\ stocks_to_process = <<>>
  /\ index = 1 /\ successful = 0 /\ failed = 0 /\ retry_count = 0
  /\ today = 1 /\ previous_closes = {}

Ascending(ids) == \A i, j \in DOMAIN ids : i < j => ids[i] < ids[j]

InOrder(S) == {ids \in [1 .. Cardinality(S) -> S] : Ascending(ids)}

(* Mutant of Remaining: stocks that have their price are asked again. *)
AllStocks(date) == InOrder(Stocks)

(* The active stocks that have no price of that date, ordered by id: there *)
(* is one such order.                                                      *)
Remaining(date) == InOrder(Stocks \ On(date))

StartUpdate(date) ==
  /\ run = "idle" /\ date <= today
  /\ trading_date' = date
  /\ stocks_to_process' \in Remaining(date)
  /\ index' = 1 /\ successful' = 0 /\ failed' = 0 /\ retry_count' = 0
  /\ run' = IF stocks_to_process' = <<>> THEN "finishing" ELSE "waiting"
  /\ UNCHANGED <<daily_closing_prices, saved, today, previous_closes>>

Stock == stocks_to_process[index]

(* On to the next stock, or to the last commit. *)
NextStock ==
  /\ index' = index + 1
  /\ retry_count' = 0
  /\ run' = IF index = Len(stocks_to_process) THEN "finishing" ELSE "waiting"

(* rate_limiter.wait() returns: see FyersRateLimiter. *)
Admitted ==
  /\ run = "waiting"
  /\ run' = "asking"
  /\ UNCHANGED <<progress, trading_date, stocks_to_process,
                 daily_closing_prices, saved, today, previous_closes>>

(* Mutant of RateLimited: the retries of a stock are not counted. *)
RateLimitedForever ==
  /\ run = "asking"
  /\ run' = "waiting"
  /\ UNCHANGED <<progress, trading_date, stocks_to_process,
                 daily_closing_prices, saved, today, previous_closes>>

(* Mutant of RateLimited: one retry too many. *)
RateLimitedOneMore ==
  /\ run = "asking"
  /\ IF retry_count > max_retries
     THEN NextStock /\ failed' = failed + 1
     ELSE /\ retry_count' = retry_count + 1 /\ run' = "waiting"
          /\ UNCHANGED <<index, failed>>
  /\ UNCHANGED <<successful, trading_date, stocks_to_process,
                 daily_closing_prices, saved, today, previous_closes>>

(* Answer 429: wait and ask again, up to max_retries times.               *)
RateLimited ==
  /\ run = "asking"
  /\ IF retry_count + 1 > max_retries
     THEN NextStock /\ failed' = failed + 1
     ELSE /\ retry_count' = retry_count + 1 /\ run' = "waiting"
          /\ UNCHANGED <<index, failed>>
  /\ UNCHANGED <<successful, trading_date, stocks_to_process,
                 daily_closing_prices, saved, today, previous_closes>>

(* Mutant of NoPrice: the stock is not counted. *)
NoPriceUncounted ==
  /\ run = "asking"
  /\ NextStock
  /\ UNCHANGED <<failed, successful, trading_date, stocks_to_process,
                 daily_closing_prices, saved, today, previous_closes>>

(* Any other answer than ok, or no candle of that date. *)
NoPrice ==
  /\ run = "asking"
  /\ NextStock /\ failed' = failed + 1
  /\ UNCHANGED <<successful, trading_date, stocks_to_process,
                 daily_closing_prices, saved, today, previous_closes>>

(* Mutant of CheckpointDue: the stocks are counted, not the prices. *)
CheckpointDueByIndex == index % CHECKPOINT = 0

CheckpointDue == (successful + 1) % CHECKPOINT = 0

(* save: insert, or on conflict update, the row of the stock and the date. *)
Save == saved' = saved \cup {<<Stock, trading_date>>}

SavePrice ==
  /\ run = "asking"
  /\ Save
  /\ successful' = successful + 1
  /\ IF CheckpointDue
     THEN /\ run' = "checkpoint"
          /\ UNCHANGED <<index, retry_count>>
     ELSE NextStock
  /\ UNCHANGED <<failed, trading_date, stocks_to_process,
                 daily_closing_prices, today, previous_closes>>

Commit ==
  /\ daily_closing_prices' = daily_closing_prices \cup saved
  /\ saved' = {}

Checkpoint ==
  /\ run = "checkpoint"
  /\ Commit /\ NextStock
  /\ UNCHANGED <<successful, failed, trading_date, stocks_to_process, today,
                 previous_closes>>

Finish ==
  /\ run = "finishing"
  /\ Commit /\ run' = "idle"
  /\ UNCHANGED <<trading_date, stocks_to_process, progress, today,
                 previous_closes>>

(* The script is stopped, or a request or a commit raises: the session is  *)
(* closed without a commit.                                                *)
Die ==
  /\ run # "idle"
  /\ run' = "idle" /\ saved' = {}
  /\ UNCHANGED <<daily_closing_prices, trading_date, stocks_to_process,
                 progress, today, previous_closes>>
-----------------------------------------------------------------------------
NextDay ==
  /\ today < LastDate
  /\ today' = today + 1
  /\ UNCHANGED <<daily_closing_prices, saved, runVars, previous_closes>>

(* lifespan loads the prices of the latest date of the table.             *)
LatestPrices ==
  {p \in daily_closing_prices : \A q \in daily_closing_prices : q[2] <= p[2]}

StartServer ==
  /\ previous_closes' = LatestPrices
  /\ UNCHANGED <<daily_closing_prices, saved, runVars, today>>

UpdateStep ==
  Admitted \/ RateLimited \/ NoPrice \/ SavePrice \/ Checkpoint \/ Finish

ClosingNext ==
  \/ \E date \in Dates : StartUpdate(date)
  \/ Admitted \/ RateLimited \/ NoPrice \/ SavePrice \/ Checkpoint \/ Finish
  \/ Die \/ NextDay \/ StartServer

ClosingSpec == ClosingInit /\ [][ClosingNext]_closingVars

(* The limiter lets every call through in the end (OneNapSuffices in      *)
(* FyersRateLimiter), and every request returns, with whatever answer, *)
(* or raises.                                                             *)
FairClosingSpec == ClosingSpec /\ WF_closingVars(UpdateStep)
-----------------------------------------------------------------------------
(* The variables hold what the code stores in them. *)
ClosingTypeOK ==
  /\ daily_closing_prices \subseteq DailyClosingPrice
  /\ saved \subseteq Stocks \X {trading_date}
  /\ run \in {"idle", "waiting", "asking", "checkpoint", "finishing"}
  /\ run = "idle" => saved = {}
  /\ run \in {"waiting", "asking", "checkpoint"} =>
       index \in 1 .. Len(stocks_to_process)
  /\ trading_date \in Dates /\ today \in Dates
  /\ stocks_to_process \in Seq(Stocks)
  /\ successful \in Nat /\ failed \in Nat /\ retry_count \in 0 .. max_retries
  /\ previous_closes \subseteq daily_closing_prices

(* The counts the run prints at the end are right at any time: every stock *)
(* it has dealt with is counted once, and the successful ones are exactly  *)
(* those whose price is stored or about to be.                             *)
DealtWith ==
  {stocks_to_process[i] :
     i \in 1 .. (IF run = "checkpoint" THEN index ELSE index - 1)}

CountsAreRight ==
  run # "idle" =>
    /\ successful + failed = Cardinality(DealtWith)
    /\ successful =
         Cardinality({s \in DealtWith :
           <<s, trading_date>> \in daily_closing_prices \cup saved})

(* Whenever a request is made, the prices a crash would lose are fewer     *)
(* than a checkpoint holds, however many stocks have failed in between.    *)
CrashLosesLessThanCheckpoint ==
  run = "asking" => Cardinality(saved) < CHECKPOINT

(* A stock whose price is committed is never asked for again, by this run  *)
(* or one that resumes after a crash, nor one that is already saved.       *)
NeverAskedAgain ==
  run = "asking" => <<Stock, trading_date>> \notin daily_closing_prices \cup saved

(* Every run ends, whatever the API answers. *)
UpdateEnds == run # "idle" ~> run = "idle"
=============================================================================
