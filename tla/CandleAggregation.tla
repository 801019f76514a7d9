--------------------------- MODULE CandleAggregation ---------------------------
(***************************************************************************)
(* What the chart endpoint makes of the candles of the engine: the frames  *)
(* of a higher timeframe, anchored at the opening of the market, and the   *)
(* merge with the history that FYERS returns (get_candles_for_timeframe,   *)
(* aggregate_candles, parse_fyers_history and merge_historical_and_live of *)
(* app/services/candle_service.py).  Nothing here changes the state.       *)
(***************************************************************************)
EXTENDS CandleService, Subsequences, SequencesExt

CONSTANTS
  TIMEFRAME_MINUTES,  \* timeframe -> its length in minutes; it has no "1D"
  HistoryTimes        \* bound: the timestamps of the candles of FYERS

ASSUME AggregationConstants ==
  /\ "1m" \in DOMAIN TIMEFRAME_MINUTES
  /\ \A tf \in DOMAIN TIMEFRAME_MINUTES : TIMEFRAME_MINUTES[tf] \in Nat \ {0}
  /\ "1D" \notin DOMAIN TIMEFRAME_MINUTES
  /\ HistoryTimes \subseteq Nat
-----------------------------------------------------------------------------
(* Mutant of FrameOf: frames are anchored at midnight. *)
FrameFromMidnight(ts, tf) ==
  LET length == MINUTE * TIMEFRAME_MINUTES[tf]
  IN  ts - (TimeOfDay(ts) % length)

(* get_timeframe_bucket: the start of the frame of a minute of a session. *)
FrameOf(ts, tf) ==
  LET length == MINUTE * TIMEFRAME_MINUTES[tf]
  IN  ts - ((TimeOfDay(ts) - MARKET_OPEN_TIME) % length)

(* The candles of one frame, in the order in which they were given. *)
Group(cs, f, tf) == Keep(cs, {i \in DOMAIN cs : FrameOf(cs[i].timestamp, tf) = f})

(* Mutant of IsComplete: one closed candle completes a frame. *)
IsCompleteEarly(group, tf) == group[1].is_closed

(* All the group is closed and it holds one candle per minute. *)
IsComplete(group, tf) ==
  /\ \A i \in DOMAIN group : group[i].is_closed
  /\ Len(group) >= TIMEFRAME_MINUTES[tf]

(* Mutant of FrameCandle: the close is that of the first minute. *)
FrameCandleFirstClose(group, f, tf) ==
  [timestamp |-> f, open |-> group[1].open, close |-> group[1].close,
   high |-> Max({group[i].high : i \in DOMAIN group}),
   low |-> Min({group[i].low : i \in DOMAIN group}),
   is_closed |-> IsComplete(group, tf)]

FrameCandle(group, f, tf) ==
  [timestamp |-> f, open |-> group[1].open, close |-> Last(group).close,
   high |-> Max({group[i].high : i \in DOMAIN group}),
   low |-> Min({group[i].low : i \in DOMAIN group}),
   is_closed |-> IsComplete(group, tf)]

(* aggregate_candles: a timeframe that is not in the table, "1D", returns  *)
(* the one-minute candles as they are.                                     *)
Aggregate(cs, tf) ==
  IF tf = "1m" \/ tf \notin DOMAIN TIMEFRAME_MINUTES THEN cs
  ELSE LET frames == Ascending({FrameOf(cs[i].timestamp, tf) : i \in DOMAIN cs})
       IN  [k \in DOMAIN frames |->
              FrameCandle(Group(cs, frames[k], tf), frames[k], tf)]

CandlesForTimeframe(tf) == Aggregate(AllCandles, tf)

Sorted(cs) == SortBy(cs, [i \in DOMAIN cs |-> cs[i].timestamp])

(* Mutant of Merge: nothing is left out of the history. *)
MergeAll(historical, live) == Sorted(historical \o live)

(* merge_historical_and_live: a live candle takes the place of the         *)
(* historical one of its bucket.                                           *)
Merge(historical, live) ==
  LET stamps == {live[i].timestamp : i \in DOMAIN live}
      older == Keep(historical, {i \in DOMAIN historical :
                                   historical[i].timestamp \notin stamps})
  IN  Sorted(older \o live)

(* parse_fyers_history: each row is a closed candle.  FYERS returns one    *)
(* row per bucket, oldest first; the prices tell nothing here.             *)
HistoricalCandle(ts) ==
  LET p == CHOOSE p \in Prices : TRUE
  IN  [timestamp |-> ts, open |-> p, high |-> p, low |-> p, close |-> p,
       is_closed |-> TRUE]

Histories(tf) ==
  LET frame(ts) == IF tf \in DOMAIN TIMEFRAME_MINUTES THEN FrameOf(ts, tf) ELSE ts
      rows == {frame(ts) : ts \in HistoryTimes}
  IN  {[k \in 1 .. Cardinality(S) |-> HistoricalCandle(Ascending(S)[k])] :
         S \in {T \in SUBSET rows : IsFiniteSet(T)}}
-----------------------------------------------------------------------------
Frames == DOMAIN TIMEFRAME_MINUTES \ {"1m"}

(* The ticks of a frame of which the engine still keeps the minute. *)
KeptTicks(f, tf) ==
  {i \in 1 .. Len(log) :
     /\ FrameOf(Bucket(log[i].ts), tf) = f
     /\ \E k \in 1 .. Len(AllCandles) : AllCandles[k].timestamp = Bucket(log[i].ts)}

(* Every frame of a higher timeframe is the candle of the ticks of the     *)
(* minutes the engine keeps of it: it opens with the first tick of its     *)
(* earliest minute, closes with the closing tick of its latest one, and    *)
(* its range is that of all of them, late ones included.                   *)
FramesMatchTicks ==
  \A tf \in Frames : \A c \in ToSet(CandlesForTimeframe(tf)) :
    LET ticks == KeptTicks(c.timestamp, tf)
        minutes == {Bucket(log[i].ts) : i \in ticks}
    IN  /\ \E i \in ticks : /\ c.open = log[i].ltp
                            /\ Bucket(log[i].ts) = Min(minutes)
                            /\ \A j \in TicksOf(Min(minutes)) : i <= j
        /\ \E i \in ticks : ClosingTick(Max(minutes), i) /\ c.close = log[i].ltp
        /\ c.high = Max({log[i].ltp : i \in ticks})
        /\ c.low = Min({log[i].ltp : i \in ticks})

(* A frame is reported closed exactly when each of its minutes has its     *)
(* closed candle: the code only counts them, which is right as long as no  *)
(* minute appears twice and no candle falls into a frame it is not of.     *)
ClosedFrameHasAllMinutes ==
  \A tf \in Frames : \A c \in ToSet(CandlesForTimeframe(tf)) :
    LET minutes == {c.timestamp + MINUTE * i : i \in 0 .. (TIMEFRAME_MINUTES[tf] - 1)}
    IN  /\ (TimeOfDay(c.timestamp) - MARKET_OPEN_TIME)
              % (MINUTE * TIMEFRAME_MINUTES[tf]) = 0
        /\ c.is_closed <=> \A m \in minutes :
             \E i \in 1 .. Len(rolling_1m) : rolling_1m[i].timestamp = m

(* Whatever history FYERS returns and at whatever moment the chart asks,   *)
(* the list it is given is strictly ordered in time, which the page needs  *)
(* to draw it, and misses no bucket of either source.                      *)
MergedOrdered ==
  \A tf \in DOMAIN TIMEFRAME_MINUTES \cup {"1D"} : \A historical \in Histories(tf) :
    LET live == CandlesForTimeframe(tf)
        merged == Merge(historical, live)
    IN  /\ \A i, j \in DOMAIN merged : i < j => merged[i].timestamp < merged[j].timestamp
        /\ {merged[i].timestamp : i \in DOMAIN merged} =
             {live[i].timestamp : i \in DOMAIN live}
               \cup {historical[i].timestamp : i \in DOMAIN historical}
=============================================================================
