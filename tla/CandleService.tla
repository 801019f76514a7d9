---------------------------- MODULE CandleService ----------------------------
(***************************************************************************)
(* The candle engine of app/services/candle_service.py for one symbol: the *)
(* SymbolCandleState that CandleService keeps per symbol and the handler   *)
(* process_tick that turns market ticks into one-minute OHLC candles.      *)
(* Symbols never share state, and every operation on a symbol runs under   *)
(* its lock, so one symbol and atomic operations lose nothing.             *)
(*                                                                         *)
(* A time is a number of milliseconds since midnight IST of day 0.  The    *)
(* volume of a candle is always 0 in the code and is left out.             *)
(***************************************************************************)
EXTENDS Integers, Sequences

CONSTANTS
  Times,           \* the timestamps a tick may carry
  Prices,          \* the prices a tick may carry
  MAX_CANDLES,     \* max_candles_per_symbol, the maxlen of the deque
  None,            \* Python's None
  MaxLateness,     \* the feed: how far behind the newest timestamp a tick may be
  LateAfterClose,  \* the feed: may a session tick follow an after-hours tick?
  MaxTicks         \* bound: session ticks processed in one behavior

VARIABLES
  current_1m,      \* the forming candle, or None
  rolling_1m,      \* deque of closed candles, oldest first
  last_tick_time,  \* epoch second of the tick that set current_1m.close
  event,           \* the CandleEvent the last call returned, or None
  log,             \* history: the session ticks processed, in arrival order
  clock,           \* feed: the newest timestamp delivered
  shut             \* feed: the newest after-hours timestamp delivered, or -1

state == <<current_1m, rolling_1m, last_tick_time>>
feed  == <<clock, shut>>
vars  == <<state, event, log, feed>>
-----------------------------------------------------------------------------
(* The calendar. *)

SECOND == 1000
MINUTE == 60000
DAY    == 86400000

MARKET_OPEN_TIME  == 33300000    \* 09:15:00.000
MARKET_CLOSE_TIME == 55800000    \* 15:30:00.000

TimeOfDay(ts) == ts % DAY
EpochSecond(ts) == ts \div SECOND

(* get_bucket_timestamp floors to the start of the minute. *)
Bucket(ts) == MINUTE * (ts \div MINUTE)

(* Both ends of the session are inside it: 15:30:00.000 is a session tick. *)
InSession(ts) ==
  MARKET_OPEN_TIME <= TimeOfDay(ts) /\ TimeOfDay(ts) <= MARKET_CLOSE_TIME

AfterClose(ts) == TimeOfDay(ts) > MARKET_CLOSE_TIME

Tick == [ts : Times, ltp : Prices]

Candle == [timestamp : Nat, open : Prices, high : Prices, low : Prices,
           close : Prices, is_closed : BOOLEAN]

Event == [event_type : {"new", "update", "closed"},
          candle : Candle, closed_candle : Candle \cup {None}]

ASSUME ConstantsAssumption ==
  /\ Times \subseteq Nat
  /\ Prices \subseteq Int
  /\ MAX_CANDLES \in Nat \ {0}
  /\ MaxLateness \in 0 .. MARKET_OPEN_TIME  \* no tick arrives a session late
  /\ LateAfterClose \in BOOLEAN
  /\ MaxTicks \in Nat

ASSUME NoneAssumption == None \notin Candle /\ None \notin Event
-----------------------------------------------------------------------------
(* Operations on candles. *)

HigherOf(a, b) == IF a >= b THEN a ELSE b
LowerOf(a, b)  == IF a <= b THEN a ELSE b

NewCandle(t) ==
  [timestamp |-> Bucket(t.ts), open |-> t.ltp, high |-> t.ltp,
   low |-> t.ltp, close |-> t.ltp, is_closed |-> FALSE]

Finalized(c) == [c EXCEPT !.is_closed = TRUE]

(* The part of an update that every tick of the minute makes. *)
Stretched(c, ltp) ==
  [c EXCEPT !.high = HigherOf(@, ltp), !.low = LowerOf(@, ltp)]

(* Mutants of DequeAppend: no maxlen; a full deque refuses new candles. *)
DequeUnbounded(s, c) == Append(s, c)
DequeKeepsOldest(s, c) == IF Len(s) = MAX_CANDLES THEN s ELSE Append(s, c)

(* deque(maxlen=MAX_CANDLES).append: the oldest candle falls off the left. *)
DequeAppend(s, c) ==
  IF Len(s) = MAX_CANDLES THEN Append(Tail(s), c) ELSE Append(s, c)

(* The loop over rolling_1m stops at the first candle of the minute. *)
IsFirstMatch(s, b, i) ==
  /\ s[i].timestamp = b
  /\ \A j \in 1 .. (i - 1) : s[j].timestamp # b

(* Mutant of AmendHistory: a late tick also overwrites the close. *)
AmendClose(s, b, ltp) ==
  [i \in 1 .. Len(s) |->
     IF IsFirstMatch(s, b, i) THEN [Stretched(s[i], ltp) EXCEPT !.close = ltp]
                              ELSE s[i]]

AmendHistory(s, b, ltp) ==
  [i \in 1 .. Len(s) |-> IF IsFirstMatch(s, b, i) THEN Stretched(s[i], ltp)
                                                  ELSE s[i]]

(* Mutant of SetsClose: every tick of the minute updates the close. *)
SetsCloseAlways(t) == EpochSecond(t.ts) >= 0

(* A session tick updates the close only if it is not older than the tick  *)
(* that set it, at the resolution of a second.                             *)
SetsClose(t) == EpochSecond(t.ts) >= last_tick_time
-----------------------------------------------------------------------------
Init ==
  /\ current_1m = None
  /\ rolling_1m = <<>>
  /\ last_tick_time = 0
  /\ event = None
  /\ log = <<>>
  /\ clock = 0
  /\ shut = -1

(* What the feed may deliver next: ticks may arrive late by MaxLateness,   *)
(* and, unless LateAfterClose, no session tick follows an after-hours tick *)
(* with a later timestamp.                                                 *)
Deliver(t) ==
  /\ t.ts + MaxLateness >= clock
  /\ InSession(t.ts) => /\ LateAfterClose \/ t.ts > shut
                        /\ Len(log) < MaxTicks
  /\ clock' = HigherOf(clock, t.ts)
  /\ shut' = IF AfterClose(t.ts) THEN HigherOf(shut, t.ts) ELSE shut
  /\ log' = IF InSession(t.ts) THEN Append(log, t) ELSE log

(* Before 09:15, or after 15:30 with no candle open: nothing happens. *)
IgnoreTick(t) ==
  /\ ~InSession(t.ts)
  /\ ~AfterClose(t.ts) \/ current_1m = None
  /\ event' = None
  /\ UNCHANGED state

(* Mutant of CloseSession: a tick before the opening closes the candle too. *)
CloseOutsideSession(t) ==
  /\ ~InSession(t.ts)
  /\ current_1m # None
  /\ rolling_1m' = DequeAppend(rolling_1m, Finalized(current_1m))
  /\ current_1m' = None
  /\ event' = [event_type |-> "closed", candle |-> Finalized(current_1m),
               closed_candle |-> None]
  /\ UNCHANGED last_tick_time

(* The first tick after 15:30 finalizes the open candle. *)
CloseSession(t) ==
  /\ AfterClose(t.ts)
  /\ current_1m # None
  /\ rolling_1m' = DequeAppend(rolling_1m, Finalized(current_1m))
  /\ current_1m' = None
  /\ event' = [event_type |-> "closed", candle |-> Finalized(current_1m),
               closed_candle |-> None]
  /\ UNCHANGED last_tick_time

(* Case 1: no forming candle. *)
FirstTick(t) ==
  /\ InSession(t.ts)
  /\ current_1m = None
  /\ current_1m' = NewCandle(t)
  /\ last_tick_time' = EpochSecond(t.ts)
  /\ event' = [event_type |-> "new", candle |-> NewCandle(t),
               closed_candle |-> None]
  /\ UNCHANGED rolling_1m

(* Case 2: the tick belongs to the forming minute. *)
UpdateForming(t) ==
  /\ InSession(t.ts)
  /\ current_1m # None
  /\ Bucket(t.ts) = current_1m.timestamp
  /\ LET c == Stretched(current_1m, t.ltp)
     IN  IF SetsClose(t)
         THEN /\ current_1m' = [c EXCEPT !.close = t.ltp]
              /\ last_tick_time' = EpochSecond(t.ts)
         ELSE /\ current_1m' = c
              /\ UNCHANGED last_tick_time
  /\ event' = [event_type |-> "update", candle |-> current_1m',
               closed_candle |-> None]
  /\ UNCHANGED rolling_1m

(* Mutant of Rollover: any tick of another minute starts a new candle. *)
RolloverAlways(t) ==
  /\ InSession(t.ts)
  /\ current_1m # None
  /\ Bucket(t.ts) # current_1m.timestamp
  /\ rolling_1m' = DequeAppend(rolling_1m, Finalized(current_1m))
  /\ current_1m' = NewCandle(t)
  /\ last_tick_time' = EpochSecond(t.ts)
  /\ event' = [event_type |-> "new", candle |-> NewCandle(t),
               closed_candle |-> Finalized(current_1m)]

(* Case 3: a later minute starts; the forming candle is finalized. *)
Rollover(t) ==
  /\ InSession(t.ts)
  /\ current_1m # None
  /\ Bucket(t.ts) > current_1m.timestamp
  /\ rolling_1m' = DequeAppend(rolling_1m, Finalized(current_1m))
  /\ current_1m' = NewCandle(t)
  /\ last_tick_time' = EpochSecond(t.ts)
  /\ event' = [event_type |-> "new", candle |-> NewCandle(t),
               closed_candle |-> Finalized(current_1m)]

(* Case 4: a tick of an earlier minute stretches that minute's candle, if  *)
(* the deque still holds it, and returns the forming candle unchanged.     *)
LateTick(t) ==
  /\ InSession(t.ts)
  /\ current_1m # None
  /\ Bucket(t.ts) < current_1m.timestamp
  /\ rolling_1m' = AmendHistory(rolling_1m, Bucket(t.ts), t.ltp)
  /\ event' = [event_type |-> "update", candle |-> current_1m,
               closed_candle |-> None]
  /\ UNCHANGED <<current_1m, last_tick_time>>

ProcessTick(t) ==
  /\ Deliver(t)
  /\ \/ IgnoreTick(t)
     \/ CloseSession(t)
     \/ FirstTick(t)
     \/ UpdateForming(t)
     \/ Rollover(t)
     \/ LateTick(t)

(* clear_symbol and clear_all: the next tick creates a fresh state. *)
ClearSymbol ==
  /\ current_1m' = None
  /\ rolling_1m' = <<>>
  /\ last_tick_time' = 0
  /\ event' = None
  /\ log' = <<>>
  /\ UNCHANGED feed

Next == ClearSymbol \/ \E t \in Tick : ProcessTick(t)

Spec == Init /\ [][Next]_vars
-----------------------------------------------------------------------------
(* The variables hold what the code stores in them; the deque never grows  *)
(* past its maxlen.                                                        *)
TypeOK ==
  /\ current_1m \in Candle \cup {None}
  /\ rolling_1m \in Seq(Candle)
  /\ Len(rolling_1m) <= MAX_CANDLES
  /\ last_tick_time \in Nat
  /\ event \in Event \cup {None}
  /\ log \in Seq(Tick)
  /\ clock \in Nat
  /\ shut \in Nat \cup {-1}

(* What get_all_candles returns. *)
AllCandles ==
  rolling_1m \o (IF current_1m = None THEN <<>> ELSE <<current_1m>>)

(* The chart's candles are in strictly increasing time order: no minute    *)
(* appears twice, whatever the order in which ticks, late ticks and the    *)
(* session end arrive.  Consumers deduplicate by timestamp and draw the    *)
(* list as it is.                                                          *)
RollingOrdered ==
  /\ \A i, j \in 1 .. Len(rolling_1m) :
       i < j => rolling_1m[i].timestamp < rolling_1m[j].timestamp
  /\ current_1m # None =>
       \A i \in 1 .. Len(rolling_1m) :
         rolling_1m[i].timestamp < current_1m.timestamp

(* What makes RollingOrdered inductive: the forming candle belongs to a    *)
(* session and is not ahead of the feed; and when no candle forms, all the *)
(* closed ones are older than the newest after-hours tick, so that the     *)
(* session end was not applied to a candle of a later session.             *)
FeedInv ==
  /\ shut # -1 => AfterClose(shut)
  /\ current_1m # None => /\ InSession(current_1m.timestamp)
                          /\ current_1m.timestamp <= clock
  /\ current_1m = None =>
       \A i \in 1 .. Len(rolling_1m) : rolling_1m[i].timestamp < shut

OrderInv == TypeOK /\ RollingOrdered /\ FeedInv

(* Reference reading of the ticks of the minute b, as positions in log.  A *)
(* tick is on time when no tick of a later minute arrived before it.       *)
TicksOf(b) == {i \in 1 .. Len(log) : Bucket(log[i].ts) = b}

OnTime(i) == \A j \in 1 .. (i - 1) : Bucket(log[j].ts) <= Bucket(log[i].ts)

ClosingTick(b, i) ==
  /\ i \in TicksOf(b) /\ OnTime(i)
  /\ \A j \in TicksOf(b) : OnTime(j) =>
       \/ EpochSecond(log[j].ts) < EpochSecond(log[i].ts)
       \/ EpochSecond(log[j].ts) = EpochSecond(log[i].ts) /\ j <= i

IsCandleOf(c, b) ==
  LET ticks == TicksOf(b)
  IN  /\ \E i \in ticks : c.open = log[i].ltp /\ \A j \in ticks : i <= j
      /\ \E i \in ticks : c.high = log[i].ltp
      /\ \E i \in ticks : c.low = log[i].ltp
      /\ \A i \in ticks : c.low <= log[i].ltp /\ log[i].ltp <= c.high
      /\ \E i \in ticks : ClosingTick(b, i) /\ c.close = log[i].ltp

(* Every candle, forming or closed, is the candle of the ticks of its      *)
(* minute: open is the first to arrive, high and low are the extremes of   *)
(* all of them, late ones included, and close is the newest on-time tick,  *)
(* to the second.                                                          *)
CandlesMatchTicks ==
  \A k \in 1 .. Len(AllCandles) :
    /\ IsCandleOf(AllCandles[k], AllCandles[k].timestamp)
    /\ AllCandles[k].is_closed <=> k <= Len(rolling_1m)

(* A minute with an on-time tick has its candle, unless MAX_CANDLES later  *)
(* minutes have been closed since.                                         *)
NoMinuteLost ==
  \A i \in 1 .. Len(log) : OnTime(i) =>
    \/ \E k \in 1 .. Len(AllCandles) :
         AllCandles[k].timestamp = Bucket(log[i].ts)
    \/ /\ Len(rolling_1m) = MAX_CANDLES
       /\ \A k \in 1 .. MAX_CANDLES : rolling_1m[k].timestamp > Bucket(log[i].ts)

(* Once closed, a candle keeps its open and its close, and its range only  *)
(* widens: a late tick may stretch history but never rewrite it.           *)
ClosedCandleFrozen ==
  [][ \A i \in 1 .. Len(AllCandles), j \in 1 .. Len(rolling_1m') :
        LET old == AllCandles[i]
            new == rolling_1m'[j]
        IN  old.timestamp = new.timestamp =>
              /\ new.open = old.open /\ new.close = old.close
              /\ new.high >= old.high /\ new.low <= old.low ]_vars
=============================================================================
