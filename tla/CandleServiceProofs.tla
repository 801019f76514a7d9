------------------------- MODULE CandleServiceProofs -------------------------
(***************************************************************************)
(* Proofs about CandleService and CandleAggregation, for every set of tick *)
(* times, every set of prices, every maxlen, every number of ticks and     *)
(* every table of timeframes.                                              *)
(***************************************************************************)
EXTENDS CandleAggregation, SubsequencesProofs

(* What appending to the bounded deque returns: the old candles without    *)
(* the first k of them, k being 0 or 1, and the new one at the end.        *)
LEMMA DequeAppendLemma ==
  ASSUME NEW s \in Seq(Candle), NEW c \in Candle, Len(s) <= MAX_CANDLES
  PROVE  /\ DequeAppend(s, c) \in Seq(Candle)
         /\ Len(DequeAppend(s, c)) \in 1 .. MAX_CANDLES
         /\ DequeAppend(s, c)[Len(DequeAppend(s, c))] = c
         /\ \E k \in {0, 1} :
              /\ Len(DequeAppend(s, c)) = Len(s) + 1 - k
              /\ \A i \in 1 .. (Len(DequeAppend(s, c)) - 1) :
                   /\ i + k \in 1 .. Len(s)
                   /\ DequeAppend(s, c)[i] = s[i + k]
<1> DEFINE d == DequeAppend(s, c)
<1>1. CASE Len(s) = MAX_CANDLES
  <2>1. d = Append(Tail(s), c) /\ Len(s) # 0
    BY <1>1, ConstantsAssumption DEF DequeAppend
  <2>2. Tail(s) \in Seq(Candle) /\ Len(Tail(s)) = Len(s) - 1
    BY <2>1
  <2>3. d \in Seq(Candle) /\ Len(d) = Len(s) /\ d[Len(s)] = c
    BY <2>1, <2>2
  <2>4. \A i \in 1 .. (Len(s) - 1) : d[i] = s[i + 1]
    BY <2>1, <2>2
  <2> QED BY <2>1, <2>3, <2>4, <1>1
<1>2. CASE Len(s) # MAX_CANDLES
  <2>1. d = Append(s, c)
    BY <1>2 DEF DequeAppend
  <2>2. d \in Seq(Candle) /\ Len(d) = Len(s) + 1 /\ d[Len(s) + 1] = c
    BY <2>1
  <2>3. \A i \in 1 .. Len(s) : d[i] = s[i]
    BY <2>1
  <2> QED BY <2>2, <2>3, <1>2, ConstantsAssumption
<1> QED BY <1>1, <1>2

(* Widening a candle's range leaves a candle of the same minute.           *)
LEMMA StretchedLemma ==
  ASSUME NEW c \in Candle, NEW p \in Prices
  PROVE  /\ Stretched(c, p) \in Candle
         /\ Stretched(c, p).timestamp = c.timestamp
         /\ Stretched(c, p).open = c.open
         /\ Stretched(c, p).close = c.close
         /\ Stretched(c, p).high >= c.high
         /\ Stretched(c, p).low <= c.low
<1>1. c.high \in Prices /\ c.low \in Prices
  BY DEF Candle
<1>2. c.high \in Int /\ c.low \in Int /\ p \in Int
  BY <1>1, ConstantsAssumption
<1>3. /\ HigherOf(c.high, p) \in Prices /\ HigherOf(c.high, p) >= c.high
      /\ LowerOf(c.low, p) \in Prices /\ LowerOf(c.low, p) <= c.low
  BY <1>1, <1>2 DEF HigherOf, LowerOf
<1>4. /\ Stretched(c, p) \in Candle
      /\ Stretched(c, p).high = HigherOf(c.high, p)
      /\ Stretched(c, p).low = LowerOf(c.low, p)
  BY <1>3 DEF Stretched, Candle
<1>5. /\ Stretched(c, p).timestamp = c.timestamp
      /\ Stretched(c, p).open = c.open
      /\ Stretched(c, p).close = c.close
  BY DEF Stretched, Candle
<1> QED BY <1>3, <1>4, <1>5

(* Amending history keeps every candle in its place, its minute, its open  *)
(* and its close, and narrows no range.                                    *)
LEMMA AmendHistoryLemma ==
  ASSUME NEW s \in Seq(Candle), NEW b, NEW p \in Prices
  PROVE  /\ AmendHistory(s, b, p) \in Seq(Candle)
         /\ Len(AmendHistory(s, b, p)) = Len(s)
         /\ \A i \in 1 .. Len(s) :
              /\ AmendHistory(s, b, p)[i].timestamp = s[i].timestamp
              /\ AmendHistory(s, b, p)[i].open = s[i].open
              /\ AmendHistory(s, b, p)[i].close = s[i].close
              /\ AmendHistory(s, b, p)[i].high >= s[i].high
              /\ AmendHistory(s, b, p)[i].low <= s[i].low
<1> DEFINE a == AmendHistory(s, b, p)
<1>1. /\ DOMAIN a = 1 .. Len(s)
      /\ \A i \in 1 .. Len(s) : a[i] = s[i] \/ a[i] = Stretched(s[i], p)
  BY DEF AmendHistory
<1>2. \A i \in 1 .. Len(s) : s[i] \in Candle
  OBVIOUS
<1>3. \A i \in 1 .. Len(s) : a[i] \in Candle
  BY <1>1, <1>2, StretchedLemma
<1>4. a \in [1 .. Len(s) -> Candle]
  BY <1>3 DEF AmendHistory
<1>5. a \in Seq(Candle) /\ Len(a) = Len(s)
  BY <1>4
<1>6. \A i \in 1 .. Len(s) : s[i].high >= s[i].high /\ s[i].low <= s[i].low
  <2> SUFFICES ASSUME NEW i \in 1 .. Len(s)
               PROVE  s[i].high >= s[i].high /\ s[i].low <= s[i].low
    OBVIOUS
  <2>1. s[i].high \in Prices /\ s[i].low \in Prices
    BY <1>2 DEF Candle
  <2>2. s[i].high \in Int /\ s[i].low \in Int
    BY <2>1, ConstantsAssumption
  <2> QED BY <2>2
<1> QED BY <1>1, <1>2, <1>5, <1>6, StretchedLemma

(* A tick starts a candle, and the minute it belongs to is a session minute. *)
LEMMA NewCandleLemma ==
  ASSUME NEW t \in Tick
  PROVE  /\ NewCandle(t) \in Candle
         /\ NewCandle(t).timestamp = Bucket(t.ts)
         /\ Bucket(t.ts) \in Nat /\ Bucket(t.ts) <= t.ts
         /\ InSession(t.ts) => InSession(Bucket(t.ts))
         /\ EpochSecond(t.ts) \in Nat
<1>1. t.ts \in Nat /\ t.ltp \in Prices
  BY ConstantsAssumption DEF Tick
<1>2. Bucket(t.ts) \in Nat /\ Bucket(t.ts) <= t.ts
  BY <1>1 DEF Bucket, MINUTE
<1>3. InSession(t.ts) => InSession(Bucket(t.ts))
  BY <1>1 DEF Bucket, MINUTE, InSession, TimeOfDay, DAY, MARKET_OPEN_TIME,
              MARKET_CLOSE_TIME
<1>4. EpochSecond(t.ts) \in Nat
  BY <1>1 DEF EpochSecond, SECOND
<1> QED BY <1>1, <1>2, <1>3, <1>4 DEF NewCandle, Candle

(* A session minute later than an after-hours instant is at least the time *)
(* from midnight to the opening away from it.                              *)
LEMMA OvernightLemma ==
  ASSUME NEW u \in Nat, NEW s \in Nat, AfterClose(u), InSession(s), s > u
  PROVE  s > u + MARKET_OPEN_TIME /\ Bucket(s) > u
BY DEF AfterClose, InSession, TimeOfDay, DAY, Bucket, MINUTE,
       MARKET_OPEN_TIME, MARKET_CLOSE_TIME
-----------------------------------------------------------------------------
(* What a delivered tick says of the feed: its time and price are typed,   *)
(* and the clock is not behind it.                                         *)
LEMMA DeliverLemma ==
  ASSUME TypeOK, NEW t \in Tick, Deliver(t)
  PROVE  /\ t.ts \in Nat /\ t.ltp \in Prices
         /\ clock' \in Nat /\ clock' >= clock /\ clock' >= t.ts
         /\ t.ts + MARKET_OPEN_TIME >= clock
         /\ shut' \in Nat \cup {-1} /\ shut' >= shut
         /\ log' \in Seq(Tick)
<1>1. t.ts \in Nat /\ t.ltp \in Prices
  BY ConstantsAssumption DEF Tick
<1>2. MaxLateness \in 0 .. MARKET_OPEN_TIME
  BY ConstantsAssumption
<1>3. clock \in Nat /\ shut \in Nat \cup {-1} /\ log \in Seq(Tick)
  BY DEF TypeOK
<1>4. clock' \in Nat /\ clock' >= clock /\ clock' >= t.ts
  BY <1>1, <1>3 DEF Deliver, HigherOf
<1>5. t.ts + MARKET_OPEN_TIME >= clock
  <2>1. t.ts + MaxLateness >= clock
    BY DEF Deliver
  <2>2. MARKET_OPEN_TIME \in Int
    BY SMT DEF MARKET_OPEN_TIME
  <2> QED BY <1>1, <1>2, <1>3, <2>1, <2>2
<1>6. shut' \in Nat \cup {-1} /\ shut' >= shut
  BY <1>1, <1>3 DEF Deliver, HigherOf
<1>7. log' \in Seq(Tick)
  BY <1>3 DEF Deliver
<1> QED BY <1>1, <1>4, <1>5, <1>6, <1>7

(* A finalized candle is a candle of the same minute with the same prices. *)
LEMMA FinalizedLemma ==
  ASSUME NEW c \in Candle
  PROVE  /\ Finalized(c) \in Candle
         /\ Finalized(c).timestamp = c.timestamp
         /\ Finalized(c).open = c.open /\ Finalized(c).close = c.close
         /\ Finalized(c).high = c.high /\ Finalized(c).low = c.low
BY DEF Finalized, Candle

(* Every call of process_tick keeps the types and the bound of the deque.  *)
LEMMA TypeOKStep == TypeOK /\ [Next]_vars => TypeOK'
<1> SUFFICES ASSUME TypeOK, [Next]_vars
             PROVE  TypeOK'
  OBVIOUS
<1> USE DEF state, feed
<1>1. CASE ClearSymbol
  BY <1>1, ConstantsAssumption DEF ClearSymbol, TypeOK
<1>2. ASSUME NEW t \in Tick, ProcessTick(t)
      PROVE  TypeOK'
  <2>1. Deliver(t)
    BY <1>2 DEF ProcessTick
  <2>2. clock' \in Nat /\ shut' \in Nat \cup {-1} /\ log' \in Seq(Tick)
    BY <2>1, DeliverLemma
  <2>3. NewCandle(t) \in Candle /\ EpochSecond(t.ts) \in Nat
    BY NewCandleLemma
  <2>4. t.ltp \in Prices
    BY <2>1, DeliverLemma
  <2>5. current_1m # None => current_1m \in Candle
    BY DEF TypeOK
  <2>6. CASE IgnoreTick(t)
    BY <2>2, <2>6 DEF IgnoreTick, TypeOK
  <2>7. CASE CloseSession(t)
    <3>1. Finalized(current_1m) \in Candle
      BY <2>5, <2>7, FinalizedLemma DEF CloseSession
    <3>2. rolling_1m' \in Seq(Candle) /\ Len(rolling_1m') <= MAX_CANDLES
      BY <3>1, <2>7, DequeAppendLemma, ConstantsAssumption
         DEF CloseSession, TypeOK
    <3>3. event' \in Event
      BY <3>1, <2>7 DEF CloseSession, Event
    <3> QED BY <3>2, <3>3, <2>2, <2>7 DEF CloseSession, TypeOK
  <2>8. CASE FirstTick(t)
    <3>1. event' \in Event
      BY <2>3, <2>8 DEF FirstTick, Event
    <3> QED BY <3>1, <2>2, <2>3, <2>8 DEF FirstTick, TypeOK
  <2>9. CASE UpdateForming(t)
    <3>1. current_1m \in Candle /\ Stretched(current_1m, t.ltp) \in Candle
      BY <2>4, <2>5, <2>9, StretchedLemma DEF UpdateForming
    <3>2. [Stretched(current_1m, t.ltp) EXCEPT !.close = t.ltp] \in Candle
      BY <3>1, <2>4 DEF Candle
    <3>3. current_1m' \in Candle /\ last_tick_time' \in Nat
      BY <3>1, <3>2, <2>3, <2>9 DEF UpdateForming, TypeOK
    <3>4. event' \in Event
      BY <3>3, <2>9 DEF UpdateForming, Event
    <3> QED BY <3>3, <3>4, <2>2, <2>9 DEF UpdateForming, TypeOK
  <2>10. CASE Rollover(t)
    <3>1. Finalized(current_1m) \in Candle
      BY <2>5, <2>10, FinalizedLemma DEF Rollover
    <3>2. rolling_1m' \in Seq(Candle) /\ Len(rolling_1m') <= MAX_CANDLES
      BY <3>1, <2>10, DequeAppendLemma, ConstantsAssumption
         DEF Rollover, TypeOK
    <3>3. event' \in Event
      BY <3>1, <2>3, <2>10 DEF Rollover, Event
    <3> QED BY <3>2, <3>3, <2>2, <2>3, <2>10 DEF Rollover, TypeOK
  <2>11. CASE LateTick(t)
    <3>1. rolling_1m' \in Seq(Candle) /\ Len(rolling_1m') = Len(rolling_1m)
      BY <2>4, <2>11, AmendHistoryLemma DEF LateTick, TypeOK
    <3>2. event' \in Event
      BY <2>5, <2>11 DEF LateTick, Event
    <3> QED BY <3>1, <3>2, <2>2, <2>11 DEF LateTick, TypeOK
  <2> QED BY <1>2, <2>6, <2>7, <2>8, <2>9, <2>10, <2>11 DEF ProcessTick
<1>3. CASE UNCHANGED vars
  BY <1>3 DEF vars, TypeOK
<1> QED BY <1>1, <1>2, <1>3 DEF Next

(* The variables of the candle engine keep their types, and the deque      *)
(* never exceeds its maxlen, under every feed.                             *)
THEOREM TypeCorrect == Spec => []TypeOK
<1>1. Init => TypeOK
  BY ConstantsAssumption DEF Init, TypeOK
<1> QED BY <1>1, TypeOKStep, PTL DEF Spec
-----------------------------------------------------------------------------
(* A candle appended to the deque, when it is later than all of it, leaves *)
(* the deque ordered, and everything in it no later than that candle.      *)
LEMMA AppendOrderedLemma ==
  ASSUME NEW s \in Seq(Candle), NEW c \in Candle, Len(s) <= MAX_CANDLES,
         \A i, j \in 1 .. Len(s) : i < j => s[i].timestamp < s[j].timestamp,
         \A i \in 1 .. Len(s) : s[i].timestamp < c.timestamp
  PROVE  LET d == DequeAppend(s, c)
         IN  /\ \A i, j \in 1 .. Len(d) :
                  i < j => d[i].timestamp < d[j].timestamp
             /\ \A i \in 1 .. Len(d) : d[i].timestamp <= c.timestamp
<1> DEFINE d == DequeAppend(s, c)
<1>1. /\ Len(d) \in Nat /\ d[Len(d)] = c
      /\ \E k \in {0, 1} :
           \A i \in 1 .. (Len(d) - 1) : i + k \in 1 .. Len(s) /\ d[i] = s[i + k]
  <2>1. /\ Len(d) \in 1 .. MAX_CANDLES /\ d[Len(d)] = c
        /\ \E k \in {0, 1} :
             /\ Len(d) = Len(s) + 1 - k
             /\ \A i \in 1 .. (Len(d) - 1) :
                  i + k \in 1 .. Len(s) /\ d[i] = s[i + k]
    BY DequeAppendLemma, Zenon
  <2> QED BY <2>1, ConstantsAssumption
<1>2. PICK k \in {0, 1} :
        \A i \in 1 .. (Len(d) - 1) : i + k \in 1 .. Len(s) /\ d[i] = s[i + k]
  BY <1>1
<1>3. c.timestamp \in Nat /\ \A i \in 1 .. Len(s) : s[i].timestamp \in Nat
  <2>1. \A i \in 1 .. Len(s) : s[i] \in Candle
    OBVIOUS
  <2> QED BY <2>1 DEF Candle
<1> HIDE DEF d
<1>4. \A i \in 1 .. (Len(d) - 1) : d[i].timestamp < c.timestamp
  BY <1>2
<1>5. ASSUME NEW i \in 1 .. Len(d), NEW j \in 1 .. Len(d), i < j
      PROVE  d[i].timestamp < d[j].timestamp
  <2>1. CASE j = Len(d)
    BY <2>1, <1>1, <1>4, <1>5
  <2>2. CASE j # Len(d)
    <3>1. i \in 1 .. (Len(d) - 1) /\ j \in 1 .. (Len(d) - 1)
      BY <2>2, <1>1, <1>5
    <3>2. i + k \in 1 .. Len(s) /\ j + k \in 1 .. Len(s) /\ i + k < j + k
      BY <3>1, <1>2, <1>5
    <3> QED BY <3>1, <3>2, <1>2
  <2> QED BY <2>1, <2>2
<1>6. \A i \in 1 .. Len(d) : d[i].timestamp <= c.timestamp
  <2> SUFFICES ASSUME NEW i \in 1 .. Len(d)
               PROVE  d[i].timestamp <= c.timestamp
    OBVIOUS
  <2>1. CASE i = Len(d)
    BY <2>1, <1>1, <1>3
  <2>2. CASE i # Len(d)
    <3>1. i \in 1 .. (Len(d) - 1)
      BY <2>2, <1>1
    <3>2. i + k \in 1 .. Len(s) /\ d[i] = s[i + k]
      BY <3>1, <1>2
    <3> QED BY <3>2, <1>3
  <2> QED BY <2>1, <2>2
<1> QED BY <1>5, <1>6 DEF d

(* Nothing is out of order in a fresh state.                               *)
LEMMA OrderInvInit == Init => OrderInv
BY ConstantsAssumption DEF Init, OrderInv, TypeOK, RollingOrdered, FeedInv

(* Every call keeps the order, unless a session tick follows an after-     *)
(* hours tick: one step per case of process_tick.                          *)
LEMMA OrderInvStep ==
  ASSUME ~LateAfterClose, OrderInv, [Next]_vars
  PROVE  OrderInv'
<1>1. TypeOK /\ RollingOrdered /\ FeedInv
  BY DEF OrderInv
<1>2. TypeOK'
  BY <1>1, TypeOKStep
<1>3. /\ \A i \in 1 .. Len(rolling_1m) : rolling_1m[i].timestamp \in Nat
      /\ current_1m # None => /\ current_1m \in Candle
                              /\ current_1m.timestamp \in Nat
  <2>1. \A i \in 1 .. Len(rolling_1m) : rolling_1m[i] \in Candle
    BY <1>1 DEF TypeOK
  <2>2. current_1m # None => current_1m \in Candle
    BY <1>1 DEF TypeOK
  <2> QED BY <2>1, <2>2 DEF Candle
<1>4. CASE ClearSymbol
  BY <1>1, <1>2, <1>4 DEF ClearSymbol, OrderInv, RollingOrdered, FeedInv, feed
<1>5. CASE UNCHANGED vars
  BY <1>1, <1>2, <1>5 DEF vars, state, feed, OrderInv, RollingOrdered, FeedInv
<1>6. ASSUME NEW t \in Tick, ProcessTick(t)
      PROVE  RollingOrdered' /\ FeedInv'
  <2>1. Deliver(t)
    BY <1>6 DEF ProcessTick
  <2>2. /\ t.ts \in Nat /\ t.ltp \in Prices
        /\ clock' \in Nat /\ clock' >= clock /\ clock' >= t.ts
        /\ t.ts + MARKET_OPEN_TIME >= clock
        /\ shut' \in Nat \cup {-1} /\ shut' >= shut
    BY <1>1, <2>1, DeliverLemma
  <2>3. clock \in Nat /\ shut \in Nat \cup {-1}
    BY <1>1 DEF TypeOK
  <2>4. shut' # -1 => AfterClose(shut')
    <3>1. shut' = shut \/ (AfterClose(t.ts) /\ shut' = t.ts)
      BY <2>1, <2>2, <2>3 DEF Deliver, HigherOf
    <3> QED BY <3>1, <1>1 DEF FeedInv
  <2>5. AfterClose(t.ts) => shut' >= t.ts
    BY <2>1, <2>2, <2>3 DEF Deliver, HigherOf
  <2>6. /\ NewCandle(t).timestamp = Bucket(t.ts)
        /\ Bucket(t.ts) \in Nat /\ Bucket(t.ts) <= t.ts
        /\ InSession(t.ts) => InSession(Bucket(t.ts))
    BY NewCandleLemma
  <2>7. CASE IgnoreTick(t)
    <3>1. UNCHANGED <<current_1m, rolling_1m>>
      BY <2>7 DEF IgnoreTick, state
    <3>2. RollingOrdered'
      BY <3>1, <1>1 DEF RollingOrdered
    <3>3. current_1m' # None => /\ InSession(current_1m'.timestamp)
                                /\ current_1m'.timestamp <= clock'
      BY <3>1, <1>1, <1>3, <2>2, <2>3 DEF FeedInv
    <3>4. current_1m' = None =>
            \A i \in 1 .. Len(rolling_1m') : rolling_1m'[i].timestamp < shut'
      BY <3>1, <1>1, <1>3, <2>2, <2>3 DEF FeedInv
    <3> QED BY <3>2, <3>3, <3>4, <2>4 DEF FeedInv
  <2>8. CASE CloseSession(t)
    <3>1. /\ AfterClose(t.ts) /\ current_1m # None /\ current_1m' = None
          /\ rolling_1m' = DequeAppend(rolling_1m, Finalized(current_1m))
      BY <2>8 DEF CloseSession
    <3>2. /\ Finalized(current_1m) \in Candle
          /\ Finalized(current_1m).timestamp = current_1m.timestamp
      BY <3>1, <1>3, FinalizedLemma
    <3>3. /\ \A i, j \in 1 .. Len(rolling_1m') :
               i < j => rolling_1m'[i].timestamp < rolling_1m'[j].timestamp
          /\ \A i \in 1 .. Len(rolling_1m') :
               rolling_1m'[i].timestamp <= current_1m.timestamp
      BY <1>1, <3>1, <3>2, AppendOrderedLemma DEF RollingOrdered, TypeOK
    <3>4. current_1m.timestamp < t.ts
      <4>1. /\ InSession(current_1m.timestamp) /\ current_1m.timestamp \in Nat
            /\ current_1m.timestamp <= clock
        BY <1>1, <1>3, <3>1 DEF FeedInv
      <4>2. current_1m.timestamp > t.ts
              => current_1m.timestamp > t.ts + MARKET_OPEN_TIME
        BY <4>1, <3>1, <2>2, OvernightLemma
      <4>3. MARKET_OPEN_TIME \in Int
        BY SMT DEF MARKET_OPEN_TIME
      <4>4. current_1m.timestamp # t.ts
        BY <3>1, <4>1, <2>2, SMT DEF AfterClose, InSession, TimeOfDay, DAY,
                                     MARKET_CLOSE_TIME
      <4> QED BY <4>1, <4>2, <4>3, <4>4, <2>2, <2>3
    <3>5. \A i \in 1 .. Len(rolling_1m') : rolling_1m'[i].timestamp < shut'
      <4>1. \A i \in 1 .. Len(rolling_1m') : rolling_1m'[i] \in Candle
        BY <1>2 DEF TypeOK
      <4>2. \A i \in 1 .. Len(rolling_1m') : rolling_1m'[i].timestamp \in Nat
        BY <4>1 DEF Candle
      <4> QED BY <4>2, <3>1, <3>3, <3>4, <1>3, <2>2, <2>5
    <3> QED BY <3>1, <3>3, <3>5, <2>4 DEF RollingOrdered, FeedInv
  <2>9. CASE FirstTick(t)
    <3>1. /\ InSession(t.ts) /\ current_1m = None
          /\ current_1m' = NewCandle(t) /\ rolling_1m' = rolling_1m
      BY <2>9 DEF FirstTick
    <3>2. \A i \in 1 .. Len(rolling_1m) : rolling_1m[i].timestamp < Bucket(t.ts)
      <4>1. \A i \in 1 .. Len(rolling_1m) : rolling_1m[i].timestamp < shut
        BY <1>1, <3>1 DEF FeedInv
      <4>2. CASE shut = -1
        BY <4>1, <4>2, <1>3
      <4>3. CASE shut # -1
        <5>1. shut \in Nat /\ AfterClose(shut) /\ t.ts > shut
          BY <4>3, <1>1, <2>1, <2>3, <3>1 DEF FeedInv, Deliver
        <5>2. Bucket(t.ts) > shut
          BY <5>1, <3>1, <2>2, OvernightLemma
        <5> QED BY <4>1, <5>1, <5>2, <1>3, <2>6
      <4> QED BY <4>2, <4>3
    <3>3. current_1m'.timestamp <= clock'
      BY <3>1, <2>2, <2>6
    <3>4. InSession(current_1m'.timestamp)
      BY <3>1, <2>6
    <3>5. current_1m' # None
      BY <3>1, NewCandleLemma, NoneAssumption
    <3> QED BY <3>1, <3>2, <3>3, <3>4, <3>5, <2>4, <2>6, <1>1
            DEF RollingOrdered, FeedInv
  <2>10. CASE UpdateForming(t)
    <3>1. /\ current_1m # None /\ rolling_1m' = rolling_1m
          /\ LET c == Stretched(current_1m, t.ltp)
             IN  current_1m' = c \/ current_1m' = [c EXCEPT !.close = t.ltp]
      BY <2>10 DEF UpdateForming
    <3>2. /\ Stretched(current_1m, t.ltp) \in Candle
          /\ Stretched(current_1m, t.ltp).timestamp = current_1m.timestamp
      BY <3>1, <1>3, <2>2, StretchedLemma
    <3>3. current_1m' \in Candle /\ current_1m'.timestamp = current_1m.timestamp
      BY <3>1, <3>2, <2>2 DEF Candle
    <3>4. current_1m' # None
      BY <3>3, NoneAssumption
    <3>5. InSession(current_1m'.timestamp) /\ current_1m'.timestamp <= clock'
      BY <3>1, <3>3, <1>1, <1>3, <2>2, <2>3 DEF FeedInv
    <3> QED BY <3>1, <3>3, <3>4, <3>5, <2>4, <1>1 DEF RollingOrdered, FeedInv
  <2>11. CASE Rollover(t)
    <3>1. /\ InSession(t.ts) /\ current_1m # None
          /\ Bucket(t.ts) > current_1m.timestamp
          /\ current_1m' = NewCandle(t)
          /\ rolling_1m' = DequeAppend(rolling_1m, Finalized(current_1m))
      BY <2>11 DEF Rollover
    <3>2. /\ Finalized(current_1m) \in Candle
          /\ Finalized(current_1m).timestamp = current_1m.timestamp
      BY <3>1, <1>3, FinalizedLemma
    <3>3. /\ \A i, j \in 1 .. Len(rolling_1m') :
               i < j => rolling_1m'[i].timestamp < rolling_1m'[j].timestamp
          /\ \A i \in 1 .. Len(rolling_1m') :
               rolling_1m'[i].timestamp <= current_1m.timestamp
      BY <1>1, <3>1, <3>2, AppendOrderedLemma DEF RollingOrdered, TypeOK
    <3>4. \A i \in 1 .. Len(rolling_1m') : rolling_1m'[i].timestamp \in Nat
      <4>1. \A i \in 1 .. Len(rolling_1m') : rolling_1m'[i] \in Candle
        BY <1>2 DEF TypeOK
      <4> QED BY <4>1 DEF Candle
    <3>5. \A i \in 1 .. Len(rolling_1m') :
            rolling_1m'[i].timestamp < current_1m'.timestamp
      BY <3>1, <3>3, <3>4, <1>3, <2>6
    <3>6. /\ current_1m' # None /\ InSession(current_1m'.timestamp)
          /\ current_1m'.timestamp <= clock'
      BY <3>1, <2>2, <2>6, NewCandleLemma, NoneAssumption
    <3> QED BY <3>3, <3>5, <3>6, <2>4 DEF RollingOrdered, FeedInv
  <2>12. CASE LateTick(t)
    <3>1. /\ current_1m # None /\ current_1m' = current_1m
          /\ rolling_1m' = AmendHistory(rolling_1m, Bucket(t.ts), t.ltp)
      BY <2>12 DEF LateTick
    <3>2. /\ Len(rolling_1m') = Len(rolling_1m)
          /\ \A i \in 1 .. Len(rolling_1m) :
               rolling_1m'[i].timestamp = rolling_1m[i].timestamp
      BY <3>1, <1>1, <2>2, AmendHistoryLemma DEF TypeOK
    <3>3. InSession(current_1m'.timestamp) /\ current_1m'.timestamp <= clock'
      BY <3>1, <1>1, <1>3, <2>2, <2>3 DEF FeedInv
    <3> QED BY <3>1, <3>2, <3>3, <2>4, <1>1 DEF RollingOrdered, FeedInv
  <2> QED BY <1>6, <2>7, <2>8, <2>9, <2>10, <2>11, <2>12 DEF ProcessTick
<1>7. CASE \E t \in Tick : ProcessTick(t)
  BY <1>2, <1>6, <1>7 DEF OrderInv
<1> QED BY <1>4, <1>5, <1>7 DEF Next

(* When no session tick follows an after-hours tick, the candles are in    *)
(* strictly increasing time order and no minute appears twice, for every   *)
(* feed whose ticks are late by less than a night.                         *)
THEOREM CandlesOrdered == ASSUME ~LateAfterClose PROVE Spec => []RollingOrdered
<1>1. OrderInv /\ [Next]_vars => OrderInv'
  BY OrderInvStep
<1>2. OrderInv => RollingOrdered
  BY DEF OrderInv
<1> QED BY OrderInvInit, <1>1, <1>2, PTL DEF Spec

(* A candle that is in the deque after a step and was a candle before it   *)
(* has the open and the close it had and at least its range.               *)
LEMMA FrozenStep ==
  ASSUME TypeOK, RollingOrdered, [Next]_vars,
         NEW i \in 1 .. Len(AllCandles), NEW j \in 1 .. Len(rolling_1m'),
         AllCandles[i].timestamp = rolling_1m'[j].timestamp
  PROVE  /\ rolling_1m'[j].open = AllCandles[i].open
         /\ rolling_1m'[j].close = AllCandles[i].close
         /\ rolling_1m'[j].high >= AllCandles[i].high
         /\ rolling_1m'[j].low <= AllCandles[i].low
<1> DEFINE n == Len(rolling_1m)
<1>1. /\ rolling_1m \in Seq(Candle) /\ n \in Nat /\ n <= MAX_CANDLES
      /\ current_1m # None => current_1m \in Candle
  BY DEF TypeOK
<1>2. \/ i \in 1 .. n /\ AllCandles[i] = rolling_1m[i]
      \/ i = n + 1 /\ current_1m # None /\ AllCandles[i] = current_1m
  <2>1. CASE current_1m = None
    BY <2>1, <1>1 DEF AllCandles
  <2>2. CASE current_1m # None
    BY <2>2, <1>1 DEF AllCandles
  <2> QED BY <2>1, <2>2
<1>3. AllCandles[i] \in Candle
  BY <1>1, <1>2
<1>4. AllCandles[i].high >= AllCandles[i].high /\ AllCandles[i].low <= AllCandles[i].low
  <2>1. AllCandles[i].high \in Prices /\ AllCandles[i].low \in Prices
    BY <1>3 DEF Candle
  <2>2. AllCandles[i].high \in Int /\ AllCandles[i].low \in Int
    BY <2>1, ConstantsAssumption
  <2> QED BY <2>2
<1>5. /\ \A k \in 1 .. n : rolling_1m[k].timestamp \in Nat
      /\ current_1m # None => current_1m.timestamp \in Nat
  <2>1. \A k \in 1 .. n : rolling_1m[k] \in Candle
    BY <1>1
  <2> QED BY <1>1, <2>1 DEF Candle
<1>6. ASSUME NEW k \in 1 .. n, rolling_1m[k].timestamp = AllCandles[i].timestamp
      PROVE  AllCandles[i] = rolling_1m[k]
  <2>1. CASE i = n + 1 /\ current_1m # None /\ AllCandles[i] = current_1m
    BY <2>1, <1>5, <1>6 DEF RollingOrdered
  <2>2. CASE i \in 1 .. n /\ AllCandles[i] = rolling_1m[i]
    <3>1. ~(i < k) /\ ~(k < i)
      BY <2>2, <1>5, <1>6 DEF RollingOrdered
    <3> QED BY <3>1, <2>2, <1>1
  <2> QED BY <1>2, <2>1, <2>2
<1>7. CASE rolling_1m' = rolling_1m
  BY <1>7, <1>6, <1>4
<1>8. CASE current_1m # None
           /\ rolling_1m' = DequeAppend(rolling_1m, Finalized(current_1m))
  <2> DEFINE d == DequeAppend(rolling_1m, Finalized(current_1m))
  <2>1. /\ Finalized(current_1m) \in Candle
        /\ Finalized(current_1m).timestamp = current_1m.timestamp
        /\ Finalized(current_1m).open = current_1m.open
        /\ Finalized(current_1m).close = current_1m.close
        /\ Finalized(current_1m).high = current_1m.high
        /\ Finalized(current_1m).low = current_1m.low
    BY <1>1, <1>8, FinalizedLemma
  <2>2. /\ Len(d) \in 1 .. MAX_CANDLES /\ d[Len(d)] = Finalized(current_1m)
        /\ \E k \in {0, 1} :
             /\ Len(d) = n + 1 - k
             /\ \A m \in 1 .. (Len(d) - 1) :
                  m + k \in 1 .. n /\ d[m] = rolling_1m[m + k]
    BY <1>1, <2>1, DequeAppendLemma, Zenon
  <2> HIDE DEF d
  <2>3. CASE j = Len(d)
    <3>1. rolling_1m'[j] = Finalized(current_1m)
      BY <1>8, <2>2, <2>3 DEF d
    <3>2. AllCandles[i] = current_1m
      <4>1. ~(i \in 1 .. n /\ AllCandles[i] = rolling_1m[i])
        BY <3>1, <2>1, <1>5, <1>8 DEF RollingOrdered
      <4> QED BY <4>1, <1>2
    <3> QED BY <3>1, <3>2, <2>1, <1>4
  <2>4. CASE j # Len(d)
    <3>1. PICK k \in 1 .. n : rolling_1m'[j] = rolling_1m[k]
      <4>1. j \in 1 .. (Len(d) - 1)
        BY <2>4, <2>2, <1>8, ConstantsAssumption DEF d
      <4> QED BY <4>1, <2>2, <1>8 DEF d
    <3>2. rolling_1m'[j] = AllCandles[i]
      BY <3>1, <1>6
    <3> QED BY <3>2, <1>4
  <2> QED BY <2>3, <2>4
<1>9. ASSUME NEW t \in Tick, LateTick(t)
      PROVE  /\ rolling_1m'[j].open = AllCandles[i].open
             /\ rolling_1m'[j].close = AllCandles[i].close
             /\ rolling_1m'[j].high >= AllCandles[i].high
             /\ rolling_1m'[j].low <= AllCandles[i].low
  <2>1. t.ltp \in Prices
    BY ConstantsAssumption DEF Tick
  <2>2. /\ Len(rolling_1m') = n
        /\ \A k \in 1 .. n :
             /\ rolling_1m'[k].timestamp = rolling_1m[k].timestamp
             /\ rolling_1m'[k].open = rolling_1m[k].open
             /\ rolling_1m'[k].close = rolling_1m[k].close
             /\ rolling_1m'[k].high >= rolling_1m[k].high
             /\ rolling_1m'[k].low <= rolling_1m[k].low
    BY <1>1, <1>9, <2>1, AmendHistoryLemma DEF LateTick
  <2>3. j \in 1 .. n /\ AllCandles[i] = rolling_1m[j]
    BY <2>2, <1>6
  <2> QED BY <2>2, <2>3
<1>10. CASE ClearSymbol
  <2>1. rolling_1m' = <<>>
    BY <1>10 DEF ClearSymbol
  <2> QED BY <2>1
<1>11. ASSUME NEW t \in Tick, ProcessTick(t)
       PROVE  \/ rolling_1m' = rolling_1m
              \/ /\ current_1m # None
                 /\ rolling_1m' = DequeAppend(rolling_1m, Finalized(current_1m))
              \/ LateTick(t)
  BY <1>11 DEF ProcessTick, IgnoreTick, CloseSession, FirstTick, UpdateForming,
               Rollover, state
<1>12. CASE UNCHANGED vars
  BY <1>12, <1>7 DEF vars, state
<1> QED BY <1>7, <1>8, <1>9, <1>10, <1>11, <1>12 DEF Next

(* Under the same feeds, closed candles keep their open and close for ever *)
(* and only widen their range.                                             *)
THEOREM HistoryFrozen == ASSUME ~LateAfterClose PROVE Spec => ClosedCandleFrozen
<1>1. OrderInv /\ [Next]_vars => OrderInv'
  BY OrderInvStep
<1>2. OrderInv => TypeOK /\ RollingOrdered
  BY DEF OrderInv
<1>3. OrderInv /\ [Next]_vars =>
        [ \A i \in 1 .. Len(AllCandles), j \in 1 .. Len(rolling_1m') :
            LET old == AllCandles[i]
                new == rolling_1m'[j]
            IN  old.timestamp = new.timestamp =>
                  /\ new.open = old.open /\ new.close = old.close
                  /\ new.high >= old.high /\ new.low <= old.low ]_vars
  BY <1>2, FrozenStep
<1> QED BY OrderInvInit, <1>1, <1>3, PTL DEF Spec, ClosedCandleFrozen
-----------------------------------------------------------------------------
(* The reference reading of a log, as a function of the log.               *)
MinuteTicks(b, l) == {i \in 1 .. Len(l) : Bucket(l[i].ts) = b}

Timely(i, l) == \A j \in 1 .. (i - 1) : Bucket(l[j].ts) <= Bucket(l[i].ts)

Closes(b, i, l) ==
  /\ i \in MinuteTicks(b, l) /\ Timely(i, l)
  /\ \A j \in MinuteTicks(b, l) : Timely(j, l) =>
       \/ EpochSecond(l[j].ts) < EpochSecond(l[i].ts)
       \/ EpochSecond(l[j].ts) = EpochSecond(l[i].ts) /\ j <= i

OpensWith(c, b, l) ==
  \E i \in MinuteTicks(b, l) : c.open = l[i].ltp /\ \A j \in MinuteTicks(b, l) : i <= j

Spans(c, b, l) ==
  /\ \E i \in MinuteTicks(b, l) : c.high = l[i].ltp
  /\ \E i \in MinuteTicks(b, l) : c.low = l[i].ltp
  /\ \A i \in MinuteTicks(b, l) : c.low <= l[i].ltp /\ l[i].ltp <= c.high

ClosesWith(c, b, l) ==
  \E i \in MinuteTicks(b, l) : Closes(b, i, l) /\ c.close = l[i].ltp

CandleFrom(c, b, l) == OpensWith(c, b, l) /\ Spans(c, b, l) /\ ClosesWith(c, b, l)

(* IsCandleOf reads the log this way.                                      *)
LEMMA ReadingLemma ==
  ASSUME NEW c, NEW b PROVE IsCandleOf(c, b) <=> CandleFrom(c, b, log)
<1>1. TicksOf(b) = MinuteTicks(b, log)
  BY DEF TicksOf, MinuteTicks
<1>2. \A i : OnTime(i) <=> Timely(i, log)
  BY DEF OnTime, Timely
<1>3. \A i : ClosingTick(b, i) <=> Closes(b, i, log)
  BY <1>1, <1>2 DEF ClosingTick, Closes
<1> QED BY <1>1, <1>3 DEF IsCandleOf, CandleFrom, OpensWith, Spans, ClosesWith

(* The log m is the log l with one more tick.                              *)
Grown(l, t, m) ==
  /\ l \in Seq(Tick) /\ t \in Tick /\ m \in Seq(Tick)
  /\ Len(m) = Len(l) + 1 /\ m[Len(m)] = t
  /\ \A i \in 1 .. Len(l) : m[i] = l[i]

(* Append makes a log grow by one tick.                                    *)
LEMMA GrownLemma ==
  ASSUME NEW l \in Seq(Tick), NEW t \in Tick PROVE Grown(l, t, Append(l, t))
BY DEF Grown

(* The old ticks are as timely as they were.                               *)
LEMMA TimelyLemma ==
  ASSUME NEW l, NEW t, NEW m, Grown(l, t, m)
  PROVE  /\ \A i \in 1 .. Len(l) : Timely(i, m) <=> Timely(i, l)
         /\ Timely(Len(m), m)
              <=> \A j \in 1 .. Len(l) : Bucket(l[j].ts) <= Bucket(t.ts)
<1>1. ASSUME NEW i \in 1 .. Len(l) PROVE Timely(i, m) <=> Timely(i, l)
  <2>1. \A j \in 1 .. (i - 1) : j \in 1 .. Len(l)
    BY DEF Grown
  <2>2. m[i] = l[i] /\ \A j \in 1 .. (i - 1) : m[j] = l[j]
    BY <2>1 DEF Grown
  <2> QED BY <2>2 DEF Timely
<1>2. Len(m) - 1 = Len(l) /\ m[Len(m)] = t /\ \A j \in 1 .. Len(l) : m[j] = l[j]
  BY DEF Grown
<1>3. Timely(Len(m), m) <=> \A j \in 1 .. Len(l) : Bucket(l[j].ts) <= Bucket(t.ts)
  BY <1>2 DEF Timely
<1> QED BY <1>1, <1>3

(* The new tick belongs to one minute and leaves the others as they are.   *)
LEMMA MinuteLemma ==
  ASSUME NEW l, NEW t, NEW m, Grown(l, t, m), NEW b
  PROVE  /\ Bucket(t.ts) = b => MinuteTicks(b, m) = MinuteTicks(b, l) \cup {Len(m)}
         /\ Bucket(t.ts) # b => MinuteTicks(b, m) = MinuteTicks(b, l)
         /\ \A i \in MinuteTicks(b, l) :
              /\ i \in 1 .. Len(l) /\ i < Len(m)
              /\ m[i] = l[i] /\ l[i] \in Tick
<1>1. \A i : i \in 1 .. Len(m) <=> i \in 1 .. Len(l) \/ i = Len(m)
  BY DEF Grown
<1>2. \A i : i \in MinuteTicks(b, m)
               <=> i \in MinuteTicks(b, l) \/ (i = Len(m) /\ Bucket(t.ts) = b)
  BY <1>1 DEF MinuteTicks, Grown
<1>3. \A i \in MinuteTicks(b, l) : i \in 1 .. Len(l)
  BY DEF MinuteTicks
<1>4. \A i \in 1 .. Len(l) : i < Len(m) /\ m[i] = l[i] /\ l[i] \in Tick
  BY DEF Grown
<1> QED BY <1>2, <1>3, <1>4

(* A tick changes nothing of a candle of another minute.                   *)
LEMMA OtherMinuteLemma ==
  ASSUME NEW l, NEW t, NEW m, Grown(l, t, m),
         NEW c, NEW b, Bucket(t.ts) # b
  PROVE  /\ CandleFrom(c, b, l) => CandleFrom(c, b, m)
         /\ \A i \in MinuteTicks(b, l) : Closes(b, i, l) => Closes(b, i, m)
<1>1. /\ MinuteTicks(b, m) = MinuteTicks(b, l)
      /\ \A i \in MinuteTicks(b, l) : i \in 1 .. Len(l) /\ m[i] = l[i]
  BY MinuteLemma
<1>2. \A i \in MinuteTicks(b, l) : m[i] = l[i] /\ (Timely(i, m) <=> Timely(i, l))
  BY <1>1, TimelyLemma
<1>3. \A i \in MinuteTicks(b, l) : Closes(b, i, l) => Closes(b, i, m)
  BY <1>1, <1>2 DEF Closes
<1> QED BY <1>1, <1>2, <1>3 DEF CandleFrom, OpensWith, Spans, ClosesWith

(* Ticks and candles hold numbers.                                         *)
LEMMA NumbersLemma ==
  /\ \A t \in Tick : t.ts \in Nat /\ t.ltp \in Int /\ EpochSecond(t.ts) \in Nat
                     /\ Bucket(t.ts) \in Nat
  /\ \A c \in Candle : c.high \in Int /\ c.low \in Int
<1>1. \A t \in Tick : t.ts \in Nat /\ t.ltp \in Int
  BY ConstantsAssumption DEF Tick
<1>2. \A t \in Tick : EpochSecond(t.ts) \in Nat /\ Bucket(t.ts) \in Nat
  BY NewCandleLemma
<1>3. \A c \in Candle : c.high \in Prices /\ c.low \in Prices
  BY DEF Candle
<1> QED BY <1>1, <1>2, <1>3, ConstantsAssumption

(* A tick of the minute stretches its candle, and opens none.              *)
LEMMA StretchSpansLemma ==
  ASSUME NEW l, NEW t, NEW m, Grown(l, t, m),
         NEW c \in Candle, NEW d, NEW b, Bucket(t.ts) = b,
         OpensWith(c, b, l), Spans(c, b, l),
         d.open = c.open, d.high = HigherOf(c.high, t.ltp),
         d.low = LowerOf(c.low, t.ltp)
  PROVE  OpensWith(d, b, m) /\ Spans(d, b, m)
<1>1. /\ MinuteTicks(b, m) = MinuteTicks(b, l) \cup {Len(m)}
      /\ t \in Tick /\ m[Len(m)] = t /\ Len(m) \in Nat
  <2>1. t \in Tick /\ m[Len(m)] = t /\ Len(m) \in Nat
    BY DEF Grown
  <2> QED BY <2>1, MinuteLemma
<1>2. \A i \in MinuteTicks(b, l) :
        m[i] = l[i] /\ i \in Nat /\ i <= Len(m) /\ l[i] \in Tick
  BY <1>1, MinuteLemma
<1>3. OpensWith(d, b, m)
  <2>1. PICK i \in MinuteTicks(b, l) :
          c.open = l[i].ltp /\ \A j \in MinuteTicks(b, l) : i <= j
    BY DEF OpensWith
  <2>2. \A j \in MinuteTicks(b, m) : i <= j
    BY <1>1, <1>2, <2>1
  <2> QED BY <1>1, <1>2, <2>1, <2>2 DEF OpensWith
<1>4. c.high \in Int /\ c.low \in Int /\ t.ltp \in Int
      /\ \A i \in MinuteTicks(b, l) : l[i].ltp \in Int
  BY <1>1, <1>2, NumbersLemma
<1>5. \E i \in MinuteTicks(b, m) : d.high = m[i].ltp
  <2>1. CASE c.high >= t.ltp
    BY <1>1, <1>2, <2>1 DEF HigherOf, Spans
  <2>2. CASE ~(c.high >= t.ltp)
    BY <1>1, <2>2 DEF HigherOf
  <2> QED BY <2>1, <2>2
<1>6. \E i \in MinuteTicks(b, m) : d.low = m[i].ltp
  <2>1. CASE c.low <= t.ltp
    BY <1>1, <1>2, <2>1 DEF LowerOf, Spans
  <2>2. CASE ~(c.low <= t.ltp)
    BY <1>1, <2>2 DEF LowerOf
  <2> QED BY <2>1, <2>2
<1>7. ASSUME NEW i \in MinuteTicks(b, m) PROVE d.low <= m[i].ltp /\ m[i].ltp <= d.high
  <2>1. d.high \in Int /\ d.low \in Int /\ d.high >= c.high /\ d.low <= c.low
        /\ d.high >= t.ltp /\ d.low <= t.ltp
    BY <1>4 DEF HigherOf, LowerOf
  <2>2. CASE i = Len(m)
    BY <1>1, <2>1, <2>2
  <2>3. CASE i \in MinuteTicks(b, l)
    <3>1. c.low <= l[i].ltp /\ l[i].ltp <= c.high
      BY <2>3 DEF Spans
    <3>2. m[i] = l[i] /\ l[i].ltp \in Int
      BY <1>2, <1>4, <2>3
    <3> HIDE <2>3
    <3>3. d.low <= l[i].ltp /\ l[i].ltp <= d.high
      BY <1>4, <2>1, <3>1, <3>2
    <3> QED BY <3>2, <3>3
  <2> QED BY <1>1, <2>2, <2>3
<1> QED BY <1>3, <1>5, <1>6, <1>7 DEF Spans

(* A tick that comes after one of a later minute closes nothing.           *)
LEMMA LateCloseLemma ==
  ASSUME NEW l, NEW t, NEW m, Grown(l, t, m),
         NEW b, Bucket(t.ts) = b,
         \E j \in 1 .. Len(l) : Bucket(l[j].ts) > b,
         NEW i \in MinuteTicks(b, l), Closes(b, i, l)
  PROVE  i \in MinuteTicks(b, m) /\ m[i] = l[i] /\ Closes(b, i, m)
<1>1. MinuteTicks(b, m) = MinuteTicks(b, l) \cup {Len(m)}
  BY MinuteLemma
<1>2. ~Timely(Len(m), m)
  <2>1. Timely(Len(m), m) <=> \A j \in 1 .. Len(l) : Bucket(l[j].ts) <= Bucket(t.ts)
    BY TimelyLemma
  <2>2. t \in Tick /\ \A j \in 1 .. Len(l) : l[j] \in Tick
    BY DEF Grown
  <2>3. \A j \in 1 .. Len(l) : Bucket(l[j].ts) \in Nat
    BY <2>2, NumbersLemma
  <2>4. Bucket(t.ts) \in Nat
    BY <2>2, NumbersLemma
  <2> QED BY <2>1, <2>3, <2>4
<1>3. \A k \in MinuteTicks(b, l) : m[k] = l[k] /\ (Timely(k, m) <=> Timely(k, l))
  BY MinuteLemma, TimelyLemma
<1> QED BY <1>1, <1>2, <1>3 DEF Closes

(* A tick that is on time closes its minute, unless an earlier one is      *)
(* newer to the second.                                                    *)
LEMMA NewCloseLemma ==
  ASSUME NEW l, NEW t, NEW m, Grown(l, t, m),
         NEW b, Bucket(t.ts) = b,
         \A j \in 1 .. Len(l) : Bucket(l[j].ts) <= b,
         NEW i \in MinuteTicks(b, l), Closes(b, i, l)
  PROVE  IF EpochSecond(t.ts) >= EpochSecond(l[i].ts)
         THEN Closes(b, Len(m), m)
         ELSE i \in MinuteTicks(b, m) /\ m[i] = l[i] /\ Closes(b, i, m)
<1>1. /\ MinuteTicks(b, m) = MinuteTicks(b, l) \cup {Len(m)}
      /\ t \in Tick /\ m[Len(m)] = t /\ Len(m) \in Nat
  <2>1. t \in Tick /\ m[Len(m)] = t /\ Len(m) \in Nat
    BY DEF Grown
  <2> QED BY <2>1, MinuteLemma
<1>2. Timely(Len(m), m)
  BY TimelyLemma
<1>3. \A k \in MinuteTicks(b, l) : /\ m[k] = l[k] /\ (Timely(k, m) <=> Timely(k, l))
                                   /\ l[k] \in Tick /\ k \in Nat /\ k < Len(m)
  <2>1. \A k \in MinuteTicks(b, l) :
          k \in 1 .. Len(l) /\ m[k] = l[k] /\ l[k] \in Tick /\ k < Len(m)
    BY MinuteLemma
  <2> QED BY <2>1, TimelyLemma
<1>4. /\ \A k \in MinuteTicks(b, l) : EpochSecond(l[k].ts) \in Nat
      /\ EpochSecond(t.ts) \in Nat
  BY <1>1, <1>3, NumbersLemma
<1>5. \A k \in MinuteTicks(b, l) : Timely(k, l) =>
        \/ EpochSecond(l[k].ts) < EpochSecond(l[i].ts)
        \/ EpochSecond(l[k].ts) = EpochSecond(l[i].ts) /\ k <= i
  BY DEF Closes
<1>6. CASE EpochSecond(t.ts) >= EpochSecond(l[i].ts)
  <2>1. ASSUME NEW k \in MinuteTicks(b, m), Timely(k, m)
        PROVE  \/ EpochSecond(m[k].ts) < EpochSecond(m[Len(m)].ts)
               \/ EpochSecond(m[k].ts) = EpochSecond(m[Len(m)].ts) /\ k <= Len(m)
    <3>1. CASE k = Len(m)
      BY <1>1, <3>1
    <3>2. CASE k \in MinuteTicks(b, l)
      <4>1. EpochSecond(l[k].ts) <= EpochSecond(l[i].ts)
        BY <1>3, <1>4, <1>5, <2>1, <3>2
      <4> QED BY <1>1, <1>3, <1>4, <1>6, <3>2, <4>1
    <3> QED BY <1>1, <3>1, <3>2
  <2> QED BY <1>1, <1>2, <1>6, <2>1 DEF Closes
<1>7. CASE ~(EpochSecond(t.ts) >= EpochSecond(l[i].ts))
  <2>1. EpochSecond(t.ts) < EpochSecond(l[i].ts)
    BY <1>4, <1>7
  <2>2. m[i] = l[i] /\ Timely(i, m) /\ i \in MinuteTicks(b, m)
    BY <1>1, <1>3 DEF Closes
  <2>3. ASSUME NEW k \in MinuteTicks(b, m), Timely(k, m)
        PROVE  \/ EpochSecond(m[k].ts) < EpochSecond(m[i].ts)
               \/ EpochSecond(m[k].ts) = EpochSecond(m[i].ts) /\ k <= i
    <3>1. CASE k = Len(m)
      BY <1>1, <2>1, <2>2, <3>1
    <3>2. CASE k \in MinuteTicks(b, l)
      BY <1>3, <1>5, <2>2, <2>3, <3>2
    <3> QED BY <1>1, <3>1, <3>2
  <2> QED BY <1>7, <2>2, <2>3 DEF Closes
<1> QED BY <1>6, <1>7

(* The first tick of a minute that is later than all before makes its      *)
(* candle.                                                                 *)
LEMMA FirstTickLemma ==
  ASSUME NEW l, NEW t, NEW m, Grown(l, t, m),
         NEW b, Bucket(t.ts) = b,
         \A j \in 1 .. Len(l) : Bucket(l[j].ts) < b
  PROVE  /\ CandleFrom(NewCandle(t), b, m)
         /\ Len(m) \in MinuteTicks(b, m) /\ Closes(b, Len(m), m) /\ m[Len(m)] = t
<1>1. \A j \in 1 .. Len(l) : Bucket(l[j].ts) \in Nat
  <2>1. \A j \in 1 .. Len(l) : l[j] \in Tick
    BY DEF Grown
  <2> QED BY <2>1, NumbersLemma
<1>2. t \in Tick /\ b \in Nat /\ t.ltp \in Int
  BY NumbersLemma DEF Grown
<1>3. MinuteTicks(b, l) = {}
  BY <1>1, <1>2 DEF MinuteTicks
<1>4. /\ MinuteTicks(b, m) = {Len(m)} /\ Len(m) \in Nat /\ m[Len(m)] = t
      /\ Timely(Len(m), m)
  <2>1. /\ MinuteTicks(b, m) = MinuteTicks(b, l) \cup {Len(m)}
        /\ Len(m) \in Nat /\ m[Len(m)] = t
    <3>1. m[Len(m)] = t /\ Len(m) \in Nat
      BY DEF Grown
    <3> QED BY <3>1, MinuteLemma
  <2>2. Timely(Len(m), m) <=> \A j \in 1 .. Len(l) : Bucket(l[j].ts) <= Bucket(t.ts)
    BY TimelyLemma
  <2>3. \A j \in 1 .. Len(l) : Bucket(l[j].ts) <= Bucket(t.ts)
    BY <1>1, <1>2
  <2> QED BY <1>3, <2>1, <2>2, <2>3
<1>5. Closes(b, Len(m), m)
  BY <1>4 DEF Closes
<1>6. /\ NewCandle(t).open = t.ltp /\ NewCandle(t).high = t.ltp
      /\ NewCandle(t).low = t.ltp /\ NewCandle(t).close = t.ltp
  BY DEF NewCandle
<1> QED BY <1>2, <1>4, <1>5, <1>6 DEF CandleFrom, OpensWith, Spans, ClosesWith
-----------------------------------------------------------------------------
(* Where the log stands: no tick is ahead of the forming candle, which has *)
(* one of its own, or, when none forms, of the last after-hours tick.      *)
LogInv ==
  /\ current_1m # None =>
       /\ \A i \in 1 .. Len(log) : Bucket(log[i].ts) <= current_1m.timestamp
       /\ \E i \in 1 .. Len(log) : Bucket(log[i].ts) = current_1m.timestamp
  /\ current_1m = None => \A i \in 1 .. Len(log) : Bucket(log[i].ts) < shut

(* The minute b has its candle or has been evicted by later ones.          *)
Held(b) ==
  \/ current_1m # None /\ current_1m.timestamp = b
  \/ \E k \in 1 .. Len(rolling_1m) : rolling_1m[k].timestamp = b
  \/ /\ Len(rolling_1m) = MAX_CANDLES
     /\ \A k \in 1 .. MAX_CANDLES : rolling_1m[k].timestamp > b

KeptInv == \A i \in 1 .. Len(log) : Timely(i, log) => Held(Bucket(log[i].ts))

(* The candles are those of the log; last_tick_time is that of the tick    *)
(* that closes the forming one so far.                                     *)
ClosedContent ==
  \A k \in 1 .. Len(rolling_1m) :
    /\ rolling_1m[k].is_closed
    /\ CandleFrom(rolling_1m[k], rolling_1m[k].timestamp, log)

FormingContent ==
  current_1m # None =>
    /\ ~current_1m.is_closed
    /\ OpensWith(current_1m, current_1m.timestamp, log)
    /\ Spans(current_1m, current_1m.timestamp, log)
    /\ \E i \in MinuteTicks(current_1m.timestamp, log) :
         /\ Closes(current_1m.timestamp, i, log)
         /\ current_1m.close = log[i].ltp
         /\ last_tick_time = EpochSecond(log[i].ts)

(* What the log gains by a session tick.                                   *)
LEMMA LogGrows ==
  ASSUME TypeOK, NEW t \in Tick, Deliver(t), InSession(t.ts)
  PROVE  /\ Grown(log, t, log') /\ Len(log) \in Nat
         /\ \A i \in 1 .. Len(log) : log[i] \in Tick /\ Bucket(log[i].ts) \in Nat
         /\ \A i \in 1 .. Len(log') :
               \/ i \in 1 .. Len(log) /\ log'[i] = log[i]
               \/ i = Len(log') /\ log'[i] = t
         /\ Len(log') \in 1 .. Len(log')
         /\ \A i \in 1 .. Len(log) : i \in 1 .. Len(log') /\ log'[i] = log[i]
<1>1. log \in Seq(Tick) /\ log' = Append(log, t)
  BY DEF TypeOK, Deliver
<1>2. Grown(log, t, log')
  BY <1>1, GrownLemma
<1>3. /\ Len(log) \in Nat /\ Len(log') = Len(log) + 1 /\ log'[Len(log')] = t
      /\ \A i \in 1 .. Len(log) : log'[i] = log[i]
  BY <1>2 DEF Grown
<1>4. \A i \in 1 .. Len(log) : log[i] \in Tick
  BY <1>1
<1>5. \A i \in 1 .. Len(log) : Bucket(log[i].ts) \in Nat
  BY <1>4, NumbersLemma
<1>6. \A i : i \in 1 .. Len(log') <=> i \in 1 .. Len(log) \/ i = Len(log')
  BY <1>3
<1>7. \A i \in 1 .. Len(log') :
         \/ i \in 1 .. Len(log) /\ log'[i] = log[i]
         \/ i = Len(log') /\ log'[i] = t
  BY <1>3, <1>6
<1>8. /\ Len(log') \in 1 .. Len(log')
      /\ \A i \in 1 .. Len(log) : i \in 1 .. Len(log') /\ log'[i] = log[i]
  BY <1>3, <1>6
<1>9. Len(log) \in Nat
  BY <1>3
<1> QED BY <1>2, <1>4, <1>5, <1>7, <1>8, <1>9

(* A session tick that starts a candle, the first one or after a rollover, *)
(* is later than every tick before it.                                     *)
LEMMA OpeningLemma ==
  ASSUME ~LateAfterClose, OrderInv, LogInv, NEW t \in Tick, Deliver(t),
         FirstTick(t) \/ Rollover(t)
  PROVE  \A i \in 1 .. Len(log) : Bucket(log[i].ts) < Bucket(t.ts)
<1>1. InSession(t.ts) /\ t.ts \in Nat /\ Bucket(t.ts) \in Nat
  BY NumbersLemma DEF FirstTick, Rollover
<1>2. \A i \in 1 .. Len(log) : Bucket(log[i].ts) \in Nat
  BY <1>1, LogGrows DEF OrderInv
<1>3. CASE Rollover(t)
  <2>1. /\ current_1m # None /\ Bucket(t.ts) > current_1m.timestamp
        /\ current_1m \in Candle
    BY <1>3 DEF Rollover, OrderInv, TypeOK
  <2>2. current_1m.timestamp \in Nat
    BY <2>1 DEF Candle
  <2> QED BY <1>1, <1>2, <2>1, <2>2 DEF LogInv
<1>4. CASE FirstTick(t)
  <2>1. /\ \A i \in 1 .. Len(log) : Bucket(log[i].ts) < shut
        /\ shut \in Nat \cup {-1} /\ t.ts > shut
        /\ shut # -1 => AfterClose(shut)
    BY <1>1, <1>4 DEF FirstTick, LogInv, OrderInv, TypeOK, FeedInv, Deliver
  <2>2. CASE shut = -1
    BY <1>2, <2>1, <2>2
  <2>3. CASE shut # -1
    <3>1. Bucket(t.ts) > shut
      BY <1>1, <2>1, <2>3, OvernightLemma
    <3> QED BY <1>1, <1>2, <2>1, <2>3, <3>1
  <2> QED BY <2>2, <2>3
<1> QED BY <1>3, <1>4

(* A tick after the close is no tick of the session.                       *)
LEMMA AfterLemma == ASSUME NEW ts \in Nat, AfterClose(ts) PROVE ~InSession(ts)
BY DEF AfterClose, InSession, TimeOfDay, DAY, MARKET_CLOSE_TIME

(* An update leaves the forming candle in its minute.                      *)
LEMMA SameMinuteLemma ==
  ASSUME NEW t \in Tick, UpdateForming(t), current_1m \in Candle
  PROVE  /\ current_1m' \in Candle /\ current_1m' # None
         /\ current_1m'.timestamp = current_1m.timestamp
<1>1. /\ Stretched(current_1m, t.ltp) \in Candle /\ t.ltp \in Prices
      /\ Stretched(current_1m, t.ltp).timestamp = current_1m.timestamp
  BY StretchedLemma DEF Tick
<1>2. \/ current_1m' = Stretched(current_1m, t.ltp)
      \/ current_1m' = [Stretched(current_1m, t.ltp) EXCEPT !.close = t.ltp]
  BY DEF UpdateForming
<1>3. current_1m' \in Candle /\ current_1m'.timestamp = current_1m.timestamp
  BY <1>1, <1>2 DEF Candle
<1> QED BY <1>3, NoneAssumption

(* Every call keeps the forming candle that of the last minute of the log. *)
LEMMA LogStep ==
  ASSUME ~LateAfterClose, OrderInv, LogInv, [Next]_vars
  PROVE  LogInv'
<1>1. TypeOK /\ OrderInv' /\ TypeOK' /\ FeedInv'
  BY OrderInvStep DEF OrderInv
<1>2. CASE ClearSymbol
  BY <1>2 DEF ClearSymbol, LogInv
<1>3. CASE UNCHANGED vars
  BY <1>3 DEF vars, state, feed, LogInv
<1>4. ASSUME NEW t \in Tick, ProcessTick(t)
      PROVE  LogInv'
  <2>1. Deliver(t)
    BY <1>4 DEF ProcessTick
  <2>2. \A i \in 1 .. Len(log) : Bucket(log[i].ts) \in Nat
    <3>1. \A i \in 1 .. Len(log) : log[i] \in Tick
      BY <1>1 DEF TypeOK
    <3> QED BY <3>1, NumbersLemma
  <2>3. shut \in Nat \cup {-1} /\ shut' \in Nat \cup {-1} /\ shut' >= shut
    BY <1>1, <2>1, DeliverLemma DEF TypeOK
  <2>4. /\ t.ts \in Nat /\ Bucket(t.ts) \in Nat /\ NewCandle(t).timestamp = Bucket(t.ts)
        /\ NewCandle(t) # None
    BY NumbersLemma, NewCandleLemma, NoneAssumption
  <2>5. current_1m # None => current_1m \in Candle /\ current_1m.timestamp \in Nat
    BY <1>1 DEF TypeOK, Candle
  <2>6. CASE IgnoreTick(t)
    <3>1. UNCHANGED <<current_1m, log>>
      BY <2>1, <2>6 DEF IgnoreTick, state, Deliver
    <3> QED BY <2>2, <2>3, <3>1 DEF LogInv
  <2>7. CASE CloseSession(t)
    <3>1. /\ current_1m # None /\ current_1m' = None /\ log' = log
          /\ rolling_1m' = DequeAppend(rolling_1m, Finalized(current_1m))
      <4>1. ~InSession(t.ts)
        BY <2>4, <2>7, AfterLemma DEF CloseSession
      <4> QED BY <2>1, <2>7, <4>1 DEF CloseSession, Deliver
    <3>2. /\ Finalized(current_1m) \in Candle
          /\ Finalized(current_1m).timestamp = current_1m.timestamp
      BY <2>5, <3>1, FinalizedLemma
    <3>3. /\ Len(rolling_1m') \in 1 .. Len(rolling_1m')
          /\ rolling_1m'[Len(rolling_1m')] = Finalized(current_1m)
      <4>1. rolling_1m \in Seq(Candle) /\ Len(rolling_1m) <= MAX_CANDLES
        BY <1>1 DEF TypeOK
      <4>2. /\ Len(rolling_1m') \in 1 .. MAX_CANDLES
            /\ rolling_1m'[Len(rolling_1m')] = Finalized(current_1m)
        BY <3>1, <3>2, <4>1, DequeAppendLemma, Zenon
      <4> QED BY <4>2, ConstantsAssumption
    <3>4. current_1m.timestamp < shut'
      BY <1>1, <3>1, <3>2, <3>3 DEF FeedInv
    <3> QED BY <2>2, <2>3, <2>5, <3>1, <3>4 DEF LogInv
  <2>8. CASE FirstTick(t) \/ Rollover(t)
    <3>1. /\ \A i \in 1 .. Len(log) : Bucket(log[i].ts) < Bucket(t.ts)
          /\ InSession(t.ts) /\ current_1m' = NewCandle(t)
      BY <2>1, <2>8, OpeningLemma DEF FirstTick, Rollover
    <3>2. /\ \A i \in 1 .. Len(log') :
                \/ i \in 1 .. Len(log) /\ log'[i] = log[i]
                \/ i = Len(log') /\ log'[i] = t
          /\ Len(log') \in 1 .. Len(log') /\ log'[Len(log')] = t
      BY <1>1, <2>1, <3>1, LogGrows DEF Grown
    <3> QED BY <2>2, <2>4, <3>1, <3>2 DEF LogInv
  <2>9. CASE UpdateForming(t) \/ LateTick(t)
    <3>1. /\ InSession(t.ts) /\ current_1m # None
          /\ Bucket(t.ts) <= current_1m.timestamp
      BY <2>4, <2>5, <2>9 DEF UpdateForming, LateTick
    <3>2. current_1m' # None /\ current_1m'.timestamp = current_1m.timestamp
      <4>1. CASE UpdateForming(t)
        BY <2>5, <3>1, <4>1, SameMinuteLemma
      <4>2. CASE LateTick(t)
        BY <3>1, <4>2 DEF LateTick
      <4> QED BY <2>9, <4>1, <4>2
    <3>3. /\ \A i \in 1 .. Len(log') :
                \/ i \in 1 .. Len(log) /\ log'[i] = log[i]
                \/ i = Len(log') /\ log'[i] = t
          /\ \A i \in 1 .. Len(log) : i \in 1 .. Len(log') /\ log'[i] = log[i]
      BY <1>1, <2>1, <3>1, LogGrows
    <3>4. PICK j \in 1 .. Len(log) : Bucket(log[j].ts) = current_1m.timestamp
      BY <3>1 DEF LogInv
    <3>5. \E i \in 1 .. Len(log') : Bucket(log'[i].ts) = current_1m'.timestamp
      BY <3>2, <3>3, <3>4
    <3>6. \A i \in 1 .. Len(log') : Bucket(log'[i].ts) <= current_1m'.timestamp
      BY <3>1, <3>2, <3>3 DEF LogInv
    <3> QED BY <3>2, <3>5, <3>6 DEF LogInv
  <2> QED BY <1>4, <2>6, <2>7, <2>8, <2>9 DEF ProcessTick
<1> QED BY <1>2, <1>3, <1>4 DEF Next

(* What happens to a candle of the deque when the forming candle is put at *)
(* its end: it stays, or it is the first of a full deque.                  *)
LEMMA HeldStep ==
  ASSUME TypeOK, RollingOrdered, current_1m # None,
         rolling_1m' = DequeAppend(rolling_1m, Finalized(current_1m)),
         NEW b \in Nat, Held(b)
  PROVE  Held(b)'
<1> DEFINE n == Len(rolling_1m)
           d == rolling_1m'
<1>1. /\ rolling_1m \in Seq(Candle) /\ n \in Nat /\ n <= MAX_CANDLES
      /\ MAX_CANDLES \in Nat \ {0} /\ current_1m \in Candle
  BY ConstantsAssumption DEF TypeOK
<1>2. /\ Finalized(current_1m) \in Candle
      /\ Finalized(current_1m).timestamp = current_1m.timestamp
      /\ current_1m.timestamp \in Nat
  BY <1>1, FinalizedLemma DEF Candle
<1>3. \A k \in 1 .. n : rolling_1m[k].timestamp \in Nat
  <2>1. \A k \in 1 .. n : rolling_1m[k] \in Candle
    BY <1>1
  <2> QED BY <2>1 DEF Candle
<1>4. CASE n # MAX_CANDLES
  <2>1. d = Append(rolling_1m, Finalized(current_1m))
    BY <1>4 DEF DequeAppend
  <2>2. /\ Len(d) = n + 1 /\ d[n + 1] = Finalized(current_1m)
        /\ \A k \in 1 .. n : d[k] = rolling_1m[k]
    BY <1>1, <1>2, <2>1
  <2> HIDE DEF d
  <2>3. \E k \in 1 .. Len(d) : d[k].timestamp = b
    <3>1. CASE current_1m.timestamp = b
      BY <1>1, <1>2, <2>2, <3>1
    <3>2. ASSUME NEW k \in 1 .. n, rolling_1m[k].timestamp = b
          PROVE  \E j \in 1 .. Len(d) : d[j].timestamp = b
      <4>1. k \in 1 .. Len(d) /\ d[k].timestamp = b
        BY <1>1, <2>2, <3>2
      <4> QED BY <4>1
    <3> QED BY <1>4, <3>1, <3>2 DEF Held
  <2> QED BY <2>3 DEF Held, d
<1>5. CASE n = MAX_CANDLES
  <2>1. d = Append(Tail(rolling_1m), Finalized(current_1m))
    BY <1>5 DEF DequeAppend
  <2>2. /\ Len(d) = n /\ d[n] = Finalized(current_1m)
        /\ \A k \in 1 .. (n - 1) : d[k] = rolling_1m[k + 1]
    <3>1. rolling_1m # <<>>
      BY <1>1, <1>5
    <3>2. /\ Tail(rolling_1m) \in Seq(Candle) /\ Len(Tail(rolling_1m)) = n - 1
          /\ \A k \in 1 .. (n - 1) : Tail(rolling_1m)[k] = rolling_1m[k + 1]
      BY <1>1, <3>1
    <3> QED BY <1>1, <1>2, <2>1, <3>2
  <2> HIDE DEF d
  <2>3. CASE current_1m.timestamp = b
    <3>1. n \in 1 .. Len(d) /\ d[n].timestamp = b
      BY <1>1, <1>2, <1>5, <2>2, <2>3
    <3> QED BY <3>1 DEF Held, d
  <2>4. ASSUME NEW k \in 2 .. n, rolling_1m[k].timestamp = b
        PROVE  Held(b)'
    <3>1. k - 1 \in 1 .. (n - 1) /\ (k - 1) + 1 = k
      BY <1>1
    <3>2. k - 1 \in 1 .. Len(d) /\ d[k - 1].timestamp = b
      BY <1>1, <2>2, <2>4, <3>1
    <3> QED BY <3>2 DEF Held, d
  <2>5. ASSUME rolling_1m[1].timestamp >= b
        PROVE  Held(b)'
    <3>1. ASSUME NEW k \in 1 .. MAX_CANDLES PROVE d[k].timestamp > b
      <4>1. 1 \in 1 .. n
        BY <1>1, <1>5
      <4>2. CASE k = n
        <5>1. rolling_1m[1].timestamp < current_1m.timestamp
          BY <4>1 DEF RollingOrdered
        <5> QED BY <1>2, <1>3, <2>2, <2>5, <4>1, <4>2, <5>1
      <4>3. CASE k # n
        <5>1. k \in 1 .. (n - 1) /\ k + 1 \in 1 .. n /\ 1 < k + 1
          BY <1>1, <1>5, <4>3
        <5>2. rolling_1m[1].timestamp < rolling_1m[k + 1].timestamp
          BY <4>1, <5>1 DEF RollingOrdered
        <5>3. d[k] = rolling_1m[k + 1]
          BY <2>2, <5>1
        <5> QED BY <1>3, <2>5, <4>1, <5>1, <5>2, <5>3
      <4> QED BY <4>2, <4>3
    <3> QED BY <1>5, <2>2, <3>1 DEF Held, d
  <2>6. CASE \E k \in 1 .. n : rolling_1m[k].timestamp = b
    <3>1. PICK k \in 1 .. n : rolling_1m[k].timestamp = b
      BY <2>6
    <3>2. k = 1 \/ k \in 2 .. n
      BY <1>1
    <3>3. CASE k = 1
      BY <2>5, <3>1, <3>3
    <3> QED BY <2>4, <3>1, <3>2, <3>3
  <2>7. CASE n = MAX_CANDLES /\ \A k \in 1 .. MAX_CANDLES : rolling_1m[k].timestamp > b
    <3>1. 1 \in 1 .. n /\ rolling_1m[1].timestamp > b
      BY <1>1, <2>7
    <3>2. rolling_1m[1].timestamp >= b
      BY <1>3, <3>1
    <3> QED BY <2>5, <3>2
  <2> QED BY <2>3, <2>6, <2>7 DEF Held
<1> QED BY <1>4, <1>5

(* A minute that was on time keeps its candle until enough later minutes   *)
(* have been closed.                                                       *)
LEMMA KeptStep ==
  ASSUME ~LateAfterClose, OrderInv, LogInv, KeptInv, [Next]_vars
  PROVE  KeptInv'
<1>1. TypeOK /\ RollingOrdered
  BY DEF OrderInv
<1>2. CASE ClearSymbol
  BY <1>2 DEF ClearSymbol, KeptInv
<1>3. CASE UNCHANGED vars
  BY <1>3 DEF vars, state, feed, KeptInv, Held
<1>4. ASSUME NEW t \in Tick, ProcessTick(t)
      PROVE  KeptInv'
  <2>1. Deliver(t)
    BY <1>4 DEF ProcessTick
  <2>2. \A i \in 1 .. Len(log) : Bucket(log[i].ts) \in Nat
    <3>1. \A i \in 1 .. Len(log) : log[i] \in Tick
      BY <1>1 DEF TypeOK
    <3> QED BY <3>1, NumbersLemma
  <2>3. /\ t.ts \in Nat /\ Bucket(t.ts) \in Nat /\ t.ltp \in Prices
        /\ NewCandle(t).timestamp = Bucket(t.ts) /\ NewCandle(t) # None
    BY NumbersLemma, NewCandleLemma, NoneAssumption DEF Tick
  <2>4. current_1m # None => current_1m \in Candle /\ current_1m.timestamp \in Nat
    BY <1>1 DEF TypeOK, Candle
  (* A minute that was held still is. *)
  <2>5. ASSUME NEW b \in Nat, Held(b) PROVE Held(b)'
    <3>1. CASE IgnoreTick(t)
      BY <2>5, <3>1 DEF IgnoreTick, state, Held
    <3>2. CASE CloseSession(t) \/ Rollover(t)
      <4>1. /\ current_1m # None
            /\ rolling_1m' = DequeAppend(rolling_1m, Finalized(current_1m))
        BY <3>2 DEF CloseSession, Rollover
      <4> QED BY <1>1, <2>5, <4>1, HeldStep
    <3>3. CASE FirstTick(t)
      BY <2>5, <3>3 DEF FirstTick, Held
    <3>4. CASE UpdateForming(t)
      <4>1. current_1m # None /\ rolling_1m' = rolling_1m
        BY <3>4 DEF UpdateForming
      <4>2. current_1m' # None /\ current_1m'.timestamp = current_1m.timestamp
        BY <2>3, <2>4, <3>4, SameMinuteLemma DEF UpdateForming
      <4> QED BY <2>5, <4>1, <4>2 DEF Held
    <3>5. CASE LateTick(t)
      <4>1. /\ Len(rolling_1m') = Len(rolling_1m)
            /\ \A k \in 1 .. Len(rolling_1m) :
                 rolling_1m'[k].timestamp = rolling_1m[k].timestamp
        BY <1>1, <2>3, <3>5, AmendHistoryLemma DEF LateTick, TypeOK
      <4>2. UNCHANGED current_1m
        BY <3>5 DEF LateTick
      <4> QED BY <2>5, <4>1, <4>2 DEF Held
    <3> QED BY <1>4, <3>1, <3>2, <3>3, <3>4, <3>5 DEF ProcessTick
  <2>6. CASE ~InSession(t.ts)
    <3>1. log' = log
      BY <2>1, <2>6 DEF Deliver
    <3>2. ASSUME NEW i \in 1 .. Len(log), Timely(i, log),
                 NEW b, b = Bucket(log[i].ts)
          PROVE  Held(b)'
      <4>1. Held(Bucket(log[i].ts))
        BY <3>2 DEF KeptInv
      <4>2. Held(b)
        BY <3>2, <4>1 DEF Held
      <4> QED BY <2>2, <2>5, <3>2, <4>2
    <3> QED BY <3>1, <3>2 DEF KeptInv, Held
  <2>7. CASE InSession(t.ts)
    <3>1. /\ Grown(log, t, log')
          /\ \A i \in 1 .. Len(log') : \/ i \in 1 .. Len(log) /\ log'[i] = log[i]
                                       \/ i = Len(log') /\ log'[i] = t
      BY <1>1, <2>1, <2>7, LogGrows
    <3>2. ASSUME NEW i \in 1 .. Len(log), Timely(i, log'),
                 NEW b, b = Bucket(log[i].ts)
          PROVE  Held(b)'
      <4>1. Timely(i, log)
        BY <3>1, <3>2, TimelyLemma
      <4>2. Held(Bucket(log[i].ts))
        BY <4>1 DEF KeptInv
      <4>3. Held(b)
        BY <3>2, <4>2 DEF Held
      <4> QED BY <2>2, <2>5, <3>2, <4>3
    <3>3. ASSUME Timely(Len(log'), log') PROVE Held(Bucket(t.ts))'
      <4>1. \A j \in 1 .. Len(log) : Bucket(log[j].ts) <= Bucket(t.ts)
        BY <3>1, <3>3, TimelyLemma
      <4>2. CASE FirstTick(t) \/ Rollover(t)
        BY <2>3, <4>2 DEF FirstTick, Rollover, Held
      <4>3. CASE UpdateForming(t)
        <5>1. current_1m' # None /\ current_1m'.timestamp = current_1m.timestamp
          BY <2>3, <2>4, <4>3, SameMinuteLemma DEF UpdateForming
        <5> QED BY <4>3, <5>1 DEF UpdateForming, Held
      <4>4. ~LateTick(t)
        <5>1. ASSUME LateTick(t) PROVE FALSE
          <6>1. /\ current_1m # None /\ Bucket(t.ts) < current_1m.timestamp
                /\ current_1m.timestamp \in Nat
            BY <2>4, <5>1 DEF LateTick
          <6>2. PICK j \in 1 .. Len(log) : Bucket(log[j].ts) = current_1m.timestamp
            BY <6>1 DEF LogInv
          <6> QED BY <2>3, <4>1, <6>1, <6>2
        <5> QED BY <5>1
      <4>5. ~IgnoreTick(t) /\ ~CloseSession(t)
        BY <2>3, <2>7, AfterLemma DEF IgnoreTick, CloseSession
      <4> QED BY <1>4, <4>2, <4>3, <4>4, <4>5 DEF ProcessTick
    <3>4. ASSUME NEW i \in 1 .. Len(log'), Timely(i, log'),
                 NEW b, b = Bucket(log'[i].ts)
          PROVE  Held(b)'
      <4>1. CASE i \in 1 .. Len(log) /\ log'[i] = log[i]
        BY <3>2, <3>4, <4>1
      <4>2. CASE i = Len(log') /\ log'[i] = t
        <5>1. Held(Bucket(t.ts))' /\ b = Bucket(t.ts)
          BY <3>3, <3>4, <4>2
        <5> QED BY <5>1 DEF Held
      <4> QED BY <3>1, <4>1, <4>2
    <3> QED BY <3>4 DEF KeptInv, Held
  <2> QED BY <2>6, <2>7
<1> QED BY <1>2, <1>3, <1>4 DEF Next

(* Where the candles that readers get are kept.                            *)
LEMMA AllCandlesLemma ==
  ASSUME TypeOK
  PROVE  /\ Len(rolling_1m) \in Nat /\ Len(AllCandles) \in Nat
         /\ \A k \in 1 .. Len(rolling_1m) :
              k \in 1 .. Len(AllCandles) /\ AllCandles[k] = rolling_1m[k]
         /\ \A k \in 1 .. Len(AllCandles) :
              \/ k \in 1 .. Len(rolling_1m)
              \/ /\ k = Len(rolling_1m) + 1 /\ current_1m # None
                 /\ AllCandles[k] = current_1m
         /\ current_1m # None =>
              \E k \in 1 .. Len(AllCandles) : AllCandles[k] = current_1m
<1>1. rolling_1m \in Seq(Candle) /\ (current_1m # None => current_1m \in Candle)
  BY DEF TypeOK
<1>2. CASE current_1m = None
  <2>1. AllCandles = rolling_1m
    BY <1>1, <1>2 DEF AllCandles
  <2> QED BY <1>1, <1>2, <2>1
<1>3. CASE current_1m # None
  <2>1. /\ Len(AllCandles) = Len(rolling_1m) + 1
        /\ AllCandles[Len(rolling_1m) + 1] = current_1m
        /\ \A k \in 1 .. Len(rolling_1m) : AllCandles[k] = rolling_1m[k]
    BY <1>1, <1>3 DEF AllCandles
  <2>2. Len(rolling_1m) \in Nat
    BY <1>1
  <2> QED BY <1>3, <2>1, <2>2
<1> QED BY <1>2, <1>3

(* Under the same feeds, and for a deque of any size, a minute with an     *)
(* on-time tick keeps its candle until maxlen later minutes are closed.    *)
THEOREM NothingLostEarly == ASSUME ~LateAfterClose PROVE Spec => []NoMinuteLost
<1>1. Init => OrderInv /\ LogInv /\ KeptInv
  BY OrderInvInit DEF Init, LogInv, KeptInv
<1>2. OrderInv /\ LogInv /\ KeptInv /\ [Next]_vars => (OrderInv /\ LogInv /\ KeptInv)'
  BY OrderInvStep, LogStep, KeptStep
<1>3. OrderInv /\ KeptInv => NoMinuteLost
  <2> SUFFICES ASSUME OrderInv, KeptInv, NEW i \in 1 .. Len(log), OnTime(i)
               PROVE  \/ \E k \in 1 .. Len(AllCandles) :
                           AllCandles[k].timestamp = Bucket(log[i].ts)
                      \/ /\ Len(rolling_1m) = MAX_CANDLES
                         /\ \A k \in 1 .. MAX_CANDLES :
                              rolling_1m[k].timestamp > Bucket(log[i].ts)
    BY DEF NoMinuteLost
  <2>1. Held(Bucket(log[i].ts))
    BY DEF KeptInv, OnTime, Timely
  <2> QED BY <2>1, AllCandlesLemma DEF Held, OrderInv
<1> QED BY <1>1, <1>2, <1>3, PTL DEF Spec
-----------------------------------------------------------------------------
(* Finalizing a candle changes nothing of what it says.                    *)
LEMMA FinalizedContent ==
  ASSUME NEW c \in Candle, NEW b, NEW l,
         OpensWith(c, b, l), Spans(c, b, l), ClosesWith(c, b, l)
  PROVE  Finalized(c).is_closed /\ CandleFrom(Finalized(c), b, l)
<1>1. /\ Finalized(c).open = c.open /\ Finalized(c).close = c.close
      /\ Finalized(c).high = c.high /\ Finalized(c).low = c.low
  BY FinalizedLemma
<1>2. Finalized(c).is_closed
  BY DEF Finalized, Candle
<1> QED BY <1>1, <1>2 DEF CandleFrom, OpensWith, Spans, ClosesWith

(* The deque with the forming candle at its end.                           *)
LEMMA AppendedContent ==
  ASSUME TypeOK, current_1m # None,
         rolling_1m' = DequeAppend(rolling_1m, Finalized(current_1m)),
         \A k \in 1 .. Len(rolling_1m) :
           rolling_1m[k].is_closed
             /\ CandleFrom(rolling_1m[k], rolling_1m[k].timestamp, log'),
         Finalized(current_1m).is_closed,
         CandleFrom(Finalized(current_1m), current_1m.timestamp, log')
  PROVE  ClosedContent'
<1>1. /\ rolling_1m \in Seq(Candle) /\ Len(rolling_1m) \in Nat
      /\ Len(rolling_1m) <= MAX_CANDLES /\ current_1m \in Candle
      /\ MAX_CANDLES \in Nat
  BY ConstantsAssumption DEF TypeOK
<1>2. /\ Finalized(current_1m) \in Candle
      /\ Finalized(current_1m).timestamp = current_1m.timestamp
  BY <1>1, FinalizedLemma
<1> DEFINE d == DequeAppend(rolling_1m, Finalized(current_1m))
<1>d. /\ Len(d) \in 1 .. MAX_CANDLES
      /\ d[Len(d)] = Finalized(current_1m)
      /\ \E k \in {0, 1} :
           /\ Len(d) = Len(rolling_1m) + 1 - k
           /\ \A i \in 1 .. (Len(d) - 1) :
                i + k \in 1 .. Len(rolling_1m) /\ d[i] = rolling_1m[i + k]
  BY <1>1, <1>2, DequeAppendLemma, Zenon
<1>e. rolling_1m' = d
  OBVIOUS
<1> HIDE DEF d
<1>3. /\ Len(rolling_1m') \in 1 .. MAX_CANDLES
      /\ rolling_1m'[Len(rolling_1m')] = Finalized(current_1m)
      /\ \E k \in {0, 1} :
           /\ Len(rolling_1m') = Len(rolling_1m) + 1 - k
           /\ \A i \in 1 .. (Len(rolling_1m') - 1) :
                i + k \in 1 .. Len(rolling_1m) /\ rolling_1m'[i] = rolling_1m[i + k]
  BY <1>d, <1>e
<1>4. ASSUME NEW j \in 1 .. Len(rolling_1m')
      PROVE  \/ rolling_1m'[j] = Finalized(current_1m)
             \/ \E k \in 1 .. Len(rolling_1m) : rolling_1m'[j] = rolling_1m[k]
  <2>1. j = Len(rolling_1m') \/ j \in 1 .. (Len(rolling_1m') - 1)
    BY <1>1, <1>3
  <2> QED BY <1>3, <2>1
<1>5. ASSUME NEW j \in 1 .. Len(rolling_1m')
      PROVE  /\ rolling_1m'[j].is_closed
             /\ CandleFrom(rolling_1m'[j], rolling_1m'[j].timestamp, log')
  <2>1. CASE rolling_1m'[j] = Finalized(current_1m)
    BY <1>2, <2>1
  <2>2. CASE \E k \in 1 .. Len(rolling_1m) : rolling_1m'[j] = rolling_1m[k]
    BY <2>2
  <2> QED BY <1>4, <2>1, <2>2
<1> QED BY <1>5 DEF ClosedContent

(* Every call keeps each candle that of the ticks of its minute.           *)
LEMMA ContentStep ==
  ASSUME ~LateAfterClose, OrderInv, LogInv, ClosedContent, FormingContent,
         [Next]_vars
  PROVE  ClosedContent' /\ FormingContent'
<1>1. TypeOK /\ RollingOrdered /\ RollingOrdered'
  BY OrderInvStep DEF OrderInv
<1>2. CASE ClearSymbol
  BY <1>2 DEF ClearSymbol, ClosedContent, FormingContent
<1>3. CASE UNCHANGED vars
  BY <1>3 DEF vars, state, feed, ClosedContent, FormingContent
<1>4. ASSUME NEW t \in Tick, ProcessTick(t)
      PROVE  ClosedContent' /\ FormingContent'
  <2> DEFINE b == current_1m.timestamp
  <2>1. Deliver(t)
    BY <1>4 DEF ProcessTick
  <2>2. /\ t.ts \in Nat /\ Bucket(t.ts) \in Nat /\ t.ltp \in Prices
        /\ NewCandle(t).timestamp = Bucket(t.ts) /\ NewCandle(t) # None
        /\ EpochSecond(t.ts) \in Nat
    BY NumbersLemma, NewCandleLemma, NoneAssumption DEF Tick
  <2>3. current_1m # None => current_1m \in Candle /\ b \in Nat
    BY <1>1 DEF TypeOK, Candle
  <2>4. /\ rolling_1m \in Seq(Candle)
        /\ \A k \in 1 .. Len(rolling_1m) :
             rolling_1m[k] \in Candle /\ rolling_1m[k].timestamp \in Nat
    <3>1. rolling_1m \in Seq(Candle)
      BY <1>1 DEF TypeOK
    <3>2. \A k \in 1 .. Len(rolling_1m) : rolling_1m[k] \in Candle
      BY <3>1
    <3> QED BY <3>1, <3>2 DEF Candle
  <2>5. current_1m # None => CandleFrom(current_1m, b, log)
    BY DEF FormingContent, CandleFrom, ClosesWith
  <2>6. CASE IgnoreTick(t)
    <3>1. UNCHANGED <<current_1m, rolling_1m, last_tick_time, log>>
      BY <2>1, <2>6 DEF IgnoreTick, state, Deliver
    <3> QED BY <3>1 DEF ClosedContent, FormingContent
  <2>7. CASE CloseSession(t)
    <3>1. /\ current_1m # None /\ current_1m' = None /\ log' = log
          /\ rolling_1m' = DequeAppend(rolling_1m, Finalized(current_1m))
      <4>1. ~InSession(t.ts)
        BY <2>2, <2>7, AfterLemma DEF CloseSession
      <4> QED BY <2>1, <2>7, <4>1 DEF CloseSession, Deliver
    <3>2. Finalized(current_1m).is_closed /\ CandleFrom(Finalized(current_1m), b, log')
      BY <2>3, <2>5, <3>1, FinalizedContent DEF CandleFrom
    <3>3. ClosedContent'
      BY <1>1, <3>1, <3>2, AppendedContent DEF ClosedContent
    <3> QED BY <3>1, <3>3 DEF FormingContent
  <2>8. CASE InSession(t.ts)
    <3>1. /\ Grown(log, t, log') /\ log'[Len(log')] = t
          /\ \A i \in 1 .. Len(log) : Bucket(log[i].ts) \in Nat /\ log'[i] = log[i]
      BY <1>1, <2>1, <2>8, LogGrows DEF Grown
    <3>2. ASSUME NEW k \in 1 .. Len(rolling_1m), rolling_1m[k].timestamp # Bucket(t.ts)
          PROVE  CandleFrom(rolling_1m[k], rolling_1m[k].timestamp, log')
      <4>1. CandleFrom(rolling_1m[k], rolling_1m[k].timestamp, log)
        BY DEF ClosedContent
      <4> QED BY <3>1, <3>2, <4>1, OtherMinuteLemma
    <3>3. ASSUME FirstTick(t) \/ Rollover(t) PROVE FormingContent'
      <4>1. /\ current_1m' = NewCandle(t) /\ last_tick_time' = EpochSecond(t.ts)
            /\ \A i \in 1 .. Len(log) : Bucket(log[i].ts) < Bucket(t.ts)
        BY <2>1, <3>3, OpeningLemma DEF FirstTick, Rollover
      <4>2. /\ CandleFrom(NewCandle(t), Bucket(t.ts), log')
            /\ Len(log') \in MinuteTicks(Bucket(t.ts), log')
            /\ Closes(Bucket(t.ts), Len(log'), log')
        BY <3>1, <4>1, FirstTickLemma
      <4>3. NewCandle(t).close = t.ltp /\ ~NewCandle(t).is_closed
        BY DEF NewCandle
      <4> QED BY <2>2, <3>1, <4>1, <4>2, <4>3 DEF FormingContent, CandleFrom
    <3>4. CASE FirstTick(t)
      <4>1. \A k \in 1 .. Len(rolling_1m) : rolling_1m[k].timestamp < Bucket(t.ts)
        BY <1>1, <2>2, <3>4 DEF FirstTick, RollingOrdered
      <4>2. \A k \in 1 .. Len(rolling_1m) :
              CandleFrom(rolling_1m[k], rolling_1m[k].timestamp, log')
        BY <2>2, <2>4, <3>2, <4>1
      <4> QED BY <3>3, <3>4, <4>2 DEF FirstTick, ClosedContent
    <3>5. CASE Rollover(t)
      <4>1. /\ current_1m # None /\ Bucket(t.ts) > b
            /\ rolling_1m' = DequeAppend(rolling_1m, Finalized(current_1m))
        BY <3>5 DEF Rollover
      <4>2. \A k \in 1 .. Len(rolling_1m) : rolling_1m[k].timestamp # Bucket(t.ts)
        BY <1>1, <2>2, <2>3, <2>4, <4>1 DEF RollingOrdered
      <4>3. CandleFrom(current_1m, b, log')
        BY <2>2, <2>3, <2>5, <3>1, <4>1, OtherMinuteLemma
      <4>4. Finalized(current_1m).is_closed /\ CandleFrom(Finalized(current_1m), b, log')
        BY <2>3, <4>1, <4>3, FinalizedContent DEF CandleFrom
      <4>5. \A k \in 1 .. Len(rolling_1m) : /\ rolling_1m[k].is_closed
              /\ CandleFrom(rolling_1m[k], rolling_1m[k].timestamp, log')
        BY <3>2, <4>2 DEF ClosedContent
      <4>6. ClosedContent'
        BY <1>1, <4>1, <4>4, <4>5, AppendedContent
      <4> QED BY <3>3, <3>5, <4>6
    <3>6. CASE UpdateForming(t)
      <4>1. /\ current_1m # None /\ Bucket(t.ts) = b /\ rolling_1m' = rolling_1m
            /\ \A j \in 1 .. Len(log) : Bucket(log[j].ts) <= b
        BY <3>6 DEF UpdateForming, LogInv
      <4>2. ClosedContent'
        <5>1. \A k \in 1 .. Len(rolling_1m) : rolling_1m[k].timestamp # Bucket(t.ts)
          BY <1>1, <2>3, <2>4, <4>1 DEF RollingOrdered
        <5> QED BY <3>2, <4>1, <5>1 DEF ClosedContent
      <4>3. PICK i \in MinuteTicks(b, log) :
              Closes(b, i, log) /\ current_1m.close = log[i].ltp
                /\ last_tick_time = EpochSecond(log[i].ts)
        BY <4>1 DEF FormingContent
      <4>4. /\ current_1m'.open = current_1m.open
            /\ current_1m'.high = HigherOf(current_1m.high, t.ltp)
            /\ current_1m'.low = LowerOf(current_1m.low, t.ltp)
            /\ ~current_1m'.is_closed /\ current_1m'.timestamp = b
            /\ IF EpochSecond(t.ts) >= last_tick_time
               THEN current_1m'.close = t.ltp /\ last_tick_time' = EpochSecond(t.ts)
               ELSE current_1m'.close = current_1m.close
                    /\ last_tick_time' = last_tick_time
        <5>1. ~current_1m.is_closed /\ current_1m \in Candle
          BY <2>3, <4>1 DEF FormingContent
        <5>2. CASE SetsClose(t)
          BY <3>6, <5>1, <5>2 DEF UpdateForming, SetsClose, Stretched, Candle
        <5>3. CASE ~SetsClose(t)
          BY <3>6, <5>1, <5>3 DEF UpdateForming, SetsClose, Stretched, Candle
        <5> QED BY <5>2, <5>3
      <4>5. OpensWith(current_1m', b, log') /\ Spans(current_1m', b, log')
        <5>1. OpensWith(current_1m, b, log) /\ Spans(current_1m, b, log)
          BY <4>1 DEF FormingContent
        <5> QED BY <2>3, <3>1, <4>1, <4>4, <5>1, StretchSpansLemma
      <4>6. \E k \in MinuteTicks(b, log') :
              Closes(b, k, log') /\ current_1m'.close = log'[k].ltp
                /\ last_tick_time' = EpochSecond(log'[k].ts)
        <5>1. IF EpochSecond(t.ts) >= EpochSecond(log[i].ts)
              THEN Closes(b, Len(log'), log')
              ELSE i \in MinuteTicks(b, log') /\ log'[i] = log[i] /\ Closes(b, i, log')
          BY <3>1, <4>1, <4>3, NewCloseLemma
        <5>2. CASE EpochSecond(t.ts) >= last_tick_time
          <6>1. Closes(b, Len(log'), log')
            BY <4>3, <5>1, <5>2
          <6>2. Len(log') \in MinuteTicks(b, log')
            BY <6>1 DEF Closes
          <6> QED BY <3>1, <4>4, <5>2, <6>1, <6>2
        <5>3. CASE ~(EpochSecond(t.ts) >= last_tick_time)
          BY <4>3, <4>4, <5>1, <5>3
        <5> QED BY <5>2, <5>3
      <4>7. FormingContent'
        BY <4>4, <4>5, <4>6 DEF FormingContent
      <4> QED BY <4>2, <4>7
    <3>7. CASE LateTick(t)
      <4>1. /\ current_1m # None /\ Bucket(t.ts) < b
            /\ rolling_1m' = AmendHistory(rolling_1m, Bucket(t.ts), t.ltp)
            /\ UNCHANGED <<current_1m, last_tick_time>>
        BY <3>7 DEF LateTick
      <4>2. \E j \in 1 .. Len(log) : Bucket(log[j].ts) > Bucket(t.ts)
        BY <2>2, <2>3, <4>1 DEF LogInv
      <4>3. FormingContent'
        <5>1. PICK i \in MinuteTicks(b, log) :
                Closes(b, i, log) /\ current_1m.close = log[i].ltp
                  /\ last_tick_time = EpochSecond(log[i].ts)
          BY <4>1 DEF FormingContent
        <5>2. CandleFrom(current_1m, b, log') /\ Closes(b, i, log')
          BY <2>2, <2>3, <2>5, <3>1, <4>1, <5>1, OtherMinuteLemma
        <5>3. i \in MinuteTicks(b, log') /\ log'[i] = log[i]
          BY <3>1, <5>1, <5>2 DEF Closes, MinuteTicks
        <5> QED BY <4>1, <5>1, <5>2, <5>3 DEF FormingContent, CandleFrom
      <4>4. ASSUME NEW k \in 1 .. Len(rolling_1m'), rolling_1m[k].timestamp = Bucket(t.ts),
                   k \in 1 .. Len(rolling_1m), rolling_1m'[k] = Stretched(rolling_1m[k], t.ltp)
            PROVE  /\ rolling_1m'[k].is_closed
                   /\ CandleFrom(rolling_1m'[k], rolling_1m'[k].timestamp, log')
        <5>1. /\ rolling_1m'[k].open = rolling_1m[k].open
              /\ rolling_1m'[k].close = rolling_1m[k].close
              /\ rolling_1m'[k].high = HigherOf(rolling_1m[k].high, t.ltp)
              /\ rolling_1m'[k].low = LowerOf(rolling_1m[k].low, t.ltp)
              /\ rolling_1m'[k].timestamp = Bucket(t.ts)
              /\ rolling_1m'[k].is_closed = rolling_1m[k].is_closed
          BY <2>4, <4>4 DEF Stretched, Candle
        <5>2. /\ rolling_1m[k].is_closed
              /\ OpensWith(rolling_1m[k], Bucket(t.ts), log)
              /\ Spans(rolling_1m[k], Bucket(t.ts), log)
              /\ ClosesWith(rolling_1m[k], Bucket(t.ts), log)
          BY <4>4 DEF ClosedContent, CandleFrom
        <5>3. /\ OpensWith(rolling_1m'[k], Bucket(t.ts), log')
              /\ Spans(rolling_1m'[k], Bucket(t.ts), log')
          BY <2>4, <3>1, <4>4, <5>1, <5>2, StretchSpansLemma
        <5>4. PICK i \in MinuteTicks(Bucket(t.ts), log) :
                Closes(Bucket(t.ts), i, log) /\ rolling_1m[k].close = log[i].ltp
          BY <5>2 DEF ClosesWith
        <5>5. /\ i \in MinuteTicks(Bucket(t.ts), log') /\ log'[i] = log[i]
              /\ Closes(Bucket(t.ts), i, log')
          BY <3>1, <4>2, <5>4, LateCloseLemma
        <5> QED BY <5>1, <5>2, <5>3, <5>4, <5>5 DEF CandleFrom, ClosesWith
      <4>5. ASSUME NEW k \in 1 .. Len(rolling_1m')
            PROVE  /\ rolling_1m'[k].is_closed
                   /\ CandleFrom(rolling_1m'[k], rolling_1m'[k].timestamp, log')
        <5>1. Len(rolling_1m') = Len(rolling_1m) /\ k \in 1 .. Len(rolling_1m)
          BY <2>2, <2>4, <4>1, AmendHistoryLemma
        <5>2. rolling_1m'[k] = IF IsFirstMatch(rolling_1m, Bucket(t.ts), k)
                               THEN Stretched(rolling_1m[k], t.ltp) ELSE rolling_1m[k]
          BY <4>1, <5>1 DEF AmendHistory
        <5>3. IsFirstMatch(rolling_1m, Bucket(t.ts), k)
                <=> rolling_1m[k].timestamp = Bucket(t.ts)
          <6>1. ASSUME rolling_1m[k].timestamp = Bucket(t.ts), NEW j \in 1 .. (k - 1)
                PROVE  rolling_1m[j].timestamp # Bucket(t.ts)
            <7>1. j \in 1 .. Len(rolling_1m) /\ j < k
              BY <2>4, <5>1
            <7>2. rolling_1m[j].timestamp < rolling_1m[k].timestamp
              BY <1>1, <5>1, <7>1 DEF RollingOrdered
            <7> QED BY <2>4, <5>1, <6>1, <7>1, <7>2
          <6> QED BY <6>1 DEF IsFirstMatch
        <5>4. CASE rolling_1m[k].timestamp = Bucket(t.ts)
          BY <4>4, <5>1, <5>2, <5>3, <5>4
        <5>5. CASE rolling_1m[k].timestamp # Bucket(t.ts)
          BY <3>2, <5>1, <5>2, <5>3, <5>5 DEF ClosedContent
        <5> QED BY <5>4, <5>5
      <4> QED BY <4>3, <4>5 DEF ClosedContent
    <3>8. ~IgnoreTick(t) /\ ~CloseSession(t)
      BY <2>2, <2>8, AfterLemma DEF IgnoreTick, CloseSession
    <3> QED BY <1>4, <3>4, <3>5, <3>6, <3>7, <3>8 DEF ProcessTick
  <2> QED BY <1>4, <2>6, <2>7, <2>8
          DEF ProcessTick, FirstTick, UpdateForming, Rollover, LateTick
<1> QED BY <1>2, <1>3, <1>4 DEF Next

(* Under the same feeds, for all prices and times: every candle that       *)
(* readers get, forming or closed, is the candle of the ticks of its       *)
(* minute, late ones included.                                             *)
THEOREM CandlesTellTicks == ASSUME ~LateAfterClose PROVE Spec => []CandlesMatchTicks
<1> DEFINE Inv == OrderInv /\ LogInv /\ ClosedContent /\ FormingContent
<1>1. Init => Inv
  BY OrderInvInit DEF Init, LogInv, ClosedContent, FormingContent
<1>2. Inv /\ [Next]_vars => Inv'
  BY OrderInvStep, LogStep, ContentStep
<1>3. Inv => CandlesMatchTicks
  <2> SUFFICES ASSUME Inv, NEW k \in 1 .. Len(AllCandles)
               PROVE  /\ IsCandleOf(AllCandles[k], AllCandles[k].timestamp)
                      /\ AllCandles[k].is_closed <=> k <= Len(rolling_1m)
    BY DEF CandlesMatchTicks
  <2>1. /\ Len(rolling_1m) \in Nat
        /\ \A j \in 1 .. Len(rolling_1m) : AllCandles[j] = rolling_1m[j]
        /\ \/ k \in 1 .. Len(rolling_1m)
           \/ /\ k = Len(rolling_1m) + 1 /\ current_1m # None
              /\ AllCandles[k] = current_1m
    BY AllCandlesLemma DEF OrderInv
  <2>2. CASE k \in 1 .. Len(rolling_1m)
    <3>1. /\ rolling_1m[k].is_closed
          /\ CandleFrom(rolling_1m[k], rolling_1m[k].timestamp, log)
      BY <2>2 DEF ClosedContent
    <3> QED BY <2>1, <2>2, <3>1, ReadingLemma
  <2>3. CASE k = Len(rolling_1m) + 1 /\ current_1m # None /\ AllCandles[k] = current_1m
    <3>1. ~current_1m.is_closed /\ CandleFrom(current_1m, current_1m.timestamp, log)
      BY <2>3 DEF FormingContent, CandleFrom, ClosesWith
    <3> QED BY <2>1, <2>3, <3>1, ReadingLemma
  <2> QED BY <2>1, <2>2, <2>3
<1> QED BY <1>1, <1>2, <1>3, PTL DEF Spec
-----------------------------------------------------------------------------
(* Candles in strictly increasing time order; their timestamps.            *)
Rising(cs) ==
  \A i, j \in 1 .. Len(cs) : i < j => cs[i].timestamp < cs[j].timestamp

Stamps(cs) == {cs[i].timestamp : i \in DOMAIN cs}

(* The merge of two lists in time order is in time order, with no bucket   *)
(* twice and none left out.                                                *)
LEMMA MergeLemma ==
  ASSUME NEW U, \A u \in U : u.timestamp \in Int,
         NEW historical \in Seq(U), NEW live \in Seq(U),
         Rising(historical), Rising(live)
  PROVE  /\ Merge(historical, live) \in Seq(U) /\ Rising(Merge(historical, live))
         /\ Stamps(Merge(historical, live)) = Stamps(live) \cup Stamps(historical)
<1> DEFINE at == {i \in DOMAIN historical : historical[i].timestamp \notin Stamps(live)}
           older == Keep(historical, at)
           all == older \o live
           key == [i \in DOMAIN all |-> all[i].timestamp]
           m == Len(older)
           n == Len(live)
           N == Len(all)
           sorted == SortBy(all, key)
<1>1. Merge(historical, live) = sorted
  BY DEF Merge, Sorted, Stamps
<1>2. at \in SUBSET (1 .. Len(historical)) /\ DOMAIN historical = 1 .. Len(historical)
      /\ DOMAIN live = 1 .. n /\ Len(historical) \in Nat
  OBVIOUS
<1>3. /\ older \in Seq(U)
      /\ \E position \in [1 .. m -> at] :
           /\ \A k \in 1 .. m : older[k] = historical[position[k]]
           /\ \A j, k \in 1 .. m : j < k => position[j] < position[k]
           /\ \A i \in at : \E k \in 1 .. m : position[k] = i
  <2>1. historical \in Seq(U) /\ at \in SUBSET (1 .. Len(historical))
    BY <1>2
  <2>2. older = Keep(historical, at) /\ m = Len(older)
    OBVIOUS
  <2> HIDE DEF at, older, all, key, m, n, N, sorted
  <2> QED BY ONLY <2>1, <2>2, KeepLemma
<1>a. \A i \in at : i \in 1 .. Len(historical) /\ historical[i].timestamp \notin Stamps(live)
  BY <1>2
<1>b. \A i \in 1 .. Len(historical) : i \notin at => historical[i].timestamp \in Stamps(live)
  BY <1>2
<1>c. \A i \in 1 .. n : live[i].timestamp \in Stamps(live)
  BY <1>2 DEF Stamps
<1> HIDE DEF older, at
<1>4. PICK position \in [1 .. m -> at] :
         /\ \A k \in 1 .. m : older[k] = historical[position[k]]
         /\ \A j, k \in 1 .. m : j < k => position[j] < position[k]
         /\ \A i \in at : \E k \in 1 .. m : position[k] = i
  BY <1>3
<1>5. /\ m \in Nat /\ n \in Nat
      /\ all \in Seq(U) /\ Len(all) = N /\ DOMAIN all = 1 .. N /\ N = m + n
      /\ \A i \in 1 .. m : all[i] = older[i]
      /\ \A k \in 1 .. n : all[m + k] = live[k]
  BY <1>3, ConcatLemma
<1> HIDE DEF all
<1>l. N = Len(all)
  OBVIOUS
<1>6. \A u \in U : u.timestamp \in Int
  OBVIOUS
<1>7. key \in [1 .. N -> Int]
  <2>1. \A i \in DOMAIN all : all[i] \in U
    BY <1>5
  <2> QED BY <1>5, <1>6, <2>1
<1>8. \A i \in 1 .. N : key[i] = all[i].timestamp
  BY <1>5
<1> HIDE DEF key, m, n, N
<1>9. ASSUME NEW i \in 1 .. N
      PROVE  \/ i \in 1 .. m /\ position[i] \in at /\ key[i] = historical[position[i]].timestamp
             \/ i - m \in 1 .. n /\ key[i] = live[i - m].timestamp
  <2>1. CASE i \in 1 .. m
    BY <1>4, <1>5, <1>8, <2>1
  <2>2. CASE i \notin 1 .. m
    <3>1. i - m \in 1 .. n /\ i = m + (i - m)
      BY <1>5, <2>2
    <3>2. all[m + (i - m)] = live[i - m]
      BY <1>5, <3>1
    <3> QED BY <1>8, <3>1, <3>2
  <2> QED BY <2>1, <2>2
<1>p. \A i \in 1 .. m : key[i] = historical[position[i]].timestamp
  <2> SUFFICES ASSUME NEW i \in 1 .. m
               PROVE  key[i] = historical[position[i]].timestamp
    OBVIOUS
  <2>1. i \in 1 .. N
    BY <1>5
  <2>2. all[i] = older[i] /\ older[i] = historical[position[i]]
    BY <1>4, <1>5
  <2> QED BY <1>8, <2>1, <2>2
<1>10. ASSUME NEW i \in 1 .. N, NEW j \in 1 .. N, i < j
       PROVE  key[i] # key[j]
  <2>1. CASE i \in 1 .. m /\ j \in 1 .. m
    <3>1. position[i] < position[j] /\ position[i] \in at /\ position[j] \in at
      BY <1>4, <1>10, <2>1
    <3>2. key[i] < key[j] /\ key[i] \in Int /\ key[j] \in Int
      <4>1. /\ key[i] = historical[position[i]].timestamp
            /\ key[j] = historical[position[j]].timestamp
        BY <1>p, <2>1
      <4>2. historical[position[i]].timestamp < historical[position[j]].timestamp
        BY <1>a, <3>1 DEF Rising
      <4>3. historical[position[i]] \in U /\ historical[position[j]] \in U
        BY <1>a, <3>1
      <4> QED BY <1>6, <4>1, <4>2, <4>3
    <3> QED BY <3>2
  <2>2. CASE i \in 1 .. m /\ j \notin 1 .. m
    <3>1. key[i] \notin Stamps(live)
      BY <1>4, <1>5, <1>8, <1>a, <2>2
    <3>2. j - m \in 1 .. n /\ key[j] = live[j - m].timestamp
      BY <1>9, <2>2
    <3> QED BY <1>c, <3>1, <3>2
  <2>3. CASE i \notin 1 .. m
    <3>1. /\ i - m \in 1 .. n /\ key[i] = live[i - m].timestamp
          /\ j - m \in 1 .. n /\ key[j] = live[j - m].timestamp
      <4>1. j \notin 1 .. m
        BY <1>5, <1>10, <2>3
      <4> QED BY <1>9, <2>3, <4>1
    <3>2. i - m < j - m
      BY <1>5, <1>10
    <3>3. live[i - m].timestamp < live[j - m].timestamp
      BY <3>1, <3>2 DEF Rising, n
    <3>4. live[i - m] \in U /\ live[j - m] \in U
      BY <3>1 DEF n
    <3> QED BY <1>6, <3>1, <3>3, <3>4
  <2> QED BY <2>1, <2>2, <2>3
<1>11. /\ sorted \in Seq(U) /\ Len(sorted) = N
       /\ \E from \in [1 .. N -> 1 .. N] :
            /\ \A k \in 1 .. N : sorted[k] = all[from[k]]
            /\ \A i \in 1 .. N : \E k \in 1 .. N : from[k] = i
            /\ \A j, k \in 1 .. N : j < k =>
                 \/ key[from[j]] < key[from[k]]
                 \/ key[from[j]] = key[from[k]] /\ from[j] < from[k]
  <2>1. all \in Seq(U) /\ key \in [1 .. Len(all) -> Int]
    BY <1>5, <1>7, <1>l
  <2>2. /\ SortBy(all, key) \in Seq(U) /\ Len(SortBy(all, key)) = Len(all)
        /\ \E from \in [1 .. Len(all) -> 1 .. Len(all)] :
             /\ \A k \in 1 .. Len(all) : SortBy(all, key)[k] = all[from[k]]
             /\ \A i \in 1 .. Len(all) : \E k \in 1 .. Len(all) : from[k] = i
             /\ \A j, k \in 1 .. Len(all) : j < k =>
                  \/ key[from[j]] < key[from[k]]
                  \/ key[from[j]] = key[from[k]] /\ from[j] < from[k]
    <3> HIDE DEF sorted
    <3> QED BY ONLY <2>1, SortByLemma, Zenon
  <2> QED BY ONLY <1>l, <2>2
<1> HIDE DEF sorted
<1>12. PICK from \in [1 .. N -> 1 .. N] :
            /\ \A k \in 1 .. N : sorted[k] = all[from[k]]
            /\ \A i \in 1 .. N : \E k \in 1 .. N : from[k] = i
            /\ \A j, k \in 1 .. N : j < k =>
                 \/ key[from[j]] < key[from[k]]
                 \/ key[from[j]] = key[from[k]] /\ from[j] < from[k]
  BY ONLY <1>11
<1>13. \A k \in 1 .. N : sorted[k].timestamp = key[from[k]] /\ from[k] \in 1 .. N
  BY <1>8, <1>12
<1>14. Rising(sorted)
  <2> SUFFICES ASSUME NEW i \in 1 .. N, NEW j \in 1 .. N, i < j
               PROVE  sorted[i].timestamp < sorted[j].timestamp
    BY <1>5, <1>11 DEF Rising
  <2>1. from[i] \in 1 .. N /\ from[j] \in 1 .. N
    BY <1>13
  <2>2. \/ key[from[i]] < key[from[j]]
        \/ key[from[i]] = key[from[j]] /\ from[i] < from[j]
    BY <1>12
  <2>3. key[from[i]] < key[from[j]]
    BY <1>10, <2>1, <2>2
  <2> QED BY <1>13, <2>3
<1>15. Stamps(sorted) = {key[i] : i \in 1 .. N}
  <2>1. DOMAIN sorted = 1 .. N
    BY <1>5, <1>11
  <2>2. \A i \in 1 .. N : \E k \in 1 .. N : from[k] = i
    BY <1>12
  <2>3. \A x : x \in Stamps(sorted) <=> \E k \in 1 .. N : x = sorted[k].timestamp
    BY <2>1 DEF Stamps
  <2>4. \A x : x \in Stamps(sorted) <=> \E k \in 1 .. N : x = key[from[k]]
    BY <1>13, <2>3
  <2>5. \A x : x \in Stamps(sorted) <=> \E i \in 1 .. N : x = key[i]
    BY <1>13, <2>2, <2>4
  <2> QED BY <2>5
<1>16. {key[i] : i \in 1 .. N} = Stamps(live) \cup Stamps(historical)
  <2>1. ASSUME NEW i \in 1 .. N PROVE key[i] \in Stamps(live) \cup Stamps(historical)
    <3>1. CASE i \in 1 .. m /\ position[i] \in at /\ key[i] = historical[position[i]].timestamp
      BY <1>2, <1>a, <3>1 DEF Stamps
    <3>2. CASE i - m \in 1 .. n /\ key[i] = live[i - m].timestamp
      BY <1>c, <3>2
    <3> QED BY <1>9, <3>1, <3>2
  <2>2. ASSUME NEW x \in Stamps(live) PROVE \E i \in 1 .. N : key[i] = x
    <3>1. PICK k \in 1 .. n : x = live[k].timestamp
      BY <1>2, <2>2 DEF Stamps
    <3>2. m + k \in 1 .. N
      BY <1>5
    <3> QED BY <1>5, <1>8, <3>1, <3>2
  <2>3. ASSUME NEW x \in Stamps(historical) PROVE x \in Stamps(live) \/ \E i \in 1 .. N : key[i] = x
    <3>1. PICK i \in 1 .. Len(historical) : x = historical[i].timestamp
      BY <1>2, <2>3 DEF Stamps
    <3>2. CASE i \in at
      <4>1. PICK k \in 1 .. m : position[k] = i
        BY <1>4, <3>2
      <4>2. k \in 1 .. N
        BY <1>5
      <4>3. key[k] = older[k].timestamp /\ older[k] = historical[i]
        BY <1>4, <1>5, <1>8, <4>1, <4>2
      <4> QED BY <3>1, <4>2, <4>3
    <3> QED BY <1>b, <3>1, <3>2
  <2> QED BY <2>1, <2>2, <2>3
<1> QED BY <1>1, <1>11, <1>14, <1>15, <1>16

-----------------------------------------------------------------------------
(* Frames have a positive length, and every minute is in one.              *)
LEMMA FrameType ==
  ASSUME NEW tf \in DOMAIN TIMEFRAME_MINUTES, NEW ts \in Nat
  PROVE  FrameOf(ts, tf) \in Int
<1> DEFINE length == MINUTE * TIMEFRAME_MINUTES[tf]
           r == (TimeOfDay(ts) - MARKET_OPEN_TIME) % length
<1>1. length \in Nat /\ length > 0
  BY AggregationConstants DEF MINUTE
<1>2. TimeOfDay(ts) - MARKET_OPEN_TIME \in Int
  BY DEF TimeOfDay, DAY, MARKET_OPEN_TIME
<1> HIDE DEF length
<1>3. r \in Int
  BY <1>1, <1>2
<1> HIDE DEF r
<1>4. FrameOf(ts, tf) = ts - r
  BY DEF FrameOf, r, length
<1> QED BY <1>3, <1>4

(* aggregate_candles makes one candle per frame, in their order.           *)
FramesOf(cs, tf) == {FrameOf(cs[i].timestamp, tf) : i \in DOMAIN cs}

LEMMA AggregateLemma ==
  ASSUME NEW tf \in Frames, NEW cs \in Seq(Candle)
  PROVE  \E n \in Nat : \E f \in [1 .. n -> FramesOf(cs, tf)] :
           /\ Aggregate(cs, tf) =
                [k \in 1 .. n |-> FrameCandle(Group(cs, f[k], tf), f[k], tf)]
           /\ \A j, k \in 1 .. n : j < k => f[j] < f[k]
           /\ FramesOf(cs, tf) \subseteq Int
<1> DEFINE S == FramesOf(cs, tf)
           f == Ascending(S)
           n == Cardinality(S)
<1>1. tf \in DOMAIN TIMEFRAME_MINUTES /\ tf # "1m"
  BY DEF Frames
<1>2. DOMAIN cs = 1 .. Len(cs) /\ Len(cs) \in Nat /\ \A i \in 1 .. Len(cs) : cs[i].timestamp \in Nat
  <2>1. \A i \in 1 .. Len(cs) : cs[i] \in Candle
    OBVIOUS
  <2> QED BY <2>1 DEF Candle
<1>3. S \in SUBSET Int
  BY <1>1, <1>2, FrameType DEF FramesOf
<1>4. IsFiniteSet(S)
  <2> DEFINE g == [i \in 1 .. Len(cs) |-> FrameOf(cs[i].timestamp, tf)]
  <2>1. IsFiniteSet(1 .. Len(cs))
    BY <1>2, FS_Interval
  <2>2. g \in Surjection(1 .. Len(cs), S)
    BY <1>2 DEF Surjection, FramesOf
  <2> HIDE DEF g
  <2> QED BY <2>1, <2>2, FS_Surjection
<1>5. /\ n \in Nat /\ f \in [1 .. n -> S]
      /\ \A j, k \in 1 .. n : j < k => f[j] < f[k]
  BY <1>3, <1>4, AscendingLemma
<1>6. DOMAIN f = 1 .. n
  BY <1>5
<1>7. Aggregate(cs, tf) = [k \in DOMAIN f |-> FrameCandle(Group(cs, f[k], tf), f[k], tf)]
  BY <1>1, Zenon DEF Aggregate, FramesOf
<1>8. Aggregate(cs, tf) = [k \in 1 .. n |-> FrameCandle(Group(cs, f[k], tf), f[k], tf)]
  BY <1>6, <1>7
<1> HIDE DEF n, f
<1> QED BY <1>3, <1>5, <1>8

LEMMA FrameCandleLemma ==
  ASSUME NEW g, NEW f, NEW tf
  PROVE  /\ FrameCandle(g, f, tf).timestamp = f
         /\ FrameCandle(g, f, tf).is_closed = IsComplete(g, tf)
BY DEF FrameCandle

(* A sequence is one of its own elements.                                  *)
LEMMA OwnElements ==
  ASSUME NEW T, NEW s \in Seq(T)
  PROVE  s \in Seq({s[i] : i \in DOMAIN s})
OBVIOUS

(* What readers get for any timeframe is in time order.                    *)
LEMMA LiveRises ==
  ASSUME NEW cs \in Seq(Candle), Rising(cs), NEW tf \in DOMAIN TIMEFRAME_MINUTES \cup {"1D"}
  PROVE  LET live == Aggregate(cs, tf)
         IN  /\ Rising(live) /\ live \in Seq({live[i] : i \in DOMAIN live})
             /\ \A i \in DOMAIN live : live[i].timestamp \in Int
<1> DEFINE live == Aggregate(cs, tf)
<1>1. CASE tf \in Frames
  <2>0. PICK n \in Nat : \E f \in [1 .. n -> FramesOf(cs, tf)] :
           /\ live = [k \in 1 .. n |-> FrameCandle(Group(cs, f[k], tf), f[k], tf)]
           /\ \A j, k \in 1 .. n : j < k => f[j] < f[k]
           /\ FramesOf(cs, tf) \subseteq Int
    BY <1>1, AggregateLemma
  <2>1. PICK f \in [1 .. n -> FramesOf(cs, tf)] :
           /\ live = [k \in 1 .. n |-> FrameCandle(Group(cs, f[k], tf), f[k], tf)]
           /\ \A j, k \in 1 .. n : j < k => f[j] < f[k]
           /\ FramesOf(cs, tf) \subseteq Int
    BY <2>0
  <2>2. /\ DOMAIN live = 1 .. n /\ Len(live) = n
        /\ live \in Seq({live[i] : i \in DOMAIN live})
        /\ \A k \in 1 .. n : live[k] = FrameCandle(Group(cs, f[k], tf), f[k], tf)
    <3> DEFINE frame(k) == FrameCandle(Group(cs, f[k], tf), f[k], tf)
    <3>1. live = [k \in 1 .. n |-> frame(k)]
      BY <2>1
    <3> HIDE DEF frame, live
    <3>2. DOMAIN live = 1 .. n /\ \A k \in 1 .. n : live[k] = frame(k)
      BY <3>1
    <3>3. Len(live) = n /\ live \in Seq({live[i] : i \in DOMAIN live})
      BY <3>1, <3>2
    <3> QED BY <3>2, <3>3 DEF frame
  <2>3. \A k \in 1 .. n : live[k].timestamp = f[k]
    BY <2>2, FrameCandleLemma
  <2> HIDE DEF live
  <2>4. Rising(live)
    BY <2>1, <2>2, <2>3 DEF Rising
  <2>5. \A k \in 1 .. n : f[k] \in Int
    BY <2>1
  <2> QED BY <2>2, <2>3, <2>4, <2>5 DEF live
<1>2. CASE tf \notin Frames
  <2>1. live = cs
    BY <1>2 DEF Frames, Aggregate
  <2>2. \A i \in DOMAIN cs : cs[i] \in Candle
    OBVIOUS
  <2>3. \A i \in DOMAIN cs : cs[i].timestamp \in Int
    BY <2>2 DEF Candle
  <2> QED BY <2>1, <2>3, OwnElements
<1> QED BY <1>1, <1>2

LEMMA HistoryRises ==
  ASSUME NEW tf \in DOMAIN TIMEFRAME_MINUTES \cup {"1D"}, NEW historical \in Histories(tf)
  PROVE  /\ Rising(historical) /\ historical \in Seq({historical[i] : i \in DOMAIN historical})
         /\ \A i \in DOMAIN historical : historical[i].timestamp \in Int
<1> DEFINE frame(ts) == IF tf \in DOMAIN TIMEFRAME_MINUTES THEN FrameOf(ts, tf) ELSE ts
           rows == {frame(ts) : ts \in HistoryTimes}
<1>1. PICK S \in {T \in SUBSET rows : IsFiniteSet(T)} :
        historical = [k \in 1 .. Cardinality(S) |-> HistoricalCandle(Ascending(S)[k])]
  BY Zenon DEF Histories
<1>2. rows \subseteq Int
  BY FrameType, AggregationConstants
<1>3. S \in SUBSET Int /\ IsFiniteSet(S)
  BY <1>1, <1>2
<1> DEFINE n == Cardinality(S)
           f == Ascending(S)
<1>4. /\ n \in Nat /\ f \in [1 .. n -> S]
      /\ \A j, k \in 1 .. n : j < k => f[j] < f[k]
  BY <1>3, AscendingLemma
<1>5. historical = [k \in 1 .. n |-> HistoricalCandle(f[k])]
  BY <1>1
<1> HIDE DEF n, f
<1>6. /\ DOMAIN historical = 1 .. n /\ Len(historical) = n
      /\ historical \in Seq({historical[i] : i \in DOMAIN historical})
      /\ \A k \in 1 .. n : historical[k] = HistoricalCandle(f[k])
  BY <1>4, <1>5
<1>7. \A k \in 1 .. n : historical[k].timestamp = f[k] /\ f[k] \in Int
  <2>1. \A ts : HistoricalCandle(ts).timestamp = ts
    BY DEF HistoricalCandle
  <2> QED BY <1>3, <1>4, <1>6, <2>1
<1> QED BY <1>4, <1>6, <1>7 DEF Rising

(* All that the engine holds, the forming candle at the end, is in order.  *)
LEMMA AllRises == ASSUME OrderInv PROVE AllCandles \in Seq(Candle) /\ Rising(AllCandles)
<1> DEFINE cs == AllCandles
<1>1. TypeOK /\ RollingOrdered
  BY DEF OrderInv
<1>2. cs \in Seq(Candle)
  BY <1>1 DEF TypeOK, AllCandles
<1>3. ASSUME NEW i \in 1 .. Len(cs), NEW j \in 1 .. Len(cs), i < j
      PROVE  cs[i].timestamp < cs[j].timestamp
  <2> HIDE DEF cs
  <2>1. /\ Len(rolling_1m) \in Nat
        /\ \A k \in 1 .. Len(rolling_1m) : cs[k] = rolling_1m[k]
        /\ \A k \in 1 .. Len(cs) :
             \/ k \in 1 .. Len(rolling_1m)
             \/ k = Len(rolling_1m) + 1 /\ current_1m # None /\ cs[k] = current_1m
    BY <1>1, AllCandlesLemma DEF cs
  <2>2. i \in 1 .. Len(rolling_1m) /\ cs[i] = rolling_1m[i]
    BY <1>3, <2>1
  <2>3. CASE j \in 1 .. Len(rolling_1m)
    BY <1>1, <1>3, <2>1, <2>2, <2>3 DEF RollingOrdered
  <2>4. CASE current_1m # None /\ cs[j] = current_1m
    BY <1>1, <2>2, <2>4 DEF RollingOrdered
  <2> QED BY <2>1, <2>3, <2>4
<1> QED BY <1>2, <1>3 DEF Rising

LEMMA MergedInOrder == ASSUME OrderInv PROVE MergedOrdered
<1> DEFINE cs == AllCandles
<1>2. cs \in Seq(Candle) /\ Rising(cs)
  BY AllRises
<1> SUFFICES ASSUME NEW tf \in DOMAIN TIMEFRAME_MINUTES \cup {"1D"},
                    NEW historical \in Histories(tf)
             PROVE  LET live == CandlesForTimeframe(tf)
                        merged == Merge(historical, live)
                    IN  /\ \A i, j \in DOMAIN merged :
                             i < j => merged[i].timestamp < merged[j].timestamp
                        /\ {merged[i].timestamp : i \in DOMAIN merged} =
                             {live[i].timestamp : i \in DOMAIN live}
                               \cup {historical[i].timestamp : i \in DOMAIN historical}
  BY Zenon DEF MergedOrdered
<1> DEFINE live == CandlesForTimeframe(tf)
           merged == Merge(historical, live)
           U == {live[i] : i \in DOMAIN live} \cup {historical[i] : i \in DOMAIN historical}
<1>3. live = Aggregate(cs, tf)
  BY DEF CandlesForTimeframe
<1> HIDE DEF cs, live
<1>4. /\ Rising(live) /\ live \in Seq({live[i] : i \in DOMAIN live})
      /\ \A i \in DOMAIN live : live[i].timestamp \in Int
  BY <1>2, <1>3, LiveRises
<1>5. /\ Rising(historical) /\ historical \in Seq({historical[i] : i \in DOMAIN historical})
      /\ \A i \in DOMAIN historical : historical[i].timestamp \in Int
  BY HistoryRises
<1>6. \A u \in U : u.timestamp \in Int
  BY <1>4, <1>5
<1>7. live \in Seq(U) /\ historical \in Seq(U)
  BY <1>4, <1>5
<1> HIDE DEF U, merged
<1>8. merged \in Seq(U) /\ Rising(merged) /\ Stamps(merged) = Stamps(live) \cup Stamps(historical)
  BY <1>4, <1>5, <1>6, <1>7, MergeLemma DEF merged
<1>9. DOMAIN merged = 1 .. Len(merged)
  BY <1>8
<1> QED BY <1>8, <1>9 DEF Rising, Stamps, live, merged

(* Whatever history FYERS returns and whenever the chart asks, for every   *)
(* table of timeframes: the merged list is strictly in time order and has  *)
(* every bucket of both sources.                                           *)
THEOREM ChartInOrder == ASSUME ~LateAfterClose PROVE Spec => []MergedOrdered
<1>1. OrderInv /\ [Next]_vars => OrderInv'
  BY OrderInvStep
<1> QED BY OrderInvInit, <1>1, MergedInOrder, PTL DEF Spec

(* The candles of a frame, in time order: position says where in cs each   *)
(* comes from, and every candle of the frame is there.                     *)
IsGroup(g, position, cs, f, tf) ==
  /\ g \in Seq(Candle) /\ Len(g) \in Nat /\ Len(g) # 0 /\ Rising(g)
  /\ position \in [1 .. Len(g) -> 1 .. Len(cs)]
  /\ \A k \in 1 .. Len(g) :
       g[k] = cs[position[k]] /\ FrameOf(g[k].timestamp, tf) = f
  /\ \A i \in 1 .. Len(cs) :
       FrameOf(cs[i].timestamp, tf) = f => \E k \in 1 .. Len(g) : position[k] = i

LEMMA GroupLemma ==
  ASSUME NEW cs \in Seq(Candle), Rising(cs), NEW tf \in Frames,
         NEW c \in ToSet(Aggregate(cs, tf))
  PROVE  \E g, position : /\ c = FrameCandle(g, c.timestamp, tf)
                          /\ IsGroup(g, position, cs, c.timestamp, tf)
                          /\ c.timestamp \in Int
<1>1. PICK n \in Nat : \E f \in [1 .. n -> FramesOf(cs, tf)] :
           /\ Aggregate(cs, tf) = [k \in 1 .. n |-> FrameCandle(Group(cs, f[k], tf), f[k], tf)]
           /\ \A j, k \in 1 .. n : j < k => f[j] < f[k]
           /\ FramesOf(cs, tf) \subseteq Int
  BY AggregateLemma
<1>2. PICK ff \in [1 .. n -> FramesOf(cs, tf)] :
           /\ Aggregate(cs, tf) = [k \in 1 .. n |-> FrameCandle(Group(cs, ff[k], tf), ff[k], tf)]
           /\ FramesOf(cs, tf) \subseteq Int
  BY <1>1
<1>3. PICK f \in FramesOf(cs, tf) : c = FrameCandle(Group(cs, f, tf), f, tf) /\ f \in Int
  <2> DEFINE frame(k) == FrameCandle(Group(cs, ff[k], tf), ff[k], tf)
             live == Aggregate(cs, tf)
  <2>1. live = [k \in 1 .. n |-> frame(k)]
    BY <1>2
  <2> HIDE DEF frame
  <2>2. c \in {live[k] : k \in 1 .. n}
    <3>1. DOMAIN live = 1 .. n
      BY <2>1
    <3> QED BY <3>1, Zenon DEF ToSet
  <2> HIDE DEF live
  <2>3. PICK k \in 1 .. n : c = frame(k)
    BY <2>1, <2>2
  <2> QED BY <1>2, <2>3 DEF frame
<1> DEFINE at == {i \in DOMAIN cs : FrameOf(cs[i].timestamp, tf) = f}
           g == Keep(cs, at)
           m == Len(g)
<1>4. c.timestamp = f /\ c = FrameCandle(g, c.timestamp, tf)
  <2>1. Group(cs, f, tf) = g
    BY DEF Group
  <2> HIDE DEF g
  <2> QED BY <1>3, <2>1, FrameCandleLemma
<1>5. DOMAIN cs = 1 .. Len(cs) /\ Len(cs) \in Nat /\ at \in SUBSET (1 .. Len(cs)) /\ at # {}
  BY <1>3 DEF FramesOf
<1>5a. \A i : i \in at <=> i \in 1 .. Len(cs) /\ FrameOf(cs[i].timestamp, tf) = f
  BY <1>5
<1>6. /\ g \in Seq(Candle)
      /\ \E position \in [1 .. m -> at] :
           /\ \A k \in 1 .. m : g[k] = cs[position[k]]
           /\ \A j, k \in 1 .. m : j < k => position[j] < position[k]
           /\ \A i \in at : \E k \in 1 .. m : position[k] = i
  <2> DEFINE T == Candle
  <2>1. cs \in Seq(T) /\ at \in SUBSET (1 .. Len(cs))
    BY <1>5
  <2>2. g = Keep(cs, at) /\ m = Len(g)
    OBVIOUS
  <2> HIDE DEF at, g, m
  <2> SUFFICES /\ g \in Seq(T)
               /\ \E position \in [1 .. m -> at] :
                    /\ \A k \in 1 .. m : g[k] = cs[position[k]]
                    /\ \A j, k \in 1 .. m : j < k => position[j] < position[k]
                    /\ \A i \in at : \E k \in 1 .. m : position[k] = i
    OBVIOUS
  <2> HIDE DEF T
  <2> QED BY ONLY <2>1, <2>2, KeepLemma
<1> HIDE DEF g, at
<1>7. PICK position \in [1 .. m -> at] :
           /\ \A k \in 1 .. m : g[k] = cs[position[k]]
           /\ \A j, k \in 1 .. m : j < k => position[j] < position[k]
           /\ \A i \in at : \E k \in 1 .. m : position[k] = i
  BY <1>6
<1>8. m \in Nat
  BY <1>6
<1> HIDE DEF m
<1>9. \A k \in 1 .. m : position[k] \in at /\ position[k] \in 1 .. Len(cs)
  BY <1>5, <1>7
<1>10. m # 0
  <2>1. PICK i \in at : \E k \in 1 .. m : position[k] = i
    BY <1>5, <1>7
  <2> QED BY <1>8, <2>1
<1>11. Rising(g)
  <2> SUFFICES ASSUME NEW j \in 1 .. m, NEW k \in 1 .. m, j < k
               PROVE  g[j].timestamp < g[k].timestamp
    BY DEF Rising, m
  <2>1. position[j] < position[k]
    BY <1>7
  <2>2. cs[position[j]].timestamp < cs[position[k]].timestamp
    BY <1>9, <2>1 DEF Rising
  <2> QED BY <1>7, <2>2
<1>12. position \in [1 .. m -> 1 .. Len(cs)]
  BY <1>7, <1>9
<1>13. \A k \in 1 .. m : g[k] = cs[position[k]] /\ FrameOf(g[k].timestamp, tf) = f
  BY <1>5a, <1>7, <1>9
<1>14. \A i \in 1 .. Len(cs) : FrameOf(cs[i].timestamp, tf) = f => \E k \in 1 .. m : position[k] = i
  BY <1>5a, <1>7
<1>15. IsGroup(g, position, cs, f, tf)
  BY <1>6, <1>8, <1>10, <1>11, <1>12, <1>13, <1>14 DEF IsGroup, m
<1> QED BY <1>3, <1>4, <1>15

(* A frame is the candle of the ticks of the minutes of its group.         *)
LEMMA FramesTellTicks ==
  ASSUME OrderInv, CandlesMatchTicks
  PROVE  FramesMatchTicks
<1> DEFINE cs == AllCandles
<1>1. cs \in Seq(Candle) /\ Rising(cs)
  BY AllRises
<1>2. /\ log \in Seq(Tick) /\ Len(log) \in Nat
      /\ \A i \in 1 .. Len(log) : log[i] \in Tick
      /\ \A i \in 1 .. Len(log) : log[i].ltp \in Int /\ Bucket(log[i].ts) \in Int
  <2>1. log \in Seq(Tick) /\ Len(log) \in Nat
    BY DEF OrderInv, TypeOK
  <2>2. \A i \in 1 .. Len(log) : log[i] \in Tick
    BY <2>1
  <2> QED BY <2>1, <2>2, NumbersLemma
<1>3. \A k \in 1 .. Len(cs) : IsCandleOf(cs[k], cs[k].timestamp)
  BY Zenon DEF CandlesMatchTicks
<1> SUFFICES ASSUME NEW tf \in Frames, NEW c \in ToSet(CandlesForTimeframe(tf))
             PROVE  LET ticks == KeptTicks(c.timestamp, tf)
                        minutes == {Bucket(log[i].ts) : i \in ticks}
                    IN  /\ \E i \in ticks : /\ c.open = log[i].ltp
                                            /\ Bucket(log[i].ts) = Min(minutes)
                                            /\ \A j \in TicksOf(Min(minutes)) : i <= j
                        /\ \E i \in ticks : ClosingTick(Max(minutes), i) /\ c.close = log[i].ltp
                        /\ c.high = Max({log[i].ltp : i \in ticks})
                        /\ c.low = Min({log[i].ltp : i \in ticks})
  BY Zenon DEF FramesMatchTicks
<1>4. \E g, position : /\ c = FrameCandle(g, c.timestamp, tf)
                       /\ IsGroup(g, position, cs, c.timestamp, tf)
                       /\ c.timestamp \in Int
  <2>1. c \in ToSet(Aggregate(cs, tf))
    BY Zenon DEF CandlesForTimeframe
  <2> HIDE DEF cs
  <2> QED BY ONLY <1>1, <2>1, GroupLemma, tf \in Frames
<1>5. PICK g, position : /\ c = FrameCandle(g, c.timestamp, tf)
                        /\ IsGroup(g, position, cs, c.timestamp, tf)
  BY <1>4
<1> DEFINE f == c.timestamp
           ticks == KeptTicks(f, tf)
           minutes == {Bucket(log[i].ts) : i \in ticks}
           prices == {log[i].ltp : i \in ticks}
           m == Len(g)
<1>6. /\ m \in Nat /\ m # 0 /\ DOMAIN g = 1 .. m
      /\ \A j, k \in 1 .. m : j < k => g[j].timestamp < g[k].timestamp
      /\ \A k \in 1 .. m : /\ g[k] \in Candle /\ g[k] = cs[position[k]]
                           /\ position[k] \in 1 .. Len(cs)
                           /\ FrameOf(g[k].timestamp, tf) = f
                           /\ g[k].timestamp \in Int /\ g[k].high \in Int /\ g[k].low \in Int
  <2>1. /\ g \in Seq(Candle) /\ m \in Nat /\ m # 0
        /\ \A k \in 1 .. m : /\ g[k] = cs[position[k]] /\ position[k] \in 1 .. Len(cs)
                             /\ FrameOf(g[k].timestamp, tf) = f
    BY <1>5 DEF IsGroup
  <2>2. \A k \in 1 .. m : g[k] \in Candle
    BY <2>1
  <2>3. \A k \in 1 .. m : g[k].timestamp \in Int
    BY <2>2 DEF Candle
  <2>4. \A k \in 1 .. m : g[k].high \in Int /\ g[k].low \in Int
    BY <2>2, NumbersLemma
  <2>5. \A j, k \in 1 .. m : j < k => g[j].timestamp < g[k].timestamp
    BY <1>5 DEF IsGroup, Rising
  <2>6. DOMAIN g = 1 .. m
    BY <2>1
  <2> HIDE DEF m
  <2> QED BY <2>1, <2>2, <2>3, <2>4, <2>5, <2>6
<1>7. \A k \in 1 .. m : IsCandleOf(g[k], g[k].timestamp)
  BY <1>3, <1>6
<1>8. /\ ticks \subseteq 1 .. Len(log)
      /\ \A i \in ticks : \E k \in 1 .. m : i \in TicksOf(g[k].timestamp)
      /\ \A k \in 1 .. m : TicksOf(g[k].timestamp) \subseteq ticks
  <2>1. \A i : i \in ticks <=> /\ i \in 1 .. Len(log)
                               /\ FrameOf(Bucket(log[i].ts), tf) = f
                               /\ \E k \in 1 .. Len(cs) : cs[k].timestamp = Bucket(log[i].ts)
    BY DEF KeptTicks
  <2> HIDE DEF ticks
  <2>2. \A i : \A b : i \in TicksOf(b) <=> i \in 1 .. Len(log) /\ Bucket(log[i].ts) = b
    BY DEF TicksOf
  <2>3. ASSUME NEW i \in ticks PROVE \E k \in 1 .. m : i \in TicksOf(g[k].timestamp)
    <3>1. PICK p \in 1 .. Len(cs) : cs[p].timestamp = Bucket(log[i].ts)
      BY <2>1
    <3>2. FrameOf(cs[p].timestamp, tf) = f
      BY <2>1, <3>1
    <3>3. PICK k \in 1 .. m : position[k] = p
      BY <1>5, <3>2 DEF IsGroup
    <3> QED BY <1>6, <2>1, <2>2, <3>1, <3>3
  <2>4. ASSUME NEW k \in 1 .. m, NEW i \in TicksOf(g[k].timestamp) PROVE i \in ticks
    <3>1. i \in 1 .. Len(log) /\ Bucket(log[i].ts) = g[k].timestamp
      BY <2>2
    <3>2. FrameOf(Bucket(log[i].ts), tf) = f
      BY <1>6, <3>1
    <3> QED BY <1>6, <2>1, <3>1, <3>2
  <2> QED BY <2>1, <2>3, <2>4
<1> HIDE DEF ticks, cs
<1>9. \A b : \A i \in TicksOf(b) : i \in 1 .. Len(log) /\ Bucket(log[i].ts) = b
  BY DEF TicksOf
<1>10. \A k \in 1 .. m : TicksOf(g[k].timestamp) # {}
  BY <1>7 DEF IsCandleOf
<1>11. minutes = {g[k].timestamp : k \in 1 .. m}
  BY <1>8, <1>9, <1>10
<1> HIDE DEF minutes
<1>12. Min(minutes) = g[1].timestamp /\ Max(minutes) = g[m].timestamp
  <2>1. minutes \in SUBSET Int /\ g[1].timestamp \in minutes /\ g[m].timestamp \in minutes
    BY <1>6, <1>11
  <2>2. ASSUME NEW y \in minutes PROVE g[1].timestamp <= y /\ y <= g[m].timestamp
    <3>1. PICK k \in 1 .. m : y = g[k].timestamp
      BY <1>11
    <3> HIDE DEF m
    <3>2. k = 1 \/ 1 < k
      BY <1>6
    <3>3. k = m \/ k < m
      BY <1>6
    <3>4. 1 \in 1 .. m /\ m \in 1 .. m
      BY <1>6
    <3> QED BY <1>6, <3>1, <3>2, <3>3, <3>4
  <2> QED BY <2>1, <2>2, MinIs, MaxIs
<1>13. /\ c.open = g[1].open /\ c.close = g[m].close
       /\ c.high = Max({g[i].high : i \in 1 .. m})
       /\ c.low = Min({g[i].low : i \in 1 .. m})
  <2>1. Last(g) = g[m]
    BY DEF Last
  <2> QED BY <1>5, <1>6, <2>1 DEF FrameCandle
<1> HIDE DEF f, m
<1>14. 1 \in 1 .. m /\ m \in 1 .. m
  BY <1>6
<1>15. \E i \in ticks : /\ c.open = log[i].ltp
                       /\ Bucket(log[i].ts) = Min(minutes)
                       /\ \A j \in TicksOf(Min(minutes)) : i <= j
  <2>1. PICK i \in TicksOf(g[1].timestamp) :
          g[1].open = log[i].ltp /\ \A j \in TicksOf(g[1].timestamp) : i <= j
    BY <1>7, <1>14 DEF IsCandleOf
  <2> QED BY <1>8, <1>9, <1>12, <1>13, <1>14, <2>1
<1>16. \E i \in ticks : ClosingTick(Max(minutes), i) /\ c.close = log[i].ltp
  <2>1. PICK i \in TicksOf(g[m].timestamp) :
          ClosingTick(g[m].timestamp, i) /\ g[m].close = log[i].ltp
    BY <1>7, <1>14 DEF IsCandleOf
  <2> QED BY <1>8, <1>12, <1>13, <1>14, <2>1
<1>17. prices \in SUBSET Int
  BY <1>2, <1>8
<1>18. \A k \in 1 .. m :
         /\ \E i \in ticks : g[k].high = log[i].ltp
         /\ \E i \in ticks : g[k].low = log[i].ltp
         /\ \A i \in TicksOf(g[k].timestamp) : g[k].low <= log[i].ltp /\ log[i].ltp <= g[k].high
  BY <1>7, <1>8 DEF IsCandleOf
<1>19. IsFiniteSet(1 .. m)
  BY <1>6, FS_Interval
<1>20. c.high = Max(prices)
  <2> DEFINE S == {g[i].high : i \in 1 .. m}
  <2>1. S \in SUBSET Int /\ S # {}
    BY <1>6, <1>14
  <2>2. IsFiniteSet(S)
    <3> DEFINE h == [i \in 1 .. m |-> g[i].high]
    <3>1. h \in Surjection(1 .. m, S)
      BY DEF Surjection
    <3> HIDE DEF h, S
    <3> QED BY <1>19, <3>1, FS_Surjection
  <2> HIDE DEF S
  <2>3. Max(S) \in S /\ \A x \in S : x <= Max(S)
    BY <2>1, <2>2, ExtremesLemma
  <2>4. PICK k \in 1 .. m : Max(S) = g[k].high
    BY <2>3 DEF S
  <2>5. Max(S) \in prices
    BY <1>18, <2>4
  <2>6. ASSUME NEW x \in prices PROVE x <= Max(S)
    <3>1. PICK i \in ticks : x = log[i].ltp
      OBVIOUS
    <3>2. PICK l \in 1 .. m : i \in TicksOf(g[l].timestamp)
      BY <1>8
    <3>4. x \in Int /\ Max(S) \in Int
      BY <1>2, <1>8, <2>1, <2>3, <3>1
    <3>3. x <= g[l].high /\ g[l].high \in S
      BY <1>18, <3>1, <3>2 DEF S
    <3>5. g[l].high \in Int /\ g[l].high <= Max(S)
      BY <2>1, <2>3, <3>3
    <3> QED BY <3>3, <3>4, <3>5
  <2> HIDE DEF prices
  <2> QED BY <1>13, <1>17, <2>5, <2>6, MaxIs DEF S
<1>21. c.low = Min(prices)
  <2> DEFINE S == {g[i].low : i \in 1 .. m}
  <2>1. S \in SUBSET Int /\ S # {}
    BY <1>6, <1>14
  <2>2. IsFiniteSet(S)
    <3> DEFINE h == [i \in 1 .. m |-> g[i].low]
    <3>1. h \in Surjection(1 .. m, S)
      BY DEF Surjection
    <3> HIDE DEF h, S
    <3> QED BY <1>19, <3>1, FS_Surjection
  <2> HIDE DEF S
  <2>3. Min(S) \in S /\ \A x \in S : Min(S) <= x
    BY <2>1, <2>2, ExtremesLemma
  <2>4. PICK k \in 1 .. m : Min(S) = g[k].low
    BY <2>3 DEF S
  <2>5. Min(S) \in prices
    BY <1>18, <2>4
  <2>6. ASSUME NEW x \in prices PROVE Min(S) <= x
    <3>1. PICK i \in ticks : x = log[i].ltp
      OBVIOUS
    <3>2. PICK l \in 1 .. m : i \in TicksOf(g[l].timestamp)
      BY <1>8
    <3>4. x \in Int /\ Min(S) \in Int
      BY <1>2, <1>8, <2>1, <2>3, <3>1
    <3>3. g[l].low <= x /\ g[l].low \in S
      BY <1>18, <3>1, <3>2 DEF S
    <3>5. g[l].low \in Int /\ Min(S) <= g[l].low
      BY <2>1, <2>3, <3>3
    <3> QED BY <3>3, <3>4, <3>5
  <2> HIDE DEF prices
  <2> QED BY <1>13, <1>17, <2>5, <2>6, MinIs DEF S
<1> QED BY <1>15, <1>16, <1>20, <1>21 DEF ticks, minutes, prices, f

(* Under the feeds of CandlesTellTicks, for every table of timeframes: the *)
(* frame that aggregate_candles makes is the candle of all the ticks of    *)
(* the minutes the engine still keeps of it.                               *)
THEOREM FramesTrue == ASSUME ~LateAfterClose PROVE Spec => []FramesMatchTicks
<1>1. OrderInv /\ [Next]_vars => OrderInv'
  BY OrderInvStep
<1> QED BY OrderInvInit, <1>1, CandlesTellTicks, FramesTellTicks, PTL DEF Spec
-----------------------------------------------------------------------------
(* A minute of the session: the start of one, within its hours.            *)
SessionMinute(ts) == ts \in Nat /\ InSession(ts) /\ Bucket(ts) = ts

LEMMA SessionMinuteLemma ==
  ASSUME NEW ts \in Nat, InSession(ts)
  PROVE  SessionMinute(Bucket(ts))
BY DEF SessionMinute, InSession, TimeOfDay, DAY, Bucket, MINUTE,
       MARKET_OPEN_TIME, MARKET_CLOSE_TIME

(* How far a minute of the session is from the opening.                    *)
LEMMA SinceOpeningLemma ==
  ASSUME NEW ts, SessionMinute(ts)
  PROVE  \E q \in Nat : TimeOfDay(ts) - MARKET_OPEN_TIME = MINUTE * q
<1>1. ts \in Nat /\ ts = MINUTE * (ts \div MINUTE)
  BY DEF SessionMinute, Bucket
<1> DEFINE q == (ts \div MINUTE) - 1440 * (ts \div DAY) - 555
<1>2. TimeOfDay(ts) - MARKET_OPEN_TIME = MINUTE * q
  BY <1>1 DEF TimeOfDay, DAY, MINUTE, MARKET_OPEN_TIME
<1>3. TimeOfDay(ts) - MARKET_OPEN_TIME >= 0
  BY <1>1 DEF SessionMinute, InSession, TimeOfDay, DAY, MARKET_OPEN_TIME
<1>4. q \in Int
  BY <1>1 DEF MINUTE, DAY
<1> HIDE DEF q
<1>5. q \in Nat
  BY <1>2, <1>3, <1>4 DEF MINUTE
<1> QED BY <1>2, <1>5

(* The frame of a minute of the session starts on its day, a whole number  *)
(* of frames after the opening, and the minute is one of its own.          *)
LEMMA FrameLemma ==
  ASSUME NEW tf \in DOMAIN TIMEFRAME_MINUTES, NEW ts, SessionMinute(ts)
  PROVE  LET f == FrameOf(ts, tf)
             length == MINUTE * TIMEFRAME_MINUTES[tf]
         IN  /\ f \in Nat
             /\ \E p \in Nat : TimeOfDay(f) = MARKET_OPEN_TIME + length * p
             /\ \E i \in 0 .. (TIMEFRAME_MINUTES[tf] - 1) : ts = f + MINUTE * i
<1> DEFINE n == TIMEFRAME_MINUTES[tf]
           length == MINUTE * n
           x == TimeOfDay(ts) - MARKET_OPEN_TIME
           f == FrameOf(ts, tf)
           p == x \div length
           r == x % length
<1>1. n \in Nat /\ n # 0 /\ length \in Nat /\ length # 0
  BY AggregationConstants DEF MINUTE
<1>2. ts \in Nat
  BY DEF SessionMinute
<1>3. PICK q \in Nat : x = MINUTE * q
  BY SinceOpeningLemma
<1> HIDE DEF length, n
<1>4. x \in Nat
  BY <1>3 DEF MINUTE
<1> HIDE DEF x
<1>5. /\ p \in Int /\ r \in Int /\ x = length * p + r /\ 0 <= r /\ r < length
  BY <1>1, <1>4, RemainderLemma
<1>6. f = ts - r
  BY DEF FrameOf, x, length, n
<1> HIDE DEF p, r, f
<1>7. p \in Nat
  <2>1. CASE p <= -1
    <3>1. length * p <= -length
      BY <1>1, <1>5, <2>1
    <3> QED BY <1>1, <1>4, <1>5, <3>1
  <2> QED BY <1>5, <2>1
<1>8. length * p \in Nat /\ r <= x
  <2>1. length * p \in Nat
    BY <1>1, <1>7
  <2> QED BY <1>4, <1>5, <2>1
<1>9. f \in Nat /\ TimeOfDay(f) = MARKET_OPEN_TIME + length * p
  <2>1. x = TimeOfDay(ts) - MARKET_OPEN_TIME
    BY DEF x
  <2>2. f \in Nat /\ TimeOfDay(f) = TimeOfDay(ts) - r
    BY <1>2, <1>4, <1>5, <1>6, <1>8, <2>1 DEF TimeOfDay, DAY, MARKET_OPEN_TIME
  <2>3. TimeOfDay(ts) \in Int /\ MARKET_OPEN_TIME \in Int
    BY <1>2 DEF TimeOfDay, DAY, MARKET_OPEN_TIME
  <2> QED BY <1>4, <1>5, <1>8, <2>1, <2>2, <2>3
<1>10. r = MINUTE * (q - n * p)
  <2>1. n * p \in Int /\ length * p = MINUTE * (n * p)
    BY <1>1, <1>7 DEF length, MINUTE
  <2> HIDE DEF length
  <2> QED BY <1>3, <1>4, <1>5, <2>1 DEF MINUTE
<1>11. q - n * p \in 0 .. (n - 1)
  <2> DEFINE i == q - n * p
  <2>1. i \in Int
    BY <1>1, <1>3, <1>7
  <2> HIDE DEF i
  <2>2. 0 <= MINUTE * i /\ MINUTE * i < MINUTE * n
    BY <1>5, <1>10 DEF i, length
  <2>3. 0 <= i /\ i < n
    BY <1>1, <2>1, <2>2 DEF MINUTE
  <2> QED BY <1>1, <2>1, <2>3 DEF i
<1>12. ts = f + MINUTE * (q - n * p)
  BY <1>2, <1>5, <1>6, <1>10
<1> QED BY <1>7, <1>9, <1>11, <1>12 DEF f, length, n

(* The other way round: if all the minutes of a frame are in sessions,     *)
(* then all of them are on its day and have that frame.                    *)
LEMMA WholeFrameLemma ==
  ASSUME NEW tf \in DOMAIN TIMEFRAME_MINUTES, NEW f \in Nat, NEW p \in Nat,
         TimeOfDay(f) = MARKET_OPEN_TIME + (MINUTE * TIMEFRAME_MINUTES[tf]) * p,
         \A i \in 0 .. (TIMEFRAME_MINUTES[tf] - 1) : InSession(f + MINUTE * i)
  PROVE  \A i \in 0 .. (TIMEFRAME_MINUTES[tf] - 1) : FrameOf(f + MINUTE * i, tf) = f
<1> DEFINE n == TIMEFRAME_MINUTES[tf]
           length == MINUTE * n
           d == TimeOfDay(f)
<1>1. n \in Nat /\ n # 0 /\ length \in Nat /\ length # 0
  BY AggregationConstants DEF MINUTE
<1>2. length * p \in Nat /\ n * p \in Nat /\ length * p = MINUTE * (n * p)
  <2>1. n * p \in Nat
    BY <1>1
  <2> HIDE DEF n
  <2> QED BY <1>1, <2>1 DEF MINUTE
<1> SUFFICES ASSUME NEW i \in 0 .. (n - 1)
             PROVE  FrameOf(f + MINUTE * i, tf) = f
  OBVIOUS
<1>3. d = MARKET_OPEN_TIME + MINUTE * (n * p) /\ n * p \in Nat
  BY <1>2
<1>4. \A j \in 0 .. (n - 1) : InSession(f + MINUTE * j)
  OBVIOUS
<1> HIDE DEF n, d
<1>5. d + MINUTE * i < DAY
  <2> SUFFICES ASSUME d + MINUTE * i >= DAY PROVE FALSE
    BY <1>1, <1>3 DEF MINUTE, DAY, MARKET_OPEN_TIME
  <2> DEFINE np == n * p
             j == 376 - np
  <2>1. d = MARKET_OPEN_TIME + MINUTE * np /\ np \in Nat
    BY <1>3
  <2> HIDE DEF np
  <2>2. 0 \in 0 .. (n - 1) /\ InSession(f)
    <3>1. InSession(f + MINUTE * 0)
      BY <1>1, <1>4
    <3> QED BY <1>1, <3>1 DEF MINUTE
  <2>3. d <= MARKET_CLOSE_TIME
    BY <2>2 DEF InSession, d
  <2>4. j \in 0 .. i
    BY <1>1, <2>1, <2>3 DEF MINUTE, DAY, MARKET_OPEN_TIME, MARKET_CLOSE_TIME
  <2>5. j \in 0 .. (n - 1)
    BY <1>1, <2>4
  <2>6. d + MINUTE * j = MARKET_CLOSE_TIME + MINUTE
    BY <2>1 DEF MINUTE, MARKET_OPEN_TIME, MARKET_CLOSE_TIME
  <2> HIDE DEF j
  <2>7. TimeOfDay(f + MINUTE * j) = MARKET_CLOSE_TIME + MINUTE
    BY <2>4, <2>6 DEF TimeOfDay, d, DAY, MINUTE, MARKET_CLOSE_TIME
  <2>8. InSession(f + MINUTE * j)
    BY <1>4, <2>5
  <2> QED BY <2>7, <2>8 DEF InSession, MINUTE, MARKET_CLOSE_TIME
<1>6. TimeOfDay(f + MINUTE * i) = d + MINUTE * i
  <2>1. i \in Nat /\ d = f % DAY
    BY <1>1 DEF d, TimeOfDay
  <2> QED BY <1>5, <2>1 DEF TimeOfDay, DAY, MINUTE
<1>7. TimeOfDay(f + MINUTE * i) - MARKET_OPEN_TIME = length * p + MINUTE * i
  <2> DEFINE np == n * p
  <2>1. d = MARKET_OPEN_TIME + MINUTE * np /\ np \in Nat /\ length * p = MINUTE * np
    BY <1>2, <1>3
  <2> HIDE DEF np, length
  <2> QED BY <1>1, <1>6, <2>1 DEF MINUTE, MARKET_OPEN_TIME
<1>8. MINUTE * i \in 0 .. (length - 1)
  BY <1>1 DEF MINUTE
<1> HIDE DEF length
<1>9. (length * p + MINUTE * i) % length = MINUTE * i
  <2> DEFINE r == MINUTE * i
  <2>1. r \in 0 .. (length - 1) /\ p \in Int
    BY <1>8
  <2> HIDE DEF r
  <2>2. (length * p + r) % length = r
    BY ONLY <1>1, <2>1, RemainderIs
  <2> QED BY <2>2 DEF r
<1>10. FrameOf(f + MINUTE * i, tf) = (f + MINUTE * i) - MINUTE * i
  BY <1>7, <1>9 DEF FrameOf, length, n
<1> QED BY <1>1, <1>10 DEF MINUTE

(* The log holds ticks of sessions only.                                   *)
SessionLog == log \in Seq(Tick) /\ \A i \in 1 .. Len(log) : InSession(log[i].ts)

LEMMA SessionLogStep == SessionLog /\ [Next]_vars => SessionLog'
<1> SUFFICES ASSUME SessionLog, [Next]_vars PROVE SessionLog'
  OBVIOUS
<1>1. CASE UNCHANGED vars
  BY <1>1 DEF vars, SessionLog
<1>2. CASE ClearSymbol
  BY <1>2 DEF ClearSymbol, SessionLog
<1>3. ASSUME NEW t \in Tick, Deliver(t) PROVE SessionLog'
  <2>1. CASE ~InSession(t.ts)
    BY <1>3, <2>1 DEF Deliver, SessionLog
  <2>2. CASE InSession(t.ts)
    <3>1. log' = Append(log, t) /\ log \in Seq(Tick)
      BY <1>3, <2>2 DEF Deliver, SessionLog
    <3>2. /\ log' \in Seq(Tick) /\ Len(log') = Len(log) + 1 /\ Len(log) \in Nat
          /\ log'[Len(log) + 1] = t
          /\ \A i \in 1 .. Len(log) : log'[i] = log[i]
      BY <3>1
    <3>3. \A i \in 1 .. Len(log') : i \in 1 .. Len(log) \/ i = Len(log) + 1
      BY <3>2
    <3>4. \A i \in 1 .. Len(log') : InSession(log'[i].ts)
      BY <2>2, <3>2, <3>3 DEF SessionLog
    <3> QED BY <3>2, <3>4 DEF SessionLog
  <2> QED BY <2>1, <2>2
<1> QED BY <1>1, <1>2, <1>3 DEF Next, ProcessTick

(* Every candle is one of a minute of a session.                           *)
LEMMA CandleMinutes ==
  ASSUME OrderInv, CandlesMatchTicks, SessionLog
  PROVE  \A k \in 1 .. Len(AllCandles) : SessionMinute(AllCandles[k].timestamp)
<1> SUFFICES ASSUME NEW k \in 1 .. Len(AllCandles)
             PROVE  SessionMinute(AllCandles[k].timestamp)
  OBVIOUS
<1>1. IsCandleOf(AllCandles[k], AllCandles[k].timestamp)
  BY DEF CandlesMatchTicks
<1>2. PICK i \in TicksOf(AllCandles[k].timestamp) : TRUE
  BY <1>1 DEF IsCandleOf
<1>3. i \in 1 .. Len(log) /\ Bucket(log[i].ts) = AllCandles[k].timestamp
  BY <1>2 DEF TicksOf
<1>4. InSession(log[i].ts) /\ log[i] \in Tick
  BY <1>3 DEF SessionLog
<1> QED BY <1>3, <1>4, NumbersLemma, SessionMinuteLemma

(* The count is right: a frame is complete when each of its minutes has    *)
(* its closed candle.                                                      *)
LEMMA FramesComplete ==
  ASSUME OrderInv, CandlesMatchTicks, SessionLog
  PROVE  ClosedFrameHasAllMinutes
<1> DEFINE cs == AllCandles
           L == Len(rolling_1m)
<1>1. cs \in Seq(Candle) /\ Rising(cs)
  BY AllRises
<1>2. \A k \in 1 .. Len(cs) : SessionMinute(cs[k].timestamp)
  BY CandleMinutes
<1>3. /\ L \in Nat
      /\ \A k \in 1 .. L : k \in 1 .. Len(cs) /\ cs[k] = rolling_1m[k]
      /\ \A k \in 1 .. Len(cs) : cs[k].is_closed <=> k \in 1 .. L
  <2>1. /\ L \in Nat
        /\ \A k \in 1 .. L : k \in 1 .. Len(cs) /\ cs[k] = rolling_1m[k]
    BY AllCandlesLemma DEF OrderInv
  <2>2. \A k \in 1 .. Len(cs) : cs[k].is_closed <=> k <= L
    BY Zenon DEF CandlesMatchTicks
  <2> QED BY <2>1, <2>2
<1> SUFFICES ASSUME NEW tf \in Frames, NEW c \in ToSet(CandlesForTimeframe(tf))
             PROVE  LET minutes == {c.timestamp + MINUTE * i : i \in 0 .. (TIMEFRAME_MINUTES[tf] - 1)}
                    IN  /\ (TimeOfDay(c.timestamp) - MARKET_OPEN_TIME)
                              % (MINUTE * TIMEFRAME_MINUTES[tf]) = 0
                        /\ c.is_closed <=> \A m \in minutes :
                             \E i \in 1 .. Len(rolling_1m) : rolling_1m[i].timestamp = m
  BY Zenon DEF ClosedFrameHasAllMinutes
<1>4. \E g, position : /\ c = FrameCandle(g, c.timestamp, tf)
                       /\ IsGroup(g, position, cs, c.timestamp, tf)
                       /\ c.timestamp \in Int
  <2>1. c \in ToSet(Aggregate(cs, tf))
    BY Zenon DEF CandlesForTimeframe
  <2> HIDE DEF cs
  <2> QED BY ONLY <1>1, <2>1, GroupLemma, tf \in Frames
<1>5. PICK g, position : /\ c = FrameCandle(g, c.timestamp, tf)
                        /\ IsGroup(g, position, cs, c.timestamp, tf)
  BY <1>4
<1> DEFINE f == c.timestamp
           m == Len(g)
           n == TIMEFRAME_MINUTES[tf]
           length == MINUTE * n
<1>6. tf \in DOMAIN TIMEFRAME_MINUTES /\ n \in Nat /\ n # 0 /\ length \in Nat /\ length # 0
  BY AggregationConstants DEF Frames, MINUTE
<1>7. /\ m \in Nat /\ m # 0 /\ DOMAIN g = 1 .. m
      /\ \A k \in 1 .. m : /\ position[k] \in 1 .. Len(cs) /\ g[k] = cs[position[k]]
                           /\ FrameOf(g[k].timestamp, tf) = f
      /\ \A j, k \in 1 .. m : j < k => g[j].timestamp < g[k].timestamp
      /\ \A i \in 1 .. Len(cs) :
           FrameOf(cs[i].timestamp, tf) = f => \E k \in 1 .. m : position[k] = i
  <2>1. g \in Seq(Candle)
    BY <1>5 DEF IsGroup
  <2>2. DOMAIN g = 1 .. m
    BY <2>1
  <2> HIDE DEF cs
  <2> QED BY <1>5, <2>2, Zenon DEF IsGroup, Rising
<1>8. \A k \in 1 .. m : SessionMinute(g[k].timestamp)
  BY <1>2, <1>7
<1>9. c.is_closed <=> (\A k \in 1 .. m : g[k].is_closed) /\ m >= n
  <2>1. c.is_closed <=> IsComplete(g, tf)
    BY <1>5, FrameCandleLemma
  <2> QED BY <1>7, <2>1, Zenon DEF IsComplete
<1> HIDE DEF cs, L, m, n, length, f
<1>10. \A k \in 1 .. m :
         /\ f \in Nat
         /\ \E p \in Nat : TimeOfDay(f) = MARKET_OPEN_TIME + length * p
         /\ \E i \in 0 .. (n - 1) : g[k].timestamp = f + MINUTE * i
  BY <1>6, <1>7, <1>8, FrameLemma DEF n, length
<1>11. 1 \in 1 .. m
  BY <1>7
<1>12. f \in Nat /\ \E p \in Nat : TimeOfDay(f) = MARKET_OPEN_TIME + length * p
  BY <1>10, <1>11
<1>13. PICK p \in Nat : TimeOfDay(f) = MARKET_OPEN_TIME + length * p
  BY <1>12
<1>14. (TimeOfDay(f) - MARKET_OPEN_TIME) % length = 0
  <2>1. (length * p + 0) % length = 0
    <3>1. 0 \in 0 .. (length - 1) /\ p \in Int
      BY <1>6
    <3> QED BY ONLY <1>6, <3>1, RemainderIs
  <2>2. length * p \in Int
    BY <1>6
  <2>3. TimeOfDay(f) - MARKET_OPEN_TIME = length * p + 0
    BY <1>13, <2>2 DEF MARKET_OPEN_TIME
  <2> QED BY <2>1, <2>3
<1> DEFINE h == [k \in 1 .. m |-> CHOOSE i \in 0 .. (n - 1) : g[k].timestamp = f + MINUTE * i]
<1>15. h \in [1 .. m -> 0 .. (n - 1)] /\ \A k \in 1 .. m : g[k].timestamp = f + MINUTE * h[k]
  BY <1>10
<1> HIDE DEF h
<1>16. \A j, k \in 1 .. m : j # k => g[j].timestamp # g[k].timestamp
  <2> SUFFICES ASSUME NEW j \in 1 .. m, NEW k \in 1 .. m, j < k
               PROVE  g[j].timestamp # g[k].timestamp
    BY <1>7
  <2> QED BY <1>7, <1>8 DEF SessionMinute
<1>17. ASSUME c.is_closed, NEW i \in 0 .. (n - 1)
       PROVE  \E r \in 1 .. L : rolling_1m[r].timestamp = f + MINUTE * i
  <2>1. \A j, k \in 1 .. m : j # k => h[j] # h[k]
    BY <1>15, <1>16
  <2>2. m \in Nat /\ n \in Nat /\ h \in [1 .. m -> 0 .. (n - 1)] /\ m >= n
    BY <1>6, <1>7, <1>9, <1>15, <1>17
  <2>3. \A j \in 0 .. (n - 1) : \E k \in 1 .. m : h[k] = j
    BY ONLY <2>1, <2>2, PlacesLemma
  <2>4. PICK k \in 1 .. m : h[k] = i
    BY <2>3
  <2>5. g[k].is_closed /\ g[k].timestamp = f + MINUTE * i
    BY <1>9, <1>15, <1>17, <2>4
  <2> QED BY <1>3, <1>7, <2>5
<1>18. ASSUME \A i \in 0 .. (n - 1) : \E r \in 1 .. L : rolling_1m[r].timestamp = f + MINUTE * i
       PROVE  c.is_closed
  <2>1. \A i \in 0 .. (n - 1) : \E r \in 1 .. L : r \in 1 .. Len(cs) /\ cs[r].timestamp = f + MINUTE * i
    BY <1>3, <1>18
  <2>2. \A i \in 0 .. (n - 1) : InSession(f + MINUTE * i)
    BY <1>2, <2>1 DEF SessionMinute
  <2>3. \A i \in 0 .. (n - 1) : FrameOf(f + MINUTE * i, tf) = f
    BY <1>6, <1>12, <1>13, <2>2, WholeFrameLemma DEF n, length
  <2>4. \A i \in 0 .. (n - 1) : \E k \in 1 .. m : g[k].timestamp = f + MINUTE * i
    BY <1>7, <2>1, <2>3
  <2> DEFINE taken == [i \in 0 .. (n - 1) |-> CHOOSE k \in 1 .. m : g[k].timestamp = f + MINUTE * i]
  <2>5. /\ taken \in [0 .. (n - 1) -> 1 .. m]
        /\ \A i \in 0 .. (n - 1) : g[taken[i]].timestamp = f + MINUTE * i
    BY <2>4
  <2> HIDE DEF taken
  <2>6. \A i, j \in 0 .. (n - 1) : i # j => taken[i] # taken[j]
    <3>1. \A i, j \in 0 .. (n - 1) : i # j => f + MINUTE * i # f + MINUTE * j
      BY <1>6, <1>12 DEF MINUTE
    <3> QED BY <2>5, <3>1
  <2>7. m >= n
    BY <1>6, <1>7, <2>5, <2>6, PlacesNeeded
  <2>8. ASSUME NEW k \in 1 .. m PROVE g[k].is_closed
    <3>1. PICK r \in 1 .. L : r \in 1 .. Len(cs) /\ cs[r].timestamp = g[k].timestamp
      BY <1>15, <2>1
    <3>2. position[k] \in 1 .. Len(cs) /\ cs[position[k]] = g[k]
      BY <1>7
    <3>3. cs[r].timestamp \in Nat
      BY <1>2, <3>1 DEF SessionMinute
    <3>4. position[k] = r
      <4>1. ~(position[k] < r) /\ ~(r < position[k])
        BY <1>1, <3>1, <3>2, <3>3 DEF Rising
      <4> QED BY <3>1, <3>2, <4>1
    <3> QED BY <1>3, <3>1, <3>2, <3>4
  <2> QED BY <1>9, <2>7, <2>8
<1>19. c.is_closed <=> \A i \in 0 .. (n - 1) : \E r \in 1 .. L : rolling_1m[r].timestamp = f + MINUTE * i
  BY <1>17, <1>18
<1> QED BY <1>14, <1>19 DEF f, n, length, L

(* Under the same feeds, for every table of timeframes: a frame is closed  *)
(* in the chart exactly when each of its minutes has its closed candle, so *)
(* that counting the candles, as is_complete does, is enough.              *)
THEOREM FramesCloseComplete == ASSUME ~LateAfterClose PROVE Spec => []ClosedFrameHasAllMinutes
<1>1. OrderInv /\ [Next]_vars => OrderInv'
  BY OrderInvStep
<1>2. Init => SessionLog
  BY DEF Init, SessionLog
<1> QED BY OrderInvInit, <1>1, <1>2, SessionLogStep, CandlesTellTicks, FramesComplete, PTL DEF Spec
=============================================================================
