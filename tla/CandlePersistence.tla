-------------------------- MODULE CandlePersistence --------------------------
(***************************************************************************)
(* The way of a closed candle into the database.  The feed thread hands it *)
(* to the event loop, where a coroutine (RedisTickBuffer.push_candle) puts *)
(* it into the sorted set of its symbol and then on stream:candles; in the *)
(* evening flush_candles of scripts/flush_redis_to_db.py moves the stream  *)
(* into the table intraday_candles.  dump_memory_to_redis.py pushes what   *)
(* the chart endpoint returns.  The engine is CandleService, for the one   *)
(* symbol of this module; Redis and the table outlive the server.  The     *)
(* stream is shared by all symbols, and this module shows one symbol's     *)
(* entries of it: the others are why a flush may find the stream not empty *)
(* when these are, and why its xtrim may stop before it has reached them.  *)
(***************************************************************************)
EXTENDS CandleAggregation

CONSTANTS
  RedisMayFail,    \* may a call of Redis fail?
  DbMayFail,       \* may a transaction of the flush fail?
  FlushMayDie,     \* may the flush be killed, or its xtrim fail?
  DumpAllowed,     \* is dump_memory_to_redis.py ever run?
  FlushInSession,  \* is the flush run while candles are still pushed?
  MaxRuns          \* bound: flushes, dumps and restarts in one behavior

VARIABLES
  up,         \* is the server running?
  pushes,     \* the push_candle calls that have not returned, in no order
  dump,       \* the candles that the dump script has still to push
  zset,       \* Redis candles:{symbol}:1m, its members
  stream,     \* Redis stream:candles, the entries of the symbol
  table,      \* table intraday_candles
  flushing,   \* where flush_candles is
  batch,      \* the candles it has read, a function from their keys
  pushed,     \* history: what was ever appended to the stream
  dropped,    \* history: the minutes of which a push failed
  doubled,    \* history: the minutes that a dump gives to Redis, or that were
              \* opened again after they had been given to it
  left,       \* history: the minutes a flush has left on the stream after
              \* its commit
  runs        \* flushes, dumps and restarts so far

redis == <<zset, stream>>
script == <<flushing, batch>>
history == <<pushed, dropped, doubled, left>>
persistVars == <<vars, up, pushes, dump, redis, table, script, history, runs>>

Push == [candle : Candle, step : {"zadd", "xadd"}, by : {"server", "dump"}]

(* is_closed has no column; resolution and stock are those of this module. *)
Row == [timestamp : Nat, open : Prices, high : Prices, low : Prices, close : Prices]

ASSUME PersistConstants ==
  /\ {RedisMayFail, DbMayFail, FlushMayDie, DumpAllowed, FlushInSession} \subseteq BOOLEAN
  /\ MaxRuns \in Nat
-----------------------------------------------------------------------------
RowOf(c) == [timestamp |-> c.timestamp, open |-> c.open, high |-> c.high,
             low |-> c.low, close |-> c.close]

(* The unique constraint on stock, resolution and timestamp: no two        *)
(* candles of the batch, and none of them and a row, share their minute.   *)
Insertable(cs) ==
  /\ \A i, j \in DOMAIN cs : i # j => cs[i].timestamp # cs[j].timestamp
  /\ \A i \in DOMAIN cs, r \in table : cs[i].timestamp # r.timestamp

(* The chart endpoint for 1m: the sorted set alone, if it has a member;    *)
(* when it has none, or Redis fails, the history and the live candles, the *)
(* forming one among them.                                                 *)
ChartAnswers(historical) ==
  {cs \in {zset, ToSet(Merge(historical, CandlesForTimeframe("1m")))} :
     IF cs = zset THEN zset # {} ELSE zset = {} \/ RedisMayFail}

ServerPush(c) == [candle |-> c, step |-> "zadd", by |-> "server"]
-----------------------------------------------------------------------------
PersistInit ==
  /\ Init
  /\ up = TRUE
  /\ pushes = {} /\ dump = {}
  /\ zset = {} /\ stream = <<>> /\ table = {}
  /\ flushing = "off" /\ batch = <<>>
  /\ pushed = {} /\ dropped = {} /\ doubled = {} /\ left = {}
  /\ runs = 0

(* Mutant of PushesFor: candles are pushed when the session closes. *)
PushesForClosed(ev) ==
  IF ev # None /\ ev.event_type = "closed" THEN {ServerPush(ev.candle)} ELSE {}

(* Mutant of PushesFor: the candle that has just opened is pushed. *)
PushesForOpened(ev) ==
  IF ev # None /\ ev.event_type = "new" THEN {ServerPush(ev.candle)} ELSE {}

(* combined_on_tick pushes the candle an event says was closed.  The event *)
(* of the session's end has no closed_candle.                              *)
PushesFor(ev) ==
  IF ev # None /\ ev.closed_candle # None
  THEN {ServerPush(ev.closed_candle)} ELSE {}

(* A candle opens in a minute that was given to Redis before: only late    *)
(* ticks after a restart do this.                                          *)
Reopened ==
  /\ current_1m' # None
  /\ current_1m = None \/ current_1m'.timestamp # current_1m.timestamp
  /\ \/ \E c \in zset \cup pushed : c.timestamp = current_1m'.timestamp
     \/ \E p \in pushes : p.candle.timestamp = current_1m'.timestamp

(* The feed thread delivers a tick to combined_on_tick. *)
FeedTick(t) ==
  /\ up
  /\ FlushInSession \/ flushing = "off" \/ ~InSession(t.ts)
  /\ ProcessTick(t)
  /\ pushes' = pushes \cup PushesFor(event')
  /\ doubled' = IF Reopened THEN doubled \cup {current_1m'.timestamp} ELSE doubled
  /\ UNCHANGED <<up, dump, redis, table, script, pushed, dropped, left, runs>>

(* push_candle awaits twice; the coroutines of several candles interleave, *)
(* and any error ends one silently.                                        *)
AddToSet(p) ==
  /\ p.step = "zadd"
  /\ zset' = zset \cup {p.candle}
  /\ pushes' = (pushes \ {p}) \cup {[p EXCEPT !.step = "xadd"]}
  /\ UNCHANGED <<vars, up, dump, stream, table, script, history, runs>>

AddToStream(p) ==
  /\ p.step = "xadd"
  /\ stream' = Append(stream, p.candle)
  /\ pushed' = pushed \cup {p.candle}
  /\ pushes' = pushes \ {p}
  /\ UNCHANGED <<vars, up, dump, zset, table, script, dropped, doubled, left, runs>>

PushFails(p) ==
  /\ RedisMayFail
  /\ pushes' = pushes \ {p}
  /\ dropped' = dropped \cup {p.candle.timestamp}
  /\ UNCHANGED <<vars, up, dump, redis, table, script, pushed, doubled, left, runs>>

(* The server stops, by a crash or at shutdown: the engine's memory and    *)
(* the coroutines are gone.                                                *)
ServerStops ==
  /\ up /\ runs < MaxRuns
  /\ up' = FALSE
  /\ current_1m' = None /\ rolling_1m' = <<>> /\ last_tick_time' = 0 /\ event' = None
  /\ pushes' = {p \in pushes : p.by = "dump"}
  /\ UNCHANGED <<log, feed, dump, redis, table, script, history, runs>>

ServerStarts ==
  /\ ~up
  /\ up' = TRUE
  /\ runs' = runs + 1
  /\ UNCHANGED <<vars, pushes, dump, redis, table, script, history>>
-----------------------------------------------------------------------------
(* dump_memory_to_redis: ask the chart endpoint, then push candle after    *)
(* candle in the order of the answer.                                      *)
DumpFetch(historical) ==
  /\ DumpAllowed
  /\ up /\ dump = {} /\ runs < MaxRuns
  /\ FlushInSession \/ flushing = "off"
  /\ \E cs \in ChartAnswers(historical) \ {{}} : dump' = cs
  /\ doubled' = doubled \cup {c.timestamp : c \in dump'}
  /\ runs' = runs + 1
  /\ UNCHANGED <<vars, up, pushes, redis, table, script, pushed, dropped, left>>

DumpPush ==
  /\ \A p \in pushes : p.by # "dump"
  /\ \E c \in dump :
       /\ \A d \in dump : c.timestamp <= d.timestamp
       /\ dump' = dump \ {c}
       /\ pushes' = pushes \cup {[candle |-> c, step |-> "zadd", by |-> "dump"]}
  /\ UNCHANGED <<vars, up, redis, table, script, history, runs>>
-----------------------------------------------------------------------------
(* The evening: the session is over and nothing is on its way to Redis. *)
Evening == AfterClose(clock) /\ pushes = {} /\ dump = {}

(* flush_candles reads the stream with xrange, which may have entries of   *)
(* other symbols when it has none of this one,                             *)
FlushRead ==
  /\ flushing = "off" /\ runs < MaxRuns
  /\ FlushInSession \/ Evening
  /\ batch' = stream
  /\ flushing' \in IF stream = <<>> THEN {"sets", "insert"} ELSE {"insert"}
  /\ runs' = runs + 1
  /\ UNCHANGED <<vars, up, pushes, dump, redis, table, history>>

(* or, when it is empty, the sorted sets. *)
FlushReadSets ==
  /\ flushing = "sets"
  /\ batch' = [c \in zset |-> c]
  /\ flushing' = "insertSets"
  /\ UNCHANGED <<vars, up, pushes, dump, redis, table, history, runs>>

(* Mutant of FlushCommit: trim before the commit. *)
FlushTrimsFirst ==
  /\ flushing \in {"insert", "insertSets"}
  /\ stream' = IF flushing = "insert" THEN <<>> ELSE stream
  /\ table' = IF Insertable(batch) THEN table \cup {RowOf(batch[i]) : i \in DOMAIN batch}
              ELSE table
  /\ flushing' = "off"
  /\ batch' = <<>>
  /\ UNCHANGED <<vars, up, pushes, dump, zset, history, runs>>

(* One transaction inserts the whole batch. *)
FlushCommit ==
  /\ flushing \in {"insert", "insertSets"}
  /\ Insertable(batch)
  /\ table' = table \cup {RowOf(batch[i]) : i \in DOMAIN batch}
  /\ flushing' = IF flushing = "insert" THEN "trim" ELSE "off"
  /\ batch' = <<>>
  /\ UNCHANGED <<vars, up, pushes, dump, redis, history, runs>>

(* Mutant of FlushRollback: one transaction for each candle. *)
FlushKeepsInserted ==
  /\ flushing \in {"insert", "insertSets"}
  /\ DbMayFail \/ ~Insertable(batch)
  /\ \E i \in DOMAIN batch : table' = table \cup {RowOf(batch[i])}
  /\ flushing' = "off"
  /\ batch' = <<>>
  /\ UNCHANGED <<vars, up, pushes, dump, redis, history, runs>>

(* A violated constraint or another error, also one of another symbol's    *)
(* candles: rollback, return 0.                                            *)
FlushRollback ==
  /\ flushing \in {"insert", "insertSets"}
  /\ DbMayFail \/ ~Insertable(batch)
  /\ flushing' = "off"
  /\ batch' = <<>>
  /\ UNCHANGED <<vars, up, pushes, dump, redis, table, history, runs>>

(* xtrim with maxlen=0, whatever has been appended since the read.  The    *)
(* client asks for an approximate trim (MAXLEN ~ 0): Redis drops whole     *)
(* nodes from the old end and stops after LIMIT entries (by default 100    *)
(* nodes' worth, 10000), so that of a longer stream the newest stay.       *)
FlushTrim ==
  /\ flushing = "trim"
  /\ \E first \in 1 .. Len(stream) + 1 : stream' = SubSeq(stream, first, Len(stream))
  /\ left' = left \cup {c.timestamp : c \in ToSet(stream')}
  /\ flushing' = "off"
  /\ UNCHANGED <<vars, up, pushes, dump, zset, table, batch, pushed, dropped,
                 doubled, runs>>

(* The script is killed, or its xtrim fails, which changes nothing either. *)
FlushDies ==
  /\ FlushMayDie
  /\ flushing # "off"
  /\ flushing' = "off"
  /\ batch' = <<>>
  /\ left' = IF flushing = "trim" THEN left \cup {c.timestamp : c \in ToSet(stream)}
             ELSE left
  /\ UNCHANGED <<vars, up, pushes, dump, redis, table, pushed, dropped, doubled, runs>>

PersistNext ==
  \/ \E t \in Tick : FeedTick(t)
  \/ \E p \in pushes : AddToSet(p) \/ AddToStream(p) \/ PushFails(p)
  \/ ServerStops \/ ServerStarts
  \/ \E h \in Histories("1m") : DumpFetch(h)
  \/ DumpPush
  \/ FlushRead \/ FlushReadSets \/ FlushCommit \/ FlushRollback
  \/ FlushTrim \/ FlushDies

PersistSpec == PersistInit /\ [][PersistNext]_persistVars
-----------------------------------------------------------------------------
Stored(c) == \E r \in table : r.timestamp = c.timestamp

(* Whatever was appended to the stream is there or in the table, through   *)
(* every crash of the server, failing transaction and flush that is killed *)
(* at any point, when the flush runs after the session.                    *)
NothingPushedIsLost ==
  \A c \in pushed : Stored(c) \/ \E i \in DOMAIN stream : stream[i] = c

(* When the unique constraint refuses a flush.  That of the stream is      *)
(* refused only if a minute of it was dumped or opened again, or was left  *)
(* there by a flush that had stored it, because it died before its trim or *)
(* because the trim stopped early; and one minute left there is enough to  *)
(* refuse every later flush.  That of the sorted sets, which nobody clears,*)
(* goes through only while the table has nothing of the symbol.            *)
FlushCollisions ==
  /\ flushing = "insert" =>
       /\ ~Insertable(batch) =>
            \E i \in DOMAIN batch : batch[i].timestamp \in doubled \cup left
       /\ Insertable(batch) =>
            \A i \in DOMAIN batch : batch[i].timestamp \notin left
  /\ flushing = "insertSets" /\ Insertable(batch) => table = {}

(* Of the minutes the engine has closed, only the last of a session never  *)
(* gets to Redis; any other is there or on its way, or its push has failed.*)
OnlyLastMinuteUnpushed ==
  \A k \in 1 .. Len(rolling_1m) :
    LET ts == rolling_1m[k].timestamp
    IN  \/ \E c \in pushed : c.timestamp = ts
        \/ \E p \in pushes : p.candle.timestamp = ts
        \/ ts \in dropped
        \/ /\ shut > ts
           /\ \A c \in ToSet(AllCandles) :
                c.timestamp \div DAY = ts \div DAY => c.timestamp <= ts

(* The copies that outlive the process may lack what late ticks added to   *)
(* the range of a candle, and nothing else: open and close are those of    *)
(* the candle of the engine, for each minute that was given away once.     *)
CopiesAgree ==
  \A k \in 1 .. Len(rolling_1m), r \in table \cup {RowOf(c) : c \in zset} :
    LET c == rolling_1m[k]
    IN  r.timestamp = c.timestamp /\ c.timestamp \notin doubled =>
          /\ r.open = c.open /\ r.close = c.close
          /\ r.high <= c.high /\ c.low <= r.low

(* The script says that it flushes the candle data accumulated during      *)
(* trading hours into the database: when it has left the stream behind,    *)
(* each minute it had read is in the table.                                *)
FlushStoresBatch ==
  [][ (flushing = "insert" /\ flushing' # "insert") =>
        \A i \in DOMAIN batch :
          \E r \in table' : r.timestamp = batch[i].timestamp ]_persistVars
=============================================================================
