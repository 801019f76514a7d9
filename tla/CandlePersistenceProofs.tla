----------------------- MODULE CandlePersistenceProofs -----------------------
(***************************************************************************)
(* Proofs about CandlePersistence, for every set of tick times and prices, *)
(* every number of restarts, dumps and flushes, and every combination of   *)
(* the faults; most need that the flush runs after the session, and those  *)
(* that look at the candles that no session tick follows a tick after it.  *)
(***************************************************************************)
EXTENDS CandlePersistence, CandleServiceProofs

(* The step of the engine that an event comes from: only a rollover hands  *)
(* a closed candle to Redis, and the candle that opens is of a later       *)
(* minute.                                                                 *)
LEMMA PushesLemma ==
  ASSUME TypeOK, NEW t \in Tick, ProcessTick(t)
  PROVE  \/ PushesFor(event') = {}
         \/ /\ current_1m \in Candle /\ current_1m' \in Candle
            /\ InSession(t.ts)
            /\ PushesFor(event') = {ServerPush(Finalized(current_1m))}
            /\ Finalized(current_1m).timestamp = current_1m.timestamp
            /\ current_1m'.timestamp # current_1m.timestamp
<1>1. current_1m # None => current_1m \in Candle
  BY DEF TypeOK
<1>2. CASE Rollover(t)
  <2>1. current_1m \in Candle /\ Finalized(current_1m) \in Candle
    BY <1>1, <1>2, FinalizedLemma DEF Rollover
  <2>2. event'.closed_candle = Finalized(current_1m) /\ event' \in Event
    BY <1>2, <2>1, NewCandleLemma DEF Rollover, Event
  <2>3. event'.closed_candle # None
    BY <2>1, <2>2, NoneAssumption
  <2>4. current_1m'.timestamp = Bucket(t.ts) /\ current_1m' \in Candle
    BY <1>2, NewCandleLemma DEF Rollover
  <2>5. Bucket(t.ts) > current_1m.timestamp /\ InSession(t.ts)
    BY <1>2 DEF Rollover
  <2>6. Bucket(t.ts) \in Nat /\ current_1m.timestamp \in Nat
    BY <2>1, NewCandleLemma DEF Candle
  <2> QED BY <2>1, <2>2, <2>3, <2>4, <2>5, <2>6, FinalizedLemma DEF PushesFor
<1>3. CASE ~Rollover(t)
  <2>1. event' = None \/ event'.closed_candle = None
    <3>1. CASE IgnoreTick(t)
      BY <3>1 DEF IgnoreTick
    <3>2. CASE CloseSession(t)
      BY <3>2 DEF CloseSession
    <3>3. CASE FirstTick(t)
      BY <3>3 DEF FirstTick
    <3>4. CASE UpdateForming(t)
      <4>1. event' = [event_type |-> "update", candle |-> current_1m',
                      closed_candle |-> None]
        BY <3>4, Zenon DEF UpdateForming
      <4> QED BY <4>1
    <3>5. CASE LateTick(t)
      BY <3>5 DEF LateTick
    <3> QED BY <1>3, <3>1, <3>2, <3>3, <3>4, <3>5 DEF ProcessTick
  <2> QED BY <2>1 DEF PushesFor
<1> QED BY <1>2, <1>3

(* Every step keeps the types of the engine: it is a step of the engine, a *)
(* restart, or leaves the engine alone.                                    *)
LEMMA EngineStep ==
  ASSUME TypeOK, [PersistNext]_persistVars
  PROVE  TypeOK'
<1>1. ASSUME NEW t \in Tick, FeedTick(t)
      PROVE  TypeOK'
  <2>1. [Next]_vars
    BY <1>1 DEF FeedTick, Next
  <2> QED BY <2>1, TypeOKStep
<1>2. CASE ServerStops
  BY <1>2, ConstantsAssumption DEF ServerStops, TypeOK, feed
<1>3. CASE UNCHANGED vars
  BY <1>3 DEF vars, state, feed, TypeOK
<1>4. (\A t \in Tick : ~FeedTick(t)) /\ ~ServerStops => UNCHANGED vars
  BY DEF PersistNext, persistVars, AddToSet, AddToStream, PushFails,
         ServerStarts, DumpFetch, DumpPush, FlushRead, FlushReadSets,
         FlushCommit, FlushRollback, FlushTrim, FlushDies
<1> QED BY <1>1, <1>2, <1>3, <1>4
-----------------------------------------------------------------------------
(* While the flush runs nothing is on its way to Redis, so that the batch  *)
(* it commits is the stream it trims.                                      *)
LossInv ==
  /\ stream \in Seq(pushed)
  /\ flushing # "off" => pushes = {} /\ dump = {}
  /\ flushing \in {"sets", "insertSets"} => stream = <<>>
  /\ flushing = "insert" => batch = stream
  /\ flushing = "trim" => \A i \in DOMAIN stream : Stored(stream[i])
  /\ NothingPushedIsLost

LEMMA LossInit == PersistInit => LossInv
BY DEF PersistInit, LossInv, NothingPushedIsLost

(* What a trim leaves is an end of the stream.                             *)
LEMMA SuffixLemma ==
  ASSUME NEW T, NEW s \in Seq(T), NEW first \in 1 .. Len(s) + 1
  PROVE  /\ SubSeq(s, first, Len(s)) \in Seq(T)
         /\ \A k \in DOMAIN SubSeq(s, first, Len(s)) :
              /\ k + first - 1 \in DOMAIN s
              /\ SubSeq(s, first, Len(s))[k] = s[k + first - 1]
OBVIOUS

LEMMA LossStep ==
  ASSUME ~FlushInSession, TypeOK, LossInv, [PersistNext]_persistVars
  PROVE  LossInv'
<1> USE DEF redis, script, history
<1>1. ASSUME NEW t \in Tick, FeedTick(t)
      PROVE  LossInv'
  <2>1. ProcessTick(t) /\ pushes' = pushes \cup PushesFor(event')
    BY <1>1 DEF FeedTick
  <2>2. flushing # "off" => ~InSession(t.ts)
    BY <1>1 DEF FeedTick
  <2>3. flushing # "off" => pushes' = {}
    BY <2>1, <2>2, PushesLemma DEF LossInv
  <2>4. UNCHANGED <<dump, stream, table, flushing, batch, pushed>>
    BY <1>1 DEF FeedTick
  <2> QED BY <2>3, <2>4 DEF LossInv, NothingPushedIsLost, Stored
<1>2. ASSUME NEW p \in pushes, AddToSet(p) \/ PushFails(p)
      PROVE  LossInv'
  BY <1>2 DEF AddToSet, PushFails, LossInv, NothingPushedIsLost, Stored
<1>3. ASSUME NEW p \in pushes, AddToStream(p)
      PROVE  LossInv'
  <2>1. flushing = "off" /\ stream \in Seq(pushed)
    BY <1>3 DEF LossInv
  <2>2. stream' = Append(stream, p.candle) /\ pushed' = pushed \cup {p.candle}
    BY <1>3 DEF AddToStream
  <2>3. /\ stream' \in Seq(pushed') /\ Len(stream') = Len(stream) + 1
        /\ stream'[Len(stream) + 1] = p.candle
        /\ \A i \in 1 .. Len(stream) : stream'[i] = stream[i]
    <3>1. stream \in Seq(pushed')
      BY <2>1, <2>2
    <3> QED BY <3>1, <2>2
  <2>4. UNCHANGED <<table, flushing>>
    BY <1>3 DEF AddToStream
  <2>5. NothingPushedIsLost'
    <3> SUFFICES ASSUME NEW c \in pushed'
                 PROVE  Stored(c)' \/ \E i \in DOMAIN stream' : stream'[i] = c
      BY DEF NothingPushedIsLost
    <3>1. CASE c = p.candle
      BY <3>1, <2>1, <2>3
    <3>2. CASE c \in pushed
      <4>1. CASE Stored(c)
        BY <4>1, <2>4 DEF Stored
      <4>2. CASE \E i \in DOMAIN stream : stream[i] = c
        BY <4>2, <2>1, <2>3
      <4> QED BY <3>2, <4>1, <4>2 DEF LossInv, NothingPushedIsLost
    <3> QED BY <3>1, <3>2, <2>2
  <2> QED BY <2>1, <2>3, <2>4, <2>5 DEF LossInv
<1>4. CASE ServerStops
  BY <1>4 DEF ServerStops, LossInv, NothingPushedIsLost, Stored
<1>5. CASE ServerStarts
  BY <1>5 DEF ServerStarts, LossInv, NothingPushedIsLost, Stored
<1>6. ASSUME NEW h \in Histories("1m"), DumpFetch(h)
      PROVE  LossInv'
  BY <1>6 DEF DumpFetch, LossInv, NothingPushedIsLost, Stored
<1>7. CASE DumpPush
  BY <1>7 DEF DumpPush, LossInv, NothingPushedIsLost, Stored
<1>8. CASE FlushRead
  BY <1>8 DEF FlushRead, Evening, LossInv, NothingPushedIsLost, Stored
<1>9. CASE FlushReadSets \/ FlushRollback \/ FlushDies
  BY <1>9 DEF FlushReadSets, FlushRollback, FlushDies, LossInv,
              NothingPushedIsLost, Stored
<1>10. CASE FlushCommit
  <2>1. /\ flushing \in {"insert", "insertSets"}
        /\ table' = table \cup {RowOf(batch[i]) : i \in DOMAIN batch}
        /\ flushing' = IF flushing = "insert" THEN "trim" ELSE "off"
        /\ UNCHANGED <<pushes, dump, stream, pushed>>
    BY <1>10 DEF FlushCommit
  <2>2. NothingPushedIsLost'
    BY <2>1 DEF LossInv, NothingPushedIsLost, Stored
  <2>3. flushing = "insert" => \A i \in DOMAIN stream : Stored(stream[i])'
    <3> SUFFICES ASSUME flushing = "insert", NEW i \in DOMAIN stream
                 PROVE  \E r \in table' : r.timestamp = stream[i].timestamp
      BY <2>1 DEF Stored
    <3>1. RowOf(stream[i]) \in table'
      BY <2>1 DEF LossInv
    <3>2. RowOf(stream[i]).timestamp = stream[i].timestamp
      BY DEF RowOf
    <3> QED BY <3>1, <3>2
  <2> QED BY <2>1, <2>2, <2>3 DEF LossInv, Stored
<1>11. CASE FlushTrim
  <2>1. /\ flushing = "trim" /\ flushing' = "off"
        /\ UNCHANGED <<pushes, dump, table, pushed>>
    BY <1>11 DEF FlushTrim
  <2>2. stream' \in Seq(pushed)
    BY <1>11, SuffixLemma DEF FlushTrim, LossInv
  <2>3. NothingPushedIsLost'
    BY <2>1 DEF LossInv, NothingPushedIsLost, Stored
  <2> QED BY <2>1, <2>2, <2>3 DEF LossInv
<1>12. CASE UNCHANGED persistVars
  BY <1>12 DEF persistVars, LossInv, NothingPushedIsLost, Stored
<1> QED BY <1>1, <1>2, <1>3, <1>4, <1>5, <1>6, <1>7, <1>8, <1>9, <1>10, <1>11,
           <1>12 DEF PersistNext

(* Whatever was appended to the stream stays there until it is in the      *)
(* table, when the flush runs after the session.                           *)
THEOREM PushedIsKept ==
  ASSUME ~FlushInSession PROVE PersistSpec => []NothingPushedIsLost
<1>1. PersistInit => TypeOK /\ LossInv
  BY LossInit, ConstantsAssumption DEF PersistInit, Init, TypeOK
<1>2. TypeOK /\ LossInv /\ [PersistNext]_persistVars => TypeOK' /\ LossInv'
  BY EngineStep, LossStep
<1>3. LossInv => NothingPushedIsLost
  BY DEF LossInv
<1> QED BY <1>1, <1>2, <1>3, PTL DEF PersistSpec
-----------------------------------------------------------------------------
(* The minutes that were not given away twice: those of the forming        *)
(* candle, of the candles on their way, and of the stream are all          *)
(* different, and what is on its way or in the stream is not yet stored,   *)
(* except for what a flush has left behind.                                *)
OnTheWayFresh ==
  \A p \in pushes : p.candle.timestamp \notin doubled =>
    /\ p.step = "zadd" => \A c \in zset : c.timestamp # p.candle.timestamp
    /\ \A c \in pushed : c.timestamp # p.candle.timestamp
    /\ \A r \in table : r.timestamp # p.candle.timestamp
    /\ \A q \in pushes : q.candle.timestamp = p.candle.timestamp => q = p

FormingFresh ==
  current_1m # None /\ current_1m.timestamp \notin doubled =>
    /\ \A c \in zset \cup pushed : c.timestamp # current_1m.timestamp
    /\ \A p \in pushes : p.candle.timestamp # current_1m.timestamp

StreamFresh ==
  /\ \A i, j \in DOMAIN stream :
       i # j /\ stream[i].timestamp = stream[j].timestamp => stream[i].timestamp \in doubled
  /\ flushing # "trim" =>
       \A i \in DOMAIN stream : Stored(stream[i]) => stream[i].timestamp \in doubled \cup left

(* What is stored is in the sorted sets, where every push begins and which *)
(* nothing leaves.                                                         *)
SetsHaveAll ==
  /\ \A r \in table : \E c \in zset : c.timestamp = r.timestamp
  /\ pushed \subseteq zset
  /\ \A p \in pushes : p.step = "xadd" => p.candle \in zset

SetsBatch == flushing = "insertSets" => batch = [c \in zset |-> c]

DumpDoubled == \A c \in dump : c.timestamp \in doubled

LeftStored == \A m \in left : \E r \in table : r.timestamp = m

CollisionInv == /\ OnTheWayFresh /\ FormingFresh /\ StreamFresh /\ SetsHaveAll
                /\ SetsBatch /\ DumpDoubled /\ LeftStored

LEMMA CollisionInit == PersistInit => CollisionInv
BY DEF PersistInit, CollisionInv, OnTheWayFresh, FormingFresh, StreamFresh,
       SetsHaveAll, SetsBatch, DumpDoubled, LeftStored, Init

(* The engine's candle after a step is the old one's minute, or one that   *)
(* was never given to Redis, or one that is recorded as given again.       *)
LEMMA FormingLemma ==
  ASSUME TypeOK, NEW t \in Tick, FeedTick(t), CollisionInv
  PROVE  /\ FormingFresh' /\ OnTheWayFresh'
         /\ \A p \in pushes' : p \in pushes \/ p.step = "zadd"
<1>1. /\ ProcessTick(t) /\ pushes' = pushes \cup PushesFor(event')
      /\ doubled \subseteq doubled' /\ UNCHANGED <<zset, pushed, table>>
      /\ Reopened => current_1m'.timestamp \in doubled'
  BY DEF FeedTick, redis, history
<1>2. current_1m' # None =>
        \/ current_1m # None /\ current_1m'.timestamp = current_1m.timestamp
        \/ /\ \A c \in zset \cup pushed : c.timestamp # current_1m'.timestamp
           /\ \A p \in pushes : p.candle.timestamp # current_1m'.timestamp
        \/ current_1m'.timestamp \in doubled'
  BY <1>1 DEF Reopened
<1>3. current_1m' # None /\ current_1m'.timestamp \notin doubled' =>
        /\ \A c \in zset \cup pushed : c.timestamp # current_1m'.timestamp
        /\ \A p \in pushes : p.candle.timestamp # current_1m'.timestamp
  BY <1>1, <1>2 DEF CollisionInv, FormingFresh
<1>4. CASE PushesFor(event') = {}
  BY <1>1, <1>3, <1>4 DEF CollisionInv, FormingFresh, OnTheWayFresh
<1>5. CASE PushesFor(event') # {}
  <2> DEFINE new == ServerPush(Finalized(current_1m))
  <2>1. /\ current_1m \in Candle /\ current_1m' \in Candle
        /\ pushes' = pushes \cup {new}
        /\ current_1m'.timestamp # current_1m.timestamp
        /\ new.candle.timestamp = current_1m.timestamp /\ new.step = "zadd"
    BY <1>1, <1>5, PushesLemma DEF ServerPush
  <2>2. current_1m # None
    BY <2>1, NoneAssumption
  <2> HIDE DEF new
  <2>3. new.candle.timestamp \notin doubled' =>
          /\ \A c \in zset \cup pushed : c.timestamp # new.candle.timestamp
          /\ \A p \in pushes : p.candle.timestamp # new.candle.timestamp
    BY <1>1, <2>1, <2>2 DEF CollisionInv, FormingFresh
  <2>4. new.candle.timestamp \notin doubled' =>
          \A r \in table : r.timestamp # new.candle.timestamp
    BY <2>3 DEF CollisionInv, SetsHaveAll
  <2>5. FormingFresh'
    BY <1>1, <1>3, <2>1 DEF FormingFresh
  <2>6. OnTheWayFresh'
    BY <1>1, <2>1, <2>3, <2>4 DEF CollisionInv, OnTheWayFresh
  <2> QED BY <2>1, <2>5, <2>6
<1> QED BY <1>4, <1>5

LEMMA CollisionStep ==
  ASSUME ~FlushInSession, TypeOK, LossInv, CollisionInv,
         [PersistNext]_persistVars
  PROVE  CollisionInv'
<1> USE DEF redis, script, history
<1>1. ASSUME NEW t \in Tick, FeedTick(t)
      PROVE  CollisionInv'
  <2>1. /\ FormingFresh' /\ OnTheWayFresh'
        /\ \A p \in pushes' : p \in pushes \/ p.step = "zadd"
    BY <1>1, FormingLemma
  <2>2. /\ UNCHANGED <<dump, zset, stream, table, flushing, batch, pushed, left>>
        /\ doubled \subseteq doubled'
    BY <1>1 DEF FeedTick
  <2> QED BY <2>1, <2>2 DEF CollisionInv, StreamFresh, SetsHaveAll, SetsBatch,
                            DumpDoubled, LeftStored, Stored
<1>2. ASSUME NEW p \in pushes, AddToSet(p)
      PROVE  CollisionInv'
  <2> DEFINE q == [p EXCEPT !.step = "xadd"]
  <2>1. /\ p.step = "zadd" /\ zset' = zset \cup {p.candle}
        /\ pushes' = (pushes \ {p}) \cup {q} /\ flushing = "off"
        /\ UNCHANGED <<vars, dump, stream, table, flushing, batch, pushed, doubled, left>>
    BY <1>2 DEF AddToSet, LossInv
  <2>2. q.step = "xadd" /\ q.candle = p.candle
    BY DEF AddToSet
  <2> HIDE DEF q
  <2>3. OnTheWayFresh'
    BY <2>1, <2>2 DEF CollisionInv, OnTheWayFresh
  <2>4. FormingFresh'
    BY <2>1, <2>2 DEF CollisionInv, FormingFresh, vars, state
  <2>5. SetsHaveAll'
    BY <2>1, <2>2 DEF CollisionInv, SetsHaveAll
  <2> QED BY <2>1, <2>3, <2>4, <2>5
          DEF CollisionInv, StreamFresh, SetsBatch, DumpDoubled, LeftStored, Stored
<1>3. ASSUME NEW p \in pushes, AddToStream(p)
      PROVE  CollisionInv'
  <2>1. /\ stream' = Append(stream, p.candle) /\ pushed' = pushed \cup {p.candle}
        /\ pushes' = pushes \ {p} /\ flushing = "off" /\ p.step = "xadd"
        /\ UNCHANGED <<vars, dump, zset, table, flushing, batch, doubled, left>>
    BY <1>3 DEF AddToStream, LossInv
  <2>2. p.candle.timestamp \notin doubled =>
          /\ \A c \in pushed : c.timestamp # p.candle.timestamp
          /\ \A r \in table : r.timestamp # p.candle.timestamp
    BY DEF CollisionInv, OnTheWayFresh
  <2>3. /\ DOMAIN stream' = DOMAIN stream \cup {Len(stream) + 1}
        /\ stream'[Len(stream) + 1] = p.candle
        /\ \A i \in DOMAIN stream : stream'[i] = stream[i] /\ stream[i] \in pushed
    BY <2>1 DEF LossInv
  <2>4. StreamFresh'
    BY <2>1, <2>2, <2>3 DEF CollisionInv, StreamFresh, Stored
  <2>5. OnTheWayFresh'
    BY <2>1 DEF CollisionInv, OnTheWayFresh
  <2>6. FormingFresh'
    BY <2>1 DEF CollisionInv, FormingFresh, vars, state
  <2>7. SetsHaveAll'
    BY <2>1 DEF CollisionInv, SetsHaveAll
  <2> QED BY <2>1, <2>4, <2>5, <2>6, <2>7
          DEF CollisionInv, SetsBatch, DumpDoubled, LeftStored
<1>4. ASSUME NEW p \in pushes, PushFails(p)
      PROVE  CollisionInv'
  BY <1>4 DEF PushFails, CollisionInv, OnTheWayFresh, FormingFresh, StreamFresh,
              SetsHaveAll, SetsBatch, DumpDoubled, LeftStored, Stored, vars, state
<1>5. CASE ServerStops
  BY <1>5 DEF ServerStops, CollisionInv, OnTheWayFresh, FormingFresh, StreamFresh,
              SetsHaveAll, SetsBatch, DumpDoubled, LeftStored, Stored
<1>6. CASE ServerStarts
  BY <1>6 DEF ServerStarts, CollisionInv, OnTheWayFresh, FormingFresh, StreamFresh,
              SetsHaveAll, SetsBatch, DumpDoubled, LeftStored, Stored, vars, state
<1>7. ASSUME NEW h \in Histories("1m"), DumpFetch(h)
      PROVE  CollisionInv'
  <2>1. /\ doubled' = doubled \cup {c.timestamp : c \in dump'}
        /\ UNCHANGED <<vars, pushes, zset, stream, table, flushing, batch, pushed, left>>
    BY <1>7 DEF DumpFetch
  <2>2. DumpDoubled'
    BY <2>1 DEF DumpDoubled
  <2> QED BY <2>1, <2>2 DEF CollisionInv, OnTheWayFresh, FormingFresh, StreamFresh,
              SetsHaveAll, SetsBatch, LeftStored, Stored, vars, state
<1>8. CASE DumpPush
  <2>1. PICK c \in dump :
          /\ dump' = dump \ {c}
          /\ pushes' = pushes \cup {[candle |-> c, step |-> "zadd", by |-> "dump"]}
    BY <1>8 DEF DumpPush
  <2> DEFINE new == [candle |-> c, step |-> "zadd", by |-> "dump"]
  <2>2. /\ UNCHANGED <<vars, zset, stream, table, flushing, batch, pushed, doubled, left>>
        /\ c.timestamp \in doubled
    BY <1>8 DEF DumpPush, CollisionInv, DumpDoubled
  <2>3. new.candle = c /\ new.step = "zadd" /\ pushes' = pushes \cup {new}
    BY <2>1
  <2> HIDE DEF new
  <2>4. OnTheWayFresh'
    BY <2>2, <2>3 DEF CollisionInv, OnTheWayFresh
  <2>5. FormingFresh'
    BY <2>2, <2>3 DEF CollisionInv, FormingFresh, vars, state
  <2>6. SetsHaveAll'
    BY <2>2, <2>3 DEF CollisionInv, SetsHaveAll
  <2> QED BY <2>1, <2>2, <2>4, <2>5, <2>6
          DEF CollisionInv, StreamFresh, SetsBatch, DumpDoubled, LeftStored, Stored
<1>9. CASE FlushRead \/ FlushReadSets \/ FlushRollback
  <2>1. /\ flushing # "trim" /\ flushing' # "trim"
        /\ UNCHANGED <<vars, pushes, dump, zset, stream, table, pushed, doubled, left>>
    BY <1>9 DEF FlushRead, FlushReadSets, FlushRollback
  <2>2. SetsBatch'
    BY <1>9, <2>1 DEF FlushRead, FlushReadSets, FlushRollback, SetsBatch
  <2> QED BY <2>1, <2>2 DEF CollisionInv, OnTheWayFresh, FormingFresh, StreamFresh,
              SetsHaveAll, DumpDoubled, LeftStored, Stored, vars, state
<1>10. CASE FlushCommit
  <2>1. /\ flushing \in {"insert", "insertSets"}
        /\ table' = table \cup {RowOf(batch[i]) : i \in DOMAIN batch}
        /\ flushing' = IF flushing = "insert" THEN "trim" ELSE "off"
        /\ pushes = {}
        /\ UNCHANGED <<vars, pushes, dump, zset, stream, pushed, doubled, left>>
    BY <1>10 DEF FlushCommit, LossInv
  <2>2. \A i \in DOMAIN batch : batch[i] \in zset
    BY <2>1 DEF CollisionInv, SetsBatch, SetsHaveAll, LossInv
  <2>3. SetsHaveAll'
    <3>1. \A i \in DOMAIN batch : RowOf(batch[i]).timestamp = batch[i].timestamp
      BY DEF RowOf
    <3> QED BY <2>1, <2>2, <3>1 DEF CollisionInv, SetsHaveAll
  <2>4. StreamFresh'
    BY <2>1 DEF CollisionInv, StreamFresh, LossInv
  <2>5. FormingFresh'
    BY <2>1 DEF CollisionInv, FormingFresh, vars, state
  <2> QED BY <2>1, <2>3, <2>4, <2>5
          DEF CollisionInv, OnTheWayFresh, SetsBatch, DumpDoubled, LeftStored
<1>11. CASE FlushTrim
  <2>1. PICK first \in 1 .. Len(stream) + 1 : stream' = SubSeq(stream, first, Len(stream))
    BY <1>11 DEF FlushTrim
  <2>2. /\ flushing = "trim" /\ flushing' = "off"
        /\ left' = left \cup {c.timestamp : c \in ToSet(stream')}
        /\ UNCHANGED <<vars, pushes, dump, zset, table, batch, pushed, doubled>>
    BY <1>11 DEF FlushTrim
  <2>3. /\ first \in Nat
        /\ \A k \in DOMAIN stream' :
             /\ k \in Nat /\ k + first - 1 \in DOMAIN stream
             /\ stream'[k] = stream[k + first - 1]
             /\ stream'[k].timestamp \in left'
    <3>1. stream \in Seq(pushed)
      BY DEF LossInv
    <3>2. /\ stream' \in Seq(pushed)
          /\ \A k \in DOMAIN stream' : k + first - 1 \in DOMAIN stream
                                       /\ stream'[k] = stream[k + first - 1]
      BY <2>1, <3>1, SuffixLemma
    <3>3. \A k \in DOMAIN stream' : k \in Nat /\ stream'[k].timestamp \in left'
      BY <2>2, <3>2 DEF ToSet
    <3> QED BY <2>1, <3>1, <3>2, <3>3
  <2>4. StreamFresh'
    <3>1. ASSUME NEW i \in DOMAIN stream', NEW j \in DOMAIN stream', i # j,
                 stream'[i].timestamp = stream'[j].timestamp
          PROVE  stream'[i].timestamp \in doubled
      <4> DEFINE a == i + first - 1
                 b == j + first - 1
      <4>1. /\ a \in DOMAIN stream /\ b \in DOMAIN stream /\ a # b
            /\ stream'[i] = stream[a] /\ stream'[j] = stream[b]
        BY <2>3, <3>1
      <4> HIDE DEF a, b
      <4> QED BY <3>1, <4>1 DEF CollisionInv, StreamFresh
    <3> QED BY <2>2, <2>3, <3>1 DEF StreamFresh
  <2>5. LeftStored'
    <3>1. \A k \in DOMAIN stream' : \E r \in table : r.timestamp = stream'[k].timestamp
      BY <2>2, <2>3 DEF LossInv, Stored
    <3>2. \A m \in left' : m \in left \/ \E k \in DOMAIN stream' : m = stream'[k].timestamp
      BY <2>2 DEF ToSet
    <3> QED BY <2>2, <3>1, <3>2 DEF CollisionInv, LeftStored
  <2>6. OnTheWayFresh' /\ FormingFresh'
    BY <2>2 DEF CollisionInv, OnTheWayFresh, FormingFresh, vars, state
  <2>7. SetsHaveAll' /\ SetsBatch' /\ DumpDoubled'
    BY <2>2 DEF CollisionInv, SetsHaveAll, SetsBatch, DumpDoubled
  <2> QED BY <2>4, <2>5, <2>6, <2>7 DEF CollisionInv
<1>12. CASE FlushDies
  <2>1. /\ flushing' = "off"
        /\ left' = IF flushing = "trim" THEN left \cup {c.timestamp : c \in ToSet(stream)}
                   ELSE left
        /\ UNCHANGED <<vars, pushes, dump, zset, stream, table, pushed, doubled>>
    BY <1>12 DEF FlushDies
  <2>2. flushing = "trim" =>
          \A i \in DOMAIN stream : Stored(stream[i]) /\ stream[i].timestamp \in left'
    BY <2>1 DEF LossInv, ToSet
  <2>3. LeftStored'
    BY <2>1, <2>2 DEF CollisionInv, LeftStored, Stored, ToSet
  <2>4. StreamFresh'
    BY <2>1, <2>2 DEF CollisionInv, StreamFresh, Stored
  <2>5. OnTheWayFresh' /\ FormingFresh'
    BY <2>1 DEF CollisionInv, OnTheWayFresh, FormingFresh, vars, state
  <2> QED BY <2>1, <2>3, <2>4, <2>5 DEF CollisionInv, SetsHaveAll, SetsBatch, DumpDoubled
<1>13. CASE UNCHANGED persistVars
  BY <1>13 DEF persistVars, CollisionInv, OnTheWayFresh, FormingFresh, StreamFresh,
               SetsHaveAll, SetsBatch, DumpDoubled, LeftStored, Stored, vars, state
<1> QED BY <1>1, <1>2, <1>3, <1>4, <1>5, <1>6, <1>7, <1>8, <1>9, <1>10, <1>11, <1>12,
           <1>13 DEF PersistNext

LEMMA CollisionMeans ==
  ASSUME LossInv, CollisionInv
  PROVE  FlushCollisions
<1>1. ASSUME flushing = "insert", ~Insertable(batch)
      PROVE  \E i \in DOMAIN batch : batch[i].timestamp \in doubled \cup left
  BY <1>1 DEF LossInv, CollisionInv, StreamFresh, Insertable, Stored
<1>2. ASSUME flushing = "insert", Insertable(batch), NEW i \in DOMAIN batch
      PROVE  batch[i].timestamp \notin left
  BY <1>2 DEF CollisionInv, LeftStored, Insertable
<1>3. ASSUME flushing = "insertSets", Insertable(batch), NEW r \in table
      PROVE  FALSE
  <2>1. PICK c \in zset : c.timestamp = r.timestamp
    BY DEF CollisionInv, SetsHaveAll
  <2>2. c \in DOMAIN batch /\ batch[c] = c
    BY <1>3 DEF CollisionInv, SetsBatch
  <2> QED BY <1>3, <2>1, <2>2 DEF Insertable
<1> QED BY <1>1, <1>2, <1>3 DEF FlushCollisions

(* A flush of the stream is refused only for a minute that was given away  *)
(* twice or was left there by a flush that had stored it, and for each of  *)
(* the latter; a flush of the sorted sets whenever anything is stored.     *)
(* Failing calls of Redis, rollbacks and late ticks never refuse one; when *)
(* the flush runs after the session.                                       *)
THEOREM RefusalsExplained ==
  ASSUME ~FlushInSession PROVE PersistSpec => []FlushCollisions
<1>1. PersistInit => TypeOK /\ LossInv /\ CollisionInv
  BY LossInit, CollisionInit, ConstantsAssumption DEF PersistInit, Init, TypeOK
<1>2. TypeOK /\ LossInv /\ CollisionInv /\ [PersistNext]_persistVars
        => TypeOK' /\ LossInv' /\ CollisionInv'
  BY EngineStep, LossStep, CollisionStep
<1>3. LossInv /\ CollisionInv => FlushCollisions
  BY CollisionMeans
<1> QED BY <1>1, <1>2, <1>3, PTL DEF PersistSpec
-----------------------------------------------------------------------------
(* Every step keeps the order of the engine's candles.                     *)
LEMMA EngineOrderStep ==
  ASSUME ~LateAfterClose, OrderInv, [PersistNext]_persistVars
  PROVE  OrderInv'
<1>1. ASSUME NEW t \in Tick, FeedTick(t)
      PROVE  OrderInv'
  <2>1. [Next]_vars
    BY <1>1 DEF FeedTick, Next
  <2> QED BY <2>1, OrderInvStep
<1>2. CASE ServerStops
  <2>1. TypeOK'
    BY EngineStep DEF OrderInv
  <2>2. current_1m' = None /\ rolling_1m' = <<>> /\ UNCHANGED feed
    BY <1>2 DEF ServerStops
  <2> QED BY <2>1, <2>2 DEF OrderInv, RollingOrdered, FeedInv, feed
<1>3. CASE UNCHANGED vars
  BY <1>3 DEF vars, state, feed, OrderInv, TypeOK, RollingOrdered, FeedInv
<1>4. (\A t \in Tick : ~FeedTick(t)) /\ ~ServerStops => UNCHANGED vars
  BY DEF PersistNext, persistVars, AddToSet, AddToStream, PushFails,
         ServerStarts, DumpFetch, DumpPush, FlushRead, FlushReadSets,
         FlushCommit, FlushRollback, FlushTrim, FlushDies
<1> QED BY <1>1, <1>2, <1>3, <1>4

-----------------------------------------------------------------------------
(* A candle of the deque after a tick is one of before, perhaps stretched, *)
(* or the forming candle, which is on its way to Redis unless the tick was *)
(* the first after the session.                                            *)
Widened(old, new) ==
  /\ new.timestamp = old.timestamp /\ new.open = old.open /\ new.close = old.close
  /\ old.high <= new.high /\ new.low <= old.low

Closing(t) ==
  \/ PushesFor(event') = {ServerPush(Finalized(current_1m))}
  \/ /\ AfterClose(t.ts) /\ current_1m' = None
     /\ PushesFor(event') = {}

(* Only a rollover gives Redis a candle, the one that it closes.           *)
LEMMA RolloverPushes ==
  ASSUME TypeOK, NEW t \in Tick, Rollover(t)
  PROVE  PushesFor(event') = {ServerPush(Finalized(current_1m))}
<1>1. current_1m # None => current_1m \in Candle
  BY DEF TypeOK
<1>2. current_1m \in Candle /\ Finalized(current_1m) \in Candle
  BY <1>1, FinalizedLemma DEF Rollover
<1>3. event'.closed_candle = Finalized(current_1m) /\ event' \in Event
  BY <1>2, NewCandleLemma DEF Rollover, Event
<1>4. event'.closed_candle # None
  BY <1>2, <1>3, NoneAssumption
<1>5. event' # None
  BY <1>3, NoneAssumption
<1> QED BY <1>3, <1>4, <1>5 DEF PushesFor

LEMMA WidenedLemma ==
  ASSUME TypeOK, NEW i \in 1 .. Len(rolling_1m)
  PROVE  Widened(rolling_1m[i], rolling_1m[i])
<1>1. rolling_1m[i] \in Candle
  BY DEF TypeOK
<1>2. rolling_1m[i].high \in Int /\ rolling_1m[i].low \in Int
  BY <1>1, NumbersLemma
<1> QED BY <1>2 DEF Widened

(* The deque with one candle more.                                         *)
LEMMA AppendedLemma ==
  ASSUME NEW s \in Seq(Candle), NEW c \in Candle, Len(s) <= MAX_CANDLES,
         NEW k \in 1 .. Len(DequeAppend(s, c))
  PROVE  \/ DequeAppend(s, c)[k] = c
         \/ \E i \in 1 .. Len(s) : DequeAppend(s, c)[k] = s[i]
<1> DEFINE d == DequeAppend(s, c)
           n == Len(d)
<1>1. /\ n \in Nat /\ d[n] = c
      /\ \E j \in {0, 1} : \A i \in 1 .. (n - 1) : i + j \in 1 .. Len(s) /\ d[i] = s[i + j]
  <2>1. /\ d \in Seq(Candle) /\ d[Len(d)] = c
        /\ \E j \in {0, 1} : \A i \in 1 .. (Len(d) - 1) :
             i + j \in 1 .. Len(s) /\ d[i] = s[i + j]
    BY DequeAppendLemma
  <2>2. Len(d) \in Nat
    BY <2>1
  <2> QED BY <2>1, <2>2
<1>2. k \in 1 .. n
  OBVIOUS
<1>3. k = n \/ k \in 1 .. (n - 1)
  BY <1>1, <1>2
<1> QED BY <1>1, <1>3

LEMMA ClosedLemma ==
  ASSUME TypeOK, NEW t \in Tick, ProcessTick(t), NEW k \in 1 .. Len(rolling_1m')
  PROVE  \/ /\ \E i \in 1 .. Len(rolling_1m) : Widened(rolling_1m[i], rolling_1m'[k])
         \/ /\ current_1m # None /\ current_1m \in Candle
            /\ rolling_1m'[k] = Finalized(current_1m) /\ Closing(t)
<1>1. /\ rolling_1m \in Seq(Candle) /\ Len(rolling_1m) <= MAX_CANDLES
      /\ t.ltp \in Prices
      /\ current_1m # None => current_1m \in Candle
  BY DEF TypeOK, Tick
<1>2. CASE rolling_1m' = rolling_1m
  <2>1. k \in 1 .. Len(rolling_1m) /\ rolling_1m'[k] = rolling_1m[k]
    BY <1>2
  <2> QED BY <2>1, WidenedLemma
<1>3. ASSUME current_1m # None, Closing(t),
             rolling_1m' = DequeAppend(rolling_1m, Finalized(current_1m))
      PROVE  \/ \E i \in 1 .. Len(rolling_1m) : Widened(rolling_1m[i], rolling_1m'[k])
             \/ rolling_1m'[k] = Finalized(current_1m)
  <2>1. Finalized(current_1m) \in Candle
    BY <1>1, <1>3, FinalizedLemma
  <2>2. \/ rolling_1m'[k] = Finalized(current_1m)
        \/ \E i \in 1 .. Len(rolling_1m) : rolling_1m'[k] = rolling_1m[i]
    BY <1>1, <1>3, <2>1, AppendedLemma
  <2> QED BY <2>2, WidenedLemma
<1>4. CASE rolling_1m' = AmendHistory(rolling_1m, Bucket(t.ts), t.ltp)
  <2>1. k \in 1 .. Len(rolling_1m)
    BY <1>1, <1>4, AmendHistoryLemma
  <2>2. Widened(rolling_1m[k], rolling_1m'[k])
    <3>1. /\ rolling_1m'[k].timestamp = rolling_1m[k].timestamp
          /\ rolling_1m'[k].open = rolling_1m[k].open
          /\ rolling_1m'[k].close = rolling_1m[k].close
          /\ rolling_1m'[k].high >= rolling_1m[k].high
          /\ rolling_1m'[k].low <= rolling_1m[k].low
      BY <1>1, <1>4, <2>1, AmendHistoryLemma
    <3>2. rolling_1m[k] \in Candle /\ rolling_1m'[k] \in Candle
      BY <1>1, <1>4, <2>1, AmendHistoryLemma
    <3>3. /\ rolling_1m[k].high \in Int /\ rolling_1m'[k].high \in Int
      BY <3>2, NumbersLemma
    <3> QED BY <3>1, <3>3 DEF Widened
  <2> QED BY <2>1, <2>2
<1>5. CASE CloseSession(t)
  <2>1. current_1m # None /\ rolling_1m' = DequeAppend(rolling_1m, Finalized(current_1m))
    BY <1>5 DEF CloseSession
  <2>2. Closing(t)
    BY <1>5 DEF CloseSession, Closing, PushesFor
  <2> QED BY <1>1, <1>3, <2>1, <2>2
<1>6. CASE Rollover(t)
  <2>1. current_1m # None /\ rolling_1m' = DequeAppend(rolling_1m, Finalized(current_1m))
    BY <1>6 DEF Rollover
  <2>2. Closing(t)
    BY <1>6, RolloverPushes DEF Closing
  <2> QED BY <1>1, <1>3, <2>1, <2>2
<1> QED BY <1>2, <1>4, <1>5, <1>6 DEF ProcessTick, IgnoreTick, FirstTick,
          UpdateForming, LateTick, state
-----------------------------------------------------------------------------
(* The minutes of the deque, with that of the forming candle; those that   *)
(* were given to Redis, and those after which a session ended.             *)
HeldMinutes == {rolling_1m[i].timestamp : i \in 1 .. Len(rolling_1m)}

Minutes == HeldMinutes \cup (IF current_1m = None THEN {} ELSE {current_1m.timestamp})

GivenMinutes == {c.timestamp : c \in pushed} \cup {p.candle.timestamp : p \in pushes}
                  \cup dropped

LastMinutes ==
  {m \in HeldMinutes : /\ shut > m
                       /\ \A n \in Minutes : n \div DAY = m \div DAY => n <= m}

GivenInv == HeldMinutes \subseteq GivenMinutes \cup LastMinutes

LEMMA MinutesLemma ==
  ASSUME TypeOK
  PROVE  /\ Minutes \subseteq Nat /\ HeldMinutes \subseteq Minutes
         /\ {c.timestamp : c \in ToSet(AllCandles)} = Minutes
<1>1. /\ \A k \in 1 .. Len(rolling_1m) : rolling_1m[k] \in Candle
      /\ current_1m # None => current_1m \in Candle
  BY DEF TypeOK
<1>2. Minutes \subseteq Nat
  BY <1>1 DEF Minutes, HeldMinutes, Candle
<1>3. AllCandles \in Seq(Candle)
  BY DEF TypeOK, AllCandles
<1>4. ToSet(AllCandles) = {AllCandles[k] : k \in 1 .. Len(AllCandles)}
  BY <1>3 DEF ToSet
<1>5. ASSUME NEW k \in 1 .. Len(AllCandles) PROVE AllCandles[k].timestamp \in Minutes
  BY AllCandlesLemma DEF Minutes, HeldMinutes
<1>6. ASSUME NEW m \in Minutes PROVE \E k \in 1 .. Len(AllCandles) : AllCandles[k].timestamp = m
  <2>1. CASE m \in HeldMinutes
    <3>1. PICK k \in 1 .. Len(rolling_1m) : m = rolling_1m[k].timestamp
      BY <2>1 DEF HeldMinutes
    <3>2. k \in 1 .. Len(AllCandles) /\ AllCandles[k] = rolling_1m[k]
      BY <3>1, AllCandlesLemma
    <3> QED BY <3>1, <3>2
  <2>2. CASE m \notin HeldMinutes
    <3>1. current_1m # None /\ m = current_1m.timestamp
      BY <1>6, <2>2 DEF Minutes
    <3>2. PICK k \in 1 .. Len(AllCandles) : AllCandles[k] = current_1m
      BY <3>1, AllCandlesLemma
    <3> QED BY <3>1, <3>2
  <2> QED BY <2>1, <2>2
<1> QED BY <1>2, <1>4, <1>5, <1>6 DEF Minutes

LEMMA GivenMeans == ASSUME TypeOK, GivenInv PROVE OnlyLastMinuteUnpushed
<1> SUFFICES ASSUME NEW k \in 1 .. Len(rolling_1m), NEW ts, ts = rolling_1m[k].timestamp
             PROVE  \/ \E c \in pushed : c.timestamp = ts
                    \/ \E p \in pushes : p.candle.timestamp = ts
                    \/ ts \in dropped
                    \/ /\ shut > ts
                       /\ \A c \in ToSet(AllCandles) :
                            c.timestamp \div DAY = ts \div DAY => c.timestamp <= ts
  BY DEF OnlyLastMinuteUnpushed
<1>1. ts \in HeldMinutes
  BY DEF HeldMinutes
<1>2. CASE ts \in GivenMinutes
  BY <1>2 DEF GivenMinutes
<1>3. CASE ts \in LastMinutes
  <2>1. shut > ts /\ \A n \in Minutes : n \div DAY = ts \div DAY => n <= ts
    BY <1>3 DEF LastMinutes
  <2>2. \A c \in ToSet(AllCandles) : c.timestamp \in Minutes
    BY MinutesLemma
  <2> QED BY <2>1, <2>2
<1> QED BY <1>1, <1>2, <1>3 DEF GivenInv

(* The days do not overlap: a candle that opens in the session after an    *)
(* after-hours tick is of a later day than whatever that tick came after.  *)
LEMMA LaterDayLemma ==
  ASSUME NEW ts \in Nat, NEW u \in Nat, AfterClose(u), u > ts,
         NEW b \in Nat, InSession(b), b > u
  PROVE  b \div DAY # ts \div DAY
BY DEF AfterClose, InSession, TimeOfDay, DAY, MARKET_OPEN_TIME, MARKET_CLOSE_TIME

(* What a tick makes of the minutes.                                       *)
LEMMA MinutesTick ==
  ASSUME TypeOK, TypeOK', NEW t \in Tick, ProcessTick(t)
  PROVE  /\ \A m \in HeldMinutes' :
              \/ m \in HeldMinutes
              \/ current_1m # None /\ m = current_1m.timestamp /\ Closing(t)
         /\ current_1m' # None => \/ current_1m'.timestamp \in Minutes
                                  \/ InSession(t.ts) /\ current_1m'.timestamp = Bucket(t.ts)
<1>1. ASSUME NEW m \in HeldMinutes'
      PROVE  \/ m \in HeldMinutes
             \/ current_1m # None /\ m = current_1m.timestamp /\ Closing(t)
  <2>1. PICK k \in 1 .. Len(rolling_1m') : m = rolling_1m'[k].timestamp
    BY DEF HeldMinutes
  <2>2. CASE \E i \in 1 .. Len(rolling_1m) : Widened(rolling_1m[i], rolling_1m'[k])
    BY <2>1, <2>2 DEF Widened, HeldMinutes
  <2>3. CASE /\ current_1m # None /\ current_1m \in Candle
             /\ rolling_1m'[k] = Finalized(current_1m) /\ Closing(t)
    BY <2>1, <2>3, FinalizedLemma
  <2> QED BY <2>2, <2>3, ClosedLemma
<1>2. ASSUME current_1m' # None
      PROVE  \/ current_1m'.timestamp \in Minutes
             \/ InSession(t.ts) /\ current_1m'.timestamp = Bucket(t.ts)
  <2>1. CASE UpdateForming(t)
    <3>1. current_1m # None /\ current_1m \in Candle
      BY <2>1 DEF UpdateForming, TypeOK
    <3>2. current_1m'.timestamp = current_1m.timestamp
      BY <2>1, <3>1, SameMinuteLemma
    <3> QED BY <3>1, <3>2 DEF Minutes
  <2>2. CASE FirstTick(t) \/ Rollover(t)
    BY <2>2, NewCandleLemma DEF FirstTick, Rollover
  <2>3. CASE IgnoreTick(t) \/ LateTick(t) \/ CloseSession(t)
    BY <1>2, <2>3 DEF IgnoreTick, LateTick, CloseSession, state, Minutes
  <2> QED BY <2>1, <2>2, <2>3 DEF ProcessTick
<1> QED BY <1>1, <1>2

LEMMA GivenTick ==
  ASSUME ~LateAfterClose, OrderInv, OrderInv', GivenInv, NEW t \in Tick, FeedTick(t)
  PROVE  GivenInv'
<1>1. /\ ProcessTick(t) /\ Deliver(t) /\ pushes' = pushes \cup PushesFor(event')
      /\ UNCHANGED <<pushed, dropped>>
  BY DEF FeedTick, ProcessTick
<1>2. TypeOK /\ TypeOK' /\ RollingOrdered /\ FeedInv /\ FeedInv'
  BY DEF OrderInv
<1>3. /\ Minutes \subseteq Nat /\ HeldMinutes \subseteq Minutes
      /\ Minutes' \subseteq Nat /\ HeldMinutes' \subseteq Minutes'
  <2>1. /\ \A k \in 1 .. Len(rolling_1m') : rolling_1m'[k] \in Candle
        /\ current_1m' # None => current_1m' \in Candle
    BY <1>2 DEF TypeOK
  <2>2. Minutes' \subseteq Nat /\ HeldMinutes' \subseteq Minutes'
    BY <2>1 DEF Minutes, HeldMinutes, Candle
  <2> QED BY <1>2, <2>2, MinutesLemma
<1>4. /\ shut \in Nat \cup {-1} /\ shut' \in Nat \cup {-1} /\ shut' >= shut
      /\ shut # -1 => AfterClose(shut)
      /\ t.ts \in Nat /\ Bucket(t.ts) \in Nat
      /\ InSession(t.ts) => t.ts > shut /\ InSession(Bucket(t.ts))
  BY <1>1, <1>2, DeliverLemma, NewCandleLemma DEF FeedInv, TypeOK, Deliver
<1>5. ASSUME NEW n \in Minutes'
      PROVE  n \in Minutes \/ (InSession(t.ts) /\ n = Bucket(t.ts))
  <2>1. CASE n \in HeldMinutes'
    BY <1>1, <1>2, <1>3, <2>1, MinutesTick DEF Minutes
  <2>2. CASE n \notin HeldMinutes'
    <3>1. current_1m' # None /\ n = current_1m'.timestamp
      BY <1>5, <2>2 DEF Minutes
    <3> QED BY <1>1, <1>2, <3>1, MinutesTick
  <2> QED BY <2>1, <2>2
<1>6. ASSUME NEW m \in HeldMinutes', m \in LastMinutes
      PROVE  m \in LastMinutes'
  <2>1. shut > m /\ shut \in Nat /\ m \in Nat /\ shut' > m /\ AfterClose(shut)
    <3>1. shut > m /\ m \in Nat
      BY <1>3, <1>6 DEF LastMinutes
    <3> QED BY <1>4, <3>1
  <2>2. ASSUME NEW n \in Minutes', n \div DAY = m \div DAY
        PROVE  n <= m
    <3>1. CASE n \in Minutes
      BY <1>6, <2>2, <3>1 DEF LastMinutes
    <3>2. CASE InSession(t.ts) /\ n = Bucket(t.ts)
      <4>1. Bucket(t.ts) > shut
        BY <1>4, <2>1, <3>2, OvernightLemma
      <4>2. Bucket(t.ts) \div DAY # m \div DAY
        BY <1>4, <2>1, <3>2, <4>1, LaterDayLemma
      <4> QED BY <2>2, <3>2, <4>2
    <3> QED BY <1>5, <3>1, <3>2
  <2> QED BY <1>6, <2>1, <2>2 DEF LastMinutes
<1>7. GivenMinutes \subseteq GivenMinutes'
  BY <1>1 DEF GivenMinutes
<1>8. ASSUME NEW m \in HeldMinutes', current_1m # None, m = current_1m.timestamp, Closing(t)
      PROVE  m \in GivenMinutes' \cup LastMinutes'
  <2>1. current_1m \in Candle
    BY <1>2, <1>8 DEF TypeOK
  <2>2. CASE PushesFor(event') = {ServerPush(Finalized(current_1m))}
    <3>1. ServerPush(Finalized(current_1m)) \in pushes'
      BY <1>1, <2>2
    <3>2. ServerPush(Finalized(current_1m)).candle.timestamp = m
      BY <1>8, <2>1, FinalizedLemma DEF ServerPush
    <3> QED BY <3>1, <3>2 DEF GivenMinutes
  <2>3. CASE AfterClose(t.ts) /\ current_1m' = None
    <3>1. shut' > m
      <4>1. PICK k \in 1 .. Len(rolling_1m') : m = rolling_1m'[k].timestamp
        BY DEF HeldMinutes
      <4>2. rolling_1m'[k].timestamp < shut'
        BY <1>2, <2>3, <4>1 DEF FeedInv
      <4> QED BY <1>3, <1>4, <4>1, <4>2
    <3>2. ~InSession(t.ts)
      BY <1>4, <2>3, AfterLemma
    <3>3. ASSUME NEW n \in Minutes' PROVE n <= m
      <4>1. n \in Minutes /\ n \in Nat /\ m \in Nat
        BY <1>3, <1>5, <3>2
      <4>2. CASE n \in HeldMinutes
        <5>1. PICK k \in 1 .. Len(rolling_1m) : n = rolling_1m[k].timestamp
          BY <4>2 DEF HeldMinutes
        <5>2. rolling_1m[k].timestamp < current_1m.timestamp
          BY <1>2, <1>8, <5>1 DEF RollingOrdered
        <5> QED BY <1>8, <4>1, <5>1, <5>2
      <4>3. CASE n \notin HeldMinutes
        BY <1>8, <4>1, <4>3 DEF Minutes
      <4> QED BY <4>2, <4>3
    <3> QED BY <1>8, <3>1, <3>3 DEF LastMinutes
  <2> QED BY <1>8, <2>2, <2>3 DEF Closing
<1>9. ASSUME NEW m \in HeldMinutes'
      PROVE  m \in GivenMinutes' \cup LastMinutes'
  <2>1. CASE m \in HeldMinutes
    <3>1. m \in GivenMinutes \cup LastMinutes
      BY <2>1 DEF GivenInv
    <3> QED BY <1>6, <1>7, <1>9, <3>1
  <2>2. CASE m \notin HeldMinutes
    BY <1>1, <1>2, <1>8, <1>9, <2>2, MinutesTick
  <2> QED BY <2>1, <2>2
<1> QED BY <1>9 DEF GivenInv

LEMMA GivenStep ==
  ASSUME ~LateAfterClose, OrderInv, GivenInv, [PersistNext]_persistVars
  PROVE  GivenInv'
<1>1. OrderInv'
  BY EngineOrderStep
<1>2. ASSUME NEW t \in Tick, FeedTick(t)
      PROVE  GivenInv'
  BY <1>1, <1>2, GivenTick
<1>3. CASE ServerStops
  <2>1. rolling_1m' = <<>>
    BY <1>3 DEF ServerStops
  <2> QED BY <2>1 DEF GivenInv, HeldMinutes
<1>4. ASSUME UNCHANGED vars, GivenMinutes \subseteq GivenMinutes'
      PROVE  GivenInv'
  BY <1>4 DEF GivenInv, HeldMinutes, LastMinutes, Minutes, vars, state, feed
<1>5. ASSUME NEW p \in pushes, AddToSet(p)
      PROVE  GivenInv'
  <2> DEFINE q == [p EXCEPT !.step = "xadd"]
  <2>1. UNCHANGED <<vars, pushed, dropped>> /\ pushes' = (pushes \ {p}) \cup {q}
    BY <1>5 DEF AddToSet, history
  <2>2. q.candle = p.candle
    OBVIOUS
  <2> HIDE DEF q
  <2>3. GivenMinutes \subseteq GivenMinutes'
    BY <2>1, <2>2 DEF GivenMinutes
  <2> QED BY <1>4, <2>1, <2>3
<1>6. ASSUME NEW p \in pushes, AddToStream(p)
      PROVE  GivenInv'
  <2>1. /\ UNCHANGED <<vars, dropped>> /\ pushes' = pushes \ {p}
        /\ pushed' = pushed \cup {p.candle}
    BY <1>6 DEF AddToStream
  <2>2. GivenMinutes \subseteq GivenMinutes'
    BY <2>1 DEF GivenMinutes
  <2> QED BY <1>4, <2>1, <2>2
<1>7. ASSUME NEW p \in pushes, PushFails(p)
      PROVE  GivenInv'
  <2>1. /\ UNCHANGED <<vars, pushed>> /\ pushes' = pushes \ {p}
        /\ dropped' = dropped \cup {p.candle.timestamp}
    BY <1>7 DEF PushFails
  <2>2. GivenMinutes \subseteq GivenMinutes'
    BY <2>1 DEF GivenMinutes
  <2> QED BY <1>4, <2>1, <2>2
<1>8. CASE DumpPush
  <2>1. UNCHANGED <<vars, pushed, dropped>> /\ pushes \subseteq pushes'
    BY <1>8 DEF DumpPush, history
  <2>2. GivenMinutes \subseteq GivenMinutes'
    BY <2>1 DEF GivenMinutes
  <2> QED BY <1>4, <2>1, <2>2
<1>9. CASE UNCHANGED <<vars, pushes, pushed, dropped>>
  <2>1. GivenMinutes \subseteq GivenMinutes'
    BY <1>9 DEF GivenMinutes
  <2> QED BY <1>4, <1>9, <2>1
<1>10. \/ \E t \in Tick : FeedTick(t)
       \/ \E p \in pushes : AddToSet(p) \/ AddToStream(p) \/ PushFails(p)
       \/ ServerStops \/ DumpPush
       \/ UNCHANGED <<vars, pushes, pushed, dropped>>
  BY DEF PersistNext, persistVars, ServerStarts, DumpFetch, FlushRead,
         FlushReadSets, FlushCommit, FlushRollback, FlushTrim, FlushDies, history
<1> QED BY <1>2, <1>3, <1>5, <1>6, <1>7, <1>8, <1>9, <1>10

(* Of the minutes the engine has closed, only the last of a session never  *)
(* gets to Redis, whatever restarts, failing calls, dumps and flushes come *)
(* in between.                                                             *)
THEOREM LastMinuteAlone ==
  ASSUME ~LateAfterClose PROVE PersistSpec => []OnlyLastMinuteUnpushed
<1>1. PersistInit => OrderInv /\ GivenInv
  BY OrderInvInit DEF PersistInit, Init, GivenInv, HeldMinutes
<1>2. OrderInv /\ GivenInv /\ [PersistNext]_persistVars => OrderInv' /\ GivenInv'
  BY EngineOrderStep, GivenStep
<1>3. OrderInv /\ GivenInv => OnlyLastMinuteUnpushed
  BY GivenMeans DEF OrderInv
<1> QED BY <1>1, <1>2, <1>3, PTL DEF PersistSpec
-----------------------------------------------------------------------------
(* The copies of candles that the engine has given away, wherever they     *)
(* are, agree with the candle of their minute that it still holds, if the  *)
(* minute was not given away twice.                                        *)
Copies == table \cup {RowOf(c) : c \in zset \cup pushed \cup {p.candle : p \in pushes}}

Agrees(r, c) ==
  r.timestamp = c.timestamp =>
    /\ r.open = c.open /\ r.close = c.close
    /\ r.high <= c.high /\ c.low <= r.low

Once(r) == r.timestamp \notin doubled

CopyInv ==
  \A r \in Copies : Once(r) =>
    /\ r.high \in Int /\ r.low \in Int
    /\ \A k \in 1 .. Len(rolling_1m) : Agrees(r, rolling_1m[k])

LEMMA CopyMeans == CopyInv => CopiesAgree
<1> SUFFICES ASSUME CopyInv,
                    NEW k \in 1 .. Len(rolling_1m), NEW r \in table \cup {RowOf(c) : c \in zset},
                    r.timestamp = rolling_1m[k].timestamp, Once(r)
             PROVE  Agrees(r, rolling_1m[k])
  BY DEF CopiesAgree, Agrees, Once
<1>1. r \in Copies
  BY DEF Copies
<1> QED BY <1>1 DEF CopyInv

(* A step that leaves the engine alone and copies only copies.             *)
LEMMA CopyFrame ==
  ASSUME CopyInv, UNCHANGED rolling_1m, doubled \subseteq doubled',
         \A r \in Copies' : r \in Copies \/ ~Once(r)'
  PROVE  CopyInv'
<1> SUFFICES ASSUME NEW r \in Copies', Once(r)'
             PROVE  /\ r.high \in Int /\ r.low \in Int
                    /\ \A k \in 1 .. Len(rolling_1m') : Agrees(r, rolling_1m'[k])
  BY DEF CopyInv, Agrees
<1>1. r \in Copies /\ Once(r)
  BY DEF Once
<1> QED BY <1>1 DEF CopyInv

LEMMA CopyTick ==
  ASSUME TypeOK, TypeOK', RollingOrdered, CollisionInv, CopyInv, NEW t \in Tick, FeedTick(t)
  PROVE  CopyInv'
<1>1. /\ ProcessTick(t) /\ pushes' = pushes \cup PushesFor(event')
      /\ UNCHANGED <<table, zset, pushed>> /\ doubled \subseteq doubled'
  BY DEF FeedTick, redis, history
<1>2. /\ \A r \in Copies : Once(r)' =>
           /\ r.high \in Int /\ r.low \in Int
           /\ \A k \in 1 .. Len(rolling_1m) : Agrees(r, rolling_1m[k])
      /\ FormingFresh /\ SetsHaveAll
  BY <1>1 DEF CopyInv, CollisionInv, Once
<1>3. /\ \A k \in 1 .. Len(rolling_1m) : rolling_1m[k] \in Candle
      /\ \A k \in 1 .. Len(rolling_1m') : rolling_1m'[k] \in Candle
      /\ current_1m # None => current_1m \in Candle
      /\ \A c \in Candle : c.high \in Int /\ c.low \in Int /\ c.timestamp \in Nat
  <2>1. \A c \in Candle : c.timestamp \in Nat
    BY DEF Candle
  <2> QED BY <2>1, NumbersLemma DEF TypeOK
<1> DEFINE closed == Finalized(current_1m)
<1>4. /\ current_1m # None => closed \in Candle /\ closed.timestamp = current_1m.timestamp
      /\ PushesFor(event') # {} => current_1m # None /\ PushesFor(event') = {ServerPush(closed)}
  <2>1. PushesFor(event') # {} => Rollover(t)
    BY <1>1 DEF ProcessTick, IgnoreTick, CloseSession, FirstTick, UpdateForming,
                LateTick, PushesFor
  <2>2. Rollover(t) => PushesFor(event') = {ServerPush(closed)} /\ current_1m # None
    BY RolloverPushes DEF Rollover
  <2>3. current_1m # None => closed \in Candle /\ closed.timestamp = current_1m.timestamp
    BY <1>3, FinalizedLemma
  <2> QED BY <2>1, <2>2, <2>3
<1> HIDE DEF closed
<1>5. \A r \in Copies' : r \in Copies \/ (current_1m # None /\ r = RowOf(closed))
  <2>1. {p.candle : p \in pushes'} \subseteq {p.candle : p \in pushes} \cup {p.candle : p \in PushesFor(event')}
    BY <1>1
  <2>2. \A p \in PushesFor(event') : p.candle = closed /\ current_1m # None
    BY <1>4 DEF ServerPush
  <2> QED BY <1>1, <2>1, <2>2 DEF Copies
<1>6. /\ RowOf(closed).timestamp = closed.timestamp
      /\ RowOf(closed).open = closed.open /\ RowOf(closed).close = closed.close
      /\ RowOf(closed).high = closed.high /\ RowOf(closed).low = closed.low
  BY DEF RowOf
<1>7. \A r \in Copies' : Once(r)' => r.high \in Int /\ r.low \in Int
  BY <1>2, <1>3, <1>4, <1>5, <1>6
<1>8. current_1m # None =>
        \A r \in Copies : Once(r)' => r.timestamp # current_1m.timestamp
  <2> SUFFICES ASSUME current_1m # None, NEW r \in Copies, Once(r)',
                      r.timestamp = current_1m.timestamp
               PROVE  FALSE
    OBVIOUS
  <2> current_1m.timestamp \notin doubled
    BY <1>1 DEF Once
  <2>1. CASE r \in table
    BY <1>2, <2>1 DEF FormingFresh, SetsHaveAll
  <2>2. CASE r \notin table
    <3>1. PICK c \in zset \cup pushed \cup {p.candle : p \in pushes} : r = RowOf(c)
      BY <2>2 DEF Copies
    <3>2. r.timestamp = c.timestamp
      BY <3>1 DEF RowOf
    <3> QED BY <1>2, <3>1, <3>2 DEF FormingFresh
  <2> QED BY <2>1, <2>2
<1>9. ASSUME NEW k \in 1 .. Len(rolling_1m'), NEW r \in Copies', Once(r)'
      PROVE  Agrees(r, rolling_1m'[k])
  <2>1. r.high \in Int /\ r.low \in Int
    BY <1>7, <1>9
  <2>2. ASSUME NEW i \in 1 .. Len(rolling_1m), Widened(rolling_1m[i], rolling_1m'[k])
        PROVE  Agrees(r, rolling_1m'[k])
    <3>1. CASE r \in Copies
      <4>1. Agrees(r, rolling_1m[i])
        BY <1>2, <1>9, <3>1
      <4>2. /\ rolling_1m[i].high \in Int /\ rolling_1m[i].low \in Int
            /\ rolling_1m'[k].high \in Int /\ rolling_1m'[k].low \in Int
        BY <1>3
      <4> QED BY <2>1, <2>2, <4>1, <4>2 DEF Agrees, Widened
    <3>2. CASE current_1m # None /\ r = RowOf(closed)
      <4>1. r.timestamp = current_1m.timestamp
        BY <1>4, <1>6, <3>2
      <4>2. rolling_1m'[k].timestamp < current_1m.timestamp
        BY <2>2, <3>2 DEF RollingOrdered, Widened
      <4>3. current_1m.timestamp \in Nat /\ rolling_1m'[k].timestamp \in Nat
        BY <1>3, <3>2
      <4> QED BY <4>1, <4>2, <4>3 DEF Agrees
    <3> QED BY <1>5, <3>1, <3>2
  <2>3. ASSUME current_1m # None, rolling_1m'[k] = closed
        PROVE  Agrees(r, rolling_1m'[k])
    <3>1. CASE r \in Copies
      BY <1>4, <1>8, <1>9, <2>3, <3>1 DEF Agrees
    <3>2. CASE r = RowOf(closed)
      BY <1>3, <1>4, <1>6, <2>3, <3>2 DEF Agrees
    <3> QED BY <1>5, <3>1, <3>2
  <2> QED BY <1>1, <2>2, <2>3, ClosedLemma DEF closed
<1> QED BY <1>7, <1>9 DEF CopyInv, Agrees

LEMMA CopyStep ==
  ASSUME ~LateAfterClose, OrderInv, LossInv, CollisionInv, CopyInv,
         [PersistNext]_persistVars
  PROVE  CopyInv'
<1> USE DEF redis, script, history
<1>1. ASSUME NEW t \in Tick, FeedTick(t)
      PROVE  CopyInv'
  <2>1. TypeOK /\ TypeOK' /\ RollingOrdered
    BY EngineOrderStep DEF OrderInv
  <2> QED BY <1>1, <2>1, CopyTick
<1>2. ASSUME NEW p \in pushes, AddToSet(p)
      PROVE  CopyInv'
  <2> DEFINE q == [p EXCEPT !.step = "xadd"]
  <2>1. /\ UNCHANGED <<vars, table, pushed, doubled>>
        /\ zset' = zset \cup {p.candle} /\ pushes' = (pushes \ {p}) \cup {q}
    BY <1>2 DEF AddToSet
  <2>2. q.candle = p.candle
    OBVIOUS
  <2> HIDE DEF q
  <2>3. Copies' \subseteq Copies /\ UNCHANGED rolling_1m
    BY <2>1, <2>2 DEF Copies, vars, state
  <2> QED BY <2>1, <2>3, CopyFrame
<1>3. ASSUME NEW p \in pushes, AddToStream(p) \/ PushFails(p)
      PROVE  CopyInv'
  <2>1. /\ UNCHANGED <<vars, table, zset, doubled>>
        /\ pushed' \subseteq pushed \cup {p.candle} /\ pushes' \subseteq pushes
    BY <1>3 DEF AddToStream, PushFails
  <2>2. Copies' \subseteq Copies /\ UNCHANGED rolling_1m
    BY <2>1 DEF Copies, vars, state
  <2> QED BY <2>1, <2>2, CopyFrame
<1>4. CASE ServerStops
  <2>1. /\ UNCHANGED <<table, zset, pushed, doubled>> /\ pushes' \subseteq pushes
        /\ rolling_1m' = <<>>
    BY <1>4 DEF ServerStops
  <2>2. Copies' \subseteq Copies
    BY <2>1 DEF Copies
  <2> QED BY <2>1, <2>2 DEF CopyInv, Once
<1>5. ASSUME NEW h \in Histories("1m"), DumpFetch(h)
      PROVE  CopyInv'
  <2>1. /\ UNCHANGED <<vars, table, zset, pushed, pushes>> /\ doubled \subseteq doubled'
    BY <1>5 DEF DumpFetch
  <2>2. Copies' \subseteq Copies /\ UNCHANGED rolling_1m
    BY <2>1 DEF Copies, vars, state
  <2> QED BY <2>1, <2>2, CopyFrame
<1>6. CASE DumpPush
  <2>1. PICK c \in dump :
          pushes' = pushes \cup {[candle |-> c, step |-> "zadd", by |-> "dump"]}
    BY <1>6 DEF DumpPush
  <2>2. /\ UNCHANGED <<vars, table, zset, pushed, doubled>> /\ c.timestamp \in doubled
    BY <1>6 DEF DumpPush, CollisionInv, DumpDoubled
  <2>3. \A r \in Copies' : r \in Copies \/ r = RowOf(c)
    BY <2>1, <2>2 DEF Copies
  <2>4. RowOf(c).timestamp = c.timestamp
    BY DEF RowOf
  <2>5. UNCHANGED rolling_1m
    BY <2>2 DEF vars, state
  <2> QED BY <2>2, <2>3, <2>4, <2>5, CopyFrame DEF Once
<1>7. CASE FlushCommit
  <2>1. /\ flushing \in {"insert", "insertSets"}
        /\ table' = table \cup {RowOf(batch[i]) : i \in DOMAIN batch}
        /\ UNCHANGED <<vars, pushes, zset, pushed, doubled>>
    BY <1>7 DEF FlushCommit
  <2>2. \A i \in DOMAIN batch : batch[i] \in zset \cup pushed
    BY <2>1 DEF CollisionInv, SetsBatch, LossInv
  <2>3. Copies' \subseteq Copies /\ UNCHANGED rolling_1m
    BY <2>1, <2>2 DEF Copies, vars, state
  <2> QED BY <2>1, <2>3, CopyFrame
<1>8. CASE UNCHANGED <<vars, pushes, table, zset, pushed, doubled>>
  <2>1. Copies' \subseteq Copies /\ UNCHANGED rolling_1m
    BY <1>8 DEF Copies, vars, state
  <2> QED BY <1>8, <2>1, CopyFrame
<1>9. \/ \E t \in Tick : FeedTick(t)
      \/ \E p \in pushes : AddToSet(p) \/ AddToStream(p) \/ PushFails(p)
      \/ ServerStops \/ DumpPush \/ FlushCommit
      \/ \E h \in Histories("1m") : DumpFetch(h)
      \/ UNCHANGED <<vars, pushes, table, zset, pushed, doubled>>
  BY DEF PersistNext, persistVars, ServerStarts, FlushRead, FlushReadSets,
         FlushRollback, FlushTrim, FlushDies
<1> QED BY <1>1, <1>2, <1>3, <1>4, <1>5, <1>6, <1>7, <1>8, <1>9

(* What Redis and the table keep of a minute the engine still holds is its *)
(* candle, but for what late ticks added to its range, unless this minute  *)
(* was given away twice; when the flush runs after the session.            *)
THEOREM CopiesTellCandles ==
  ASSUME ~LateAfterClose, ~FlushInSession PROVE PersistSpec => []CopiesAgree
<1> DEFINE Inv == OrderInv /\ LossInv /\ CollisionInv /\ CopyInv
<1>1. PersistInit => Inv
  BY OrderInvInit, LossInit, CollisionInit
     DEF PersistInit, Init, CopyInv, Copies
<1>2. Inv /\ [PersistNext]_persistVars => Inv'
  BY EngineOrderStep, LossStep, CollisionStep, CopyStep DEF OrderInv
<1>3. Inv => CopiesAgree
  BY CopyMeans
<1> QED BY <1>1, <1>2, <1>3, PTL DEF PersistSpec
=============================================================================
