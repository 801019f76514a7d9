---------------------------- MODULE ScreenerFlush ----------------------------
(***************************************************************************)
(* flush_screener_events of scripts/flush_redis_to_db.py beside the server *)
(* of ScreenerPipeline.  The worker has already recorded each event in the *)
(* tables; the flush inserts one more row of screened_stocks for every     *)
(* entry of the stream, be it an entry or an exit, and then empties the    *)
(* stream.  It is a process of its own: it may be killed at any point, and *)
(* the server may stop and start beside it.                                *)
(***************************************************************************)
EXTENDS ScreenerPipeline

CONSTANTS
  FlushMayDie,     \* may the flush be killed, or its xtrim fail?
  FlushInSession,  \* is the flush run while stocks still cross a threshold?
  MaxFlushes       \* bound: flushes started in one behavior

VARIABLES
  flushing,  \* where flush_screener_events is
  batch,     \* the entries it has read
  trimmed,   \* history: how many entries have left the stream
  inserted,  \* history: how often each entry ever streamed was inserted
  died,      \* history: has a flush been killed before its xtrim?
  flushed,   \* history: the stocks and dates for which the flush added rows
  flushes    \* flushes started so far

flushVars == <<flushing, batch, trimmed, inserted, died, flushed, flushes>>

ASSUME FlushConstants ==
  FlushMayDie \in BOOLEAN /\ FlushInSession \in BOOLEAN /\ MaxFlushes \in Nat

KeyOf(r) == <<r.event.stock_id, r.trading_date>>

RowsOf(key) ==
  LET mine == SelectSeq(batch, LAMBDA r : KeyOf(r) = key)
  IN  [i \in DOMAIN mine |-> StoredState(mine[i].event)]
-----------------------------------------------------------------------------
FlushInit ==
  /\ PipelineInit
  /\ flushing = "off" /\ batch = <<>>
  /\ trimmed = 0 /\ inserted = <<>> /\ died = FALSE
  /\ flushed = {} /\ flushes = 0

(* A step of the server.  In the evening no stock crosses a threshold. *)
BesideFlush ==
  /\ FlushInSession \/ flushing = "off" \/ event_queue' = <<>>
  /\ inserted' = IF stream' = stream THEN inserted ELSE Append(inserted, 0)
  /\ UNCHANGED <<flushing, batch, trimmed, died, flushed, flushes>>

(* xrange of the whole stream; an empty one ends the flush. *)
FlushRead ==
  /\ flushing = "off" /\ flushes < MaxFlushes
  /\ FlushInSession \/ (worker = "idle" /\ event_queue = <<>>)
  /\ stream # <<>>
  /\ batch' = stream
  /\ flushing' = "insert"
  /\ flushes' = flushes + 1
  /\ UNCHANGED <<pipelineVars, trimmed, inserted, died, flushed>>

KeysRead == {KeyOf(batch[i]) : i \in DOMAIN batch}

(* One commit inserts a row for each entry read: no constraint of the      *)
(* table forbids a second row of a stock and date.                         *)
FlushCommit ==
  /\ flushing = "insert"
  /\ rows' = [key \in DOMAIN rows |->
                IF key \in KeysRead THEN rows[key] \o RowsOf(key) ELSE rows[key]]
  /\ flushed' = flushed \cup KeysRead
  /\ inserted' = [p \in DOMAIN inserted |->
                    IF p - trimmed \in DOMAIN batch THEN inserted[p] + 1
                    ELSE inserted[p]]
  /\ flushing' = "trim"
  /\ UNCHANGED <<screenerVars, up, workerVars, trading_date, events, stream, world,
                 batch, trimmed, died, flushes>>

(* Mutant of FlushRollback: the stream is trimmed although nothing was     *)
(* stored.                                                                 *)
RollbackAndTrim ==
  /\ flushing = "insert" /\ DbMayFail
  /\ stream' = <<>> /\ trimmed' = trimmed + Len(stream)
  /\ flushing' = "off" /\ batch' = <<>>
  /\ UNCHANGED <<screenerVars, up, workerVars, trading_date, rows, events, world,
                 inserted, died, flushed, flushes>>

(* An error of the database: rollback, and the stream stays as it is. *)
FlushRollback ==
  /\ flushing = "insert" /\ DbMayFail
  /\ flushing' = "off" /\ batch' = <<>>
  /\ UNCHANGED <<pipelineVars, trimmed, inserted, died, flushed, flushes>>

(* xtrim with maxlen=0, whatever has been appended since the read.  The    *)
(* client asks for an approximate trim, which stops after some 10000       *)
(* entries; the screener's stream stays far below, so that it is emptied.  *)
FlushTrim ==
  /\ flushing = "trim"
  /\ stream' = <<>>
  /\ trimmed' = trimmed + Len(stream)
  /\ flushing' = "off" /\ batch' = <<>>
  /\ UNCHANGED <<screenerVars, up, workerVars, trading_date, rows, events, world,
                 inserted, died, flushed, flushes>>

(* The script is killed, or its xtrim raises: what was committed stays. *)
FlushDies ==
  /\ FlushMayDie
  /\ flushing # "off"
  /\ flushing' = "off" /\ batch' = <<>>
  /\ died' = (died \/ flushing = "trim")
  /\ UNCHANGED <<pipelineVars, trimmed, inserted, flushed, flushes>>

FlushNext ==
  \/ \E m \in Message : Feed(m) /\ BesideFlush
  \/ Dequeue /\ BesideFlush
  \/ PushStream /\ BesideFlush
  \/ Record /\ BesideFlush
  \/ RecordFails /\ BesideFlush
  \/ Crash /\ BesideFlush
  \/ Restart /\ BesideFlush
  \/ Midnight /\ BesideFlush
  \/ FlushRead \/ FlushCommit \/ FlushRollback \/ FlushTrim \/ FlushDies

FlushSpec == FlushInit /\ [][FlushNext]_<<pipelineVars, flushVars>>
-----------------------------------------------------------------------------
(* A flush of the evening moves each entry of the stream once: what has    *)
(* left the stream was inserted, exactly once unless a flush was killed    *)
(* between its commit and its trim, and what is on the stream was not yet. *)
FlushedOnce ==
  /\ Len(inserted) = trimmed + Len(stream)
  /\ \A p \in 1 .. trimmed : inserted[p] >= 1 /\ (~died => inserted[p] = 1)
  /\ ~died => \A p \in (trimmed + 1) .. Len(inserted) :
                inserted[p] = IF flushing = "trim" THEN 1 ELSE 0

(* The tables agree on every stock and date for which the flush has not    *)
(* added rows: a row without an entry recorded last is always the work of  *)
(* the flush, and the worker's upserts and deletes never leave one.        *)
OnlyFlushAddsRows ==
  \A s \in Stocks, date \in Days :
    <<s, date>> \notin flushed => TablesAgreeOn(s, date)

(* After a restart a stock is screened exactly when the last event that    *)
(* was recorded of it today is an entry; only on the very day of a flush   *)
(* does a removed stock come back, by the row the flush inserted for it.   *)
RestartFollowsEvents ==
  [][ (~up /\ up') =>
        \A s \in Stocks : <<s, today>> \notin flushed =>
          (screened'[s] # None <=>
             \E i \in Positions(s, today) :
               /\ IsLastOf(i, s, today)
               /\ events[i].event.event_type = "SCREENED")
    ]_<<pipelineVars, flushVars>>
=============================================================================
