-------------------------- MODULE ScreenerPipeline --------------------------
(***************************************************************************)
(* The screener in its process: the feed thread runs the screener, the     *)
(* ScreenerEventWorker task takes its events off the queue, appends each   *)
(* to the Redis stream and then records it in the database in one          *)
(* transaction, and a restart loads the rows of the day into a new         *)
(* screener.  The database and the stream outlive the process; the         *)
(* screened set, the queue and the event in the worker's hands do not.     *)
(***************************************************************************)
EXTENDS ScreenerService

CONSTANTS
  DbMayFail,     \* may a database transaction fail?
  RedisMayFail,  \* may a push to Redis fail, or Redis be absent?
  MaxDay,        \* bound: calendar days in one behavior
  MaxMessages    \* bound: messages delivered in one behavior

VARIABLES
  up,            \* is the process running?
  worker,        \* where the worker is: "idle", "pushing" or "recording"
  inflight,      \* the event it took from the queue, or None
  trading_date,  \* screener_service.trading_date, set at startup only
  rows,          \* table screened_stocks: <<stock, date>> -> its rows
  events,        \* table screening_events, in commit order
  stream,        \* Redis stream:screener_events
  today,         \* the calendar
  messages,      \* messages delivered so far
  entered        \* history: the day on which a stock last entered the set

workerVars == <<worker, inflight>>
tables     == <<rows, events, stream>>
world      == <<today, messages, entered>>
pipelineVars == <<screenerVars, up, workerVars, trading_date, tables, world>>

Days == 1 .. MaxDay

Stored == [event : ScreenerEvent, trading_date : Days]

ASSUME PipelineConstants ==
  /\ DbMayFail \in BOOLEAN /\ RedisMayFail \in BOOLEAN
  /\ MaxDay \in Nat \ {0} /\ MaxMessages \in Nat
  /\ None \notin ScreenerEvent
-----------------------------------------------------------------------------
(* get_screened_stocks_for_date and load_screened_stocks: the last of a    *)
(* stock's rows wins.                                                      *)
RowsOn(date) ==
  [s \in Stocks |->
     LET r == rows[<<s, date>>] IN IF r = <<>> THEN None ELSE r[Len(r)]]

NoRows == [s \in Stocks |-> None]

PipelineInit ==
  /\ rows = [k \in Stocks \X Days |-> <<>>]
  /\ events = <<>> /\ stream = <<>>
  /\ today = 1 /\ messages = 0 /\ entered = [s \in Stocks |-> 0]
  /\ up = TRUE /\ trading_date = 1
  /\ worker = "idle" /\ inflight = None
  /\ Startup(NoRows, previous_closes, screened, event_queue, restored, changes)

(* The feed thread delivers one message to process_message. *)
Feed(m) ==
  /\ up
  /\ messages < MaxMessages
  /\ messages' = messages + 1
  /\ ProcessMessage(m)
  /\ entered' = [s \in Stocks |->
                   IF screened[s] = None /\ screened'[s] # None
                   THEN today ELSE entered[s]]
  /\ UNCHANGED <<up, workerVars, trading_date, tables, today>>

(* get_nowait, when it does not raise Empty. *)
Dequeue ==
  /\ up /\ worker = "idle"
  /\ event_queue # <<>>
  /\ inflight' = Head(event_queue)
  /\ event_queue' = Tail(event_queue)
  /\ worker' = "pushing"
  /\ UNCHANGED <<previous_closes, screened, restored, changes, up,
                 trading_date, tables, world>>

InFlight == [event |-> inflight, trading_date |-> trading_date]

(* Mutant of PushStream: only entries are pushed. *)
PushEntriesOnly ==
  /\ up /\ worker = "pushing"
  /\ stream' = IF inflight.event_type = "SCREENED" THEN Append(stream, InFlight)
               ELSE stream
  /\ worker' = "recording"
  /\ UNCHANGED <<screenerVars, up, inflight, trading_date, rows, events, world>>

(* push_screener_event swallows every error of Redis. *)
PushStream ==
  /\ up /\ worker = "pushing"
  /\ \/ stream' = Append(stream, InFlight)
     \/ RedisMayFail /\ UNCHANGED stream
  /\ worker' = "recording"
  /\ UNCHANGED <<screenerVars, up, inflight, trading_date, rows, events, world>>

StoredState(e) ==
  [ltp |-> e.ltp, percentage_change |-> e.percentage_change]

(* Mutant of Upsert: every entry inserts a row. *)
InsertAlways(r, e) == Append(r, StoredState(e))

(* add_screened_stock: update the first of the existing rows, else insert. *)
Upsert(r, e) ==
  IF r = <<>> THEN <<StoredState(e)>>
  ELSE [r EXCEPT ![1] = StoredState(e)]

(* Mutant of RowsAfter: an exit leaves the row in place. *)
RowsKept(e, date) ==
  IF e.event_type = "SCREENED"
  THEN [rows EXCEPT ![<<e.stock_id, date>>] = Upsert(@, e)]
  ELSE rows

(* An entry upserts the row of the stock; an exit deletes all its rows. *)
RowsAfter(e, date) ==
  [rows EXCEPT ![<<e.stock_id, date>>] =
     IF e.event_type = "SCREENED" THEN Upsert(@, e) ELSE <<>>]

(* Mutant of Record: the worker forgets the row and writes only the event. *)
RecordEventOnly ==
  /\ up /\ worker = "recording"
  /\ events' = Append(events, InFlight)
  /\ worker' = "idle" /\ inflight' = None
  /\ UNCHANGED <<screenerVars, up, trading_date, rows, stream, world>>

(* record_screened and record_removed: the row and the event, one commit. *)
Record ==
  /\ up /\ worker = "recording"
  /\ rows' = RowsAfter(inflight, trading_date)
  /\ events' = Append(events, InFlight)
  /\ worker' = "idle" /\ inflight' = None
  /\ UNCHANGED <<screenerVars, up, trading_date, stream, world>>

(* Mutant of RecordFails: the failed event stays in the worker's hands. *)
RecordFailsHolding ==
  /\ DbMayFail
  /\ up /\ worker = "recording"
  /\ worker' = "idle" /\ UNCHANGED inflight
  /\ UNCHANGED <<screenerVars, up, trading_date, tables, world>>

(* The transaction fails: the error is printed and the event is dropped. *)
RecordFails ==
  /\ DbMayFail
  /\ up /\ worker = "recording"
  /\ worker' = "idle" /\ inflight' = None
  /\ UNCHANGED <<screenerVars, up, trading_date, tables, world>>

(* The process stops, at shutdown or by a crash, wherever the worker is.   *)
(* Shutdown cancels the worker too; a transaction that did not commit is   *)
(* rolled back.                                                            *)
Crash ==
  /\ up
  /\ up' = FALSE
  /\ worker' = "idle" /\ inflight' = None
  /\ screened' = NoRows /\ event_queue' = <<>>
  /\ previous_closes' = NoRows /\ restored' = {}
  /\ changes' = [s \in Stocks |-> <<>>]
  /\ UNCHANGED <<trading_date, tables, world>>

(* Mutant of Restart: the rows of the day are not loaded. *)
RestartEmpty ==
  /\ ~up
  /\ up' = TRUE
  /\ trading_date' = today
  /\ Startup(NoRows, previous_closes', screened', event_queue', restored', changes')
  /\ UNCHANGED <<workerVars, tables, world>>

(* lifespan: load the rows of today's date, start with an empty queue. *)
Restart ==
  /\ ~up
  /\ up' = TRUE
  /\ trading_date' = today
  /\ Startup(RowsOn(today), previous_closes', screened', event_queue',
             restored', changes')
  /\ UNCHANGED <<workerVars, tables, world>>

(* Midnight passes; nothing in the process looks at the date again. *)
Midnight ==
  /\ today < MaxDay
  /\ today' = today + 1
  /\ UNCHANGED <<screenerVars, up, workerVars, trading_date, tables, messages,
                 entered>>

Work == Dequeue \/ PushStream \/ Record

(* With a database whose transactions succeed. *)
ReliableNext ==
  \/ \E m \in Message : Feed(m)
  \/ Dequeue \/ PushStream \/ Record
  \/ Crash \/ Restart \/ Midnight

PipelineNext == ReliableNext \/ RecordFails

PipelineSpec == PipelineInit /\ [][PipelineNext]_pipelineVars

(* The event loop keeps running the worker task, and every call it awaits  *)
(* returns.                                                                *)
FairPipelineSpec ==
  PipelineInit /\ [][ReliableNext]_pipelineVars /\ WF_pipelineVars(Work)
-----------------------------------------------------------------------------
(* The variables hold what the code stores in them. *)
PipelineTypeOK ==
  /\ ScreenerTypeOK
  /\ up \in BOOLEAN
  /\ worker \in {"idle", "pushing", "recording"}
  /\ inflight \in ScreenerEvent \cup {None}
  /\ inflight = None <=> worker = "idle"
  /\ trading_date \in Days /\ today \in Days
  /\ rows \in [Stocks \X Days -> Seq(ScreenedState)]
  /\ events \in Seq(Stored) /\ stream \in Seq(Stored)
  /\ messages \in Nat /\ entered \in [Stocks -> Days \cup {0}]

(* Positions in the event table of the events of a stock on a date. *)
Positions(s, date) ==
  {i \in 1 .. Len(events) : /\ events[i].event.stock_id = s
                            /\ events[i].trading_date = date}

IsLastOf(i, s, date) ==
  i \in Positions(s, date) /\ \A j \in Positions(s, date) : j <= i

(* The rows of a stock and date, and its events: one row, which shows the  *)
(* last event, if that is an entry, and else none.                         *)
TablesAgreeOn(s, date) ==
  \/ /\ rows[<<s, date>>] = <<>>
     /\ \A i \in Positions(s, date) :
          IsLastOf(i, s, date) => events[i].event.event_type = "REMOVED"
  \/ \E i \in Positions(s, date) :
       /\ IsLastOf(i, s, date)
       /\ events[i].event.event_type = "SCREENED"
       /\ rows[<<s, date>>] = <<StoredState(events[i].event)>>

(* Through every crash, restart and failed transaction the two tables      *)
(* agree: a stock has a row for a date exactly when the last event of that *)
(* date is an entry, it has one row only, and the row shows that entry.    *)
RowIffLastLogged == \A s \in Stocks, date \in Days : TablesAgreeOn(s, date)

(* What the worker has still to record, oldest first. *)
Pending == (IF inflight = None THEN <<>> ELSE <<inflight>>) \o event_queue

LastPending(s, i) ==
  /\ i \in 1 .. Len(Pending) /\ Pending[i].stock_id = s
  /\ \A j \in (i + 1) .. Len(Pending) : Pending[j].stock_id # s

(* When no transaction fails, the rows of the trading date, replayed with  *)
(* the events the worker has still to record, are the screened set of the  *)
(* process, also across crashes and restarts.                              *)
PendingReplay ==
  up => \A s \in Stocks :
    IF \E i \in 1 .. Len(Pending) : Pending[i].stock_id = s
    THEN \A i \in 1 .. Len(Pending) : LastPending(s, i) =>
           (screened[s] # None <=> Pending[i].event_type = "SCREENED")
    ELSE screened[s] # None <=> rows[<<s, trading_date>>] # <<>>

(* While Redis works, the stream misses nothing: the event table is the    *)
(* stream with some entries left out, in the same order.                   *)
StreamCoversLog ==
  \E keep \in SUBSET (1 .. Len(stream)) :
    \E at \in [1 .. Len(events) -> keep] :
      /\ \A i, j \in 1 .. Len(events) : i < j => at[i] < at[j]
      /\ \A i \in 1 .. Len(events) : stream[at[i]] = events[i]

(* When no transaction fails and the feed pauses, the rows of the trading  *)
(* date become the screened set: the worker never gets stuck.              *)
RowsCatchUp ==
  []<>(up => \A s \in Stocks :
         screened[s] # None <=> rows[<<s, trading_date>>] # <<>>)

(* The comment in lifespan: startup loads the existing active screened     *)
(* stocks for today.  A stock that entered today and is still recorded as  *)
(* screened by the process that stopped is screened after the restart.     *)
RestartKeepsToday ==
  [][ (~up /\ up') =>
        \A s \in Stocks :
          (entered[s] = today /\ rows[<<s, trading_date>>] # <<>>)
            => screened'[s] # None ]_pipelineVars

(* The ledger of the trading date, as the pipeline implements it.  Dates    *)
(* never decrease along the event table: it ends with those of the date.   *)
AsEntry(e) == [stock |-> e.stock_id, type |-> e.event_type]

EventsBefore(date, log) ==
  CHOOSE n \in 0 .. Len(log) :
    \A i \in 1 .. Len(log) : log[i].trading_date # date <=> i <= n

Earlier == EventsBefore(trading_date, events)

EntriesOf(log, from, pending) ==
  LET recorded == Len(log) - from
  IN  [i \in 1 .. (recorded + Len(pending)) |->
         AsEntry(IF i <= recorded THEN log[from + i].event
                 ELSE pending[i - recorded])]

LedgerEntries == EntriesOf(events, Earlier, Pending)

Active == {s \in Stocks : IF up THEN screened[s] # None
                          ELSE rows[<<s, trading_date>>] # <<>>}

Ledger == INSTANCE ScreenedLedger WITH
  ledger  <- LedgerEntries,
  durable <- Len(events) - Earlier,
  active  <- Active

(* When no transaction fails, the pipeline implements the ledger: a crash  *)
(* loses only events that were not recorded, and the process that restarts *)
(* continues from exactly the recorded ones.                               *)
ImplementsLedger == Ledger!LedgerSpec
=============================================================================
