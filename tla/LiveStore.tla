------------------------------ MODULE LiveStore ------------------------------
(***************************************************************************)
(* app/services/live_store.py between the two threads that share it, and   *)
(* the endpoint /ws/live of app/main.py.  The FYERS feed thread stores     *)
(* quotes and queues candle events; the event loop runs the broadcaster    *)
(* and one endpoint coroutine per browser.  Coroutines interleave only     *)
(* where they await, the feed thread between any two operations on a       *)
(* shared container.                                                       *)
(*                                                                         *)
(* A quote is the number of ticks its symbol has had, a candle event the   *)
(* number of events its symbol has had.  Symbols are in the normal form    *)
(* NSE:...-EQ that the dashboard sends.  A frame handed to a connected     *)
(* browser arrives, in the order of the calls of send_json.                *)
(*                                                                         *)
(* What the feed thread does while the broadcaster copies and clears a     *)
(* shared container may be lost.  Two history variables record where that  *)
(* has happened; no step looks at them.                                    *)
(***************************************************************************)
EXTENDS Subsequences, SequencesExt

CONSTANTS
  Symbols,
  Charted,     \* the symbols whose ticks produce a candle event
  Movers,      \* the symbols whose ticks can enter or leave the screened set
  Clients,     \* the WebSocket objects: each is connected once
  Resolutions, \* resolutions the clients subscribe to, "1m" or higher
  None,        \* Python's None
  MaxTicks,    \* bound: ticks of one symbol
  MaxRequests  \* bound: messages from one client

VARIABLES
  \* written by the feed thread
  _data,        \* symbol -> its quote, 0 before the first tick
  dirty_symbols,
  screened,     \* the keys of the screener's dict
  candles,      \* symbol -> candle events so far
  pending_candle_events,
  feed,         \* what the feed thread does next, and for which symbol
  \* local to the broadcaster
  broadcaster,  \* the point it has reached
  drained,      \* the copy of dirty_symbols being sent
  message,      \* the ticks_batch being built and sent
  outbox,       \* sends still to make
  disconnected, \* clients whose send raised
  \* connections
  active_connections,
  candle_subscriptions, \* client -> subscription, or None
  endpoint,     \* client -> "new", "open" or "closed"
  gone,         \* clients whose peer has left
  requests,     \* client -> messages handled
  \* what the browsers show
  view,         \* client -> symbol -> quote
  chart,        \* client -> the newest candle on its chart, or None
  \* history
  forgotten,    \* the symbols whose newest quote was marked between the copy
                \* of dirty_symbols and the clear, or was in a batch that died
  missed        \* symbol -> its candle events that were queued between the
                \* copy of the list, or the look at it, and the clear

feedVars == <<_data, screened, candles, feed>>
shared == <<dirty_symbols, pending_candle_events>>
castVars == <<drained, message, outbox, disconnected>>
connVars == <<active_connections, candle_subscriptions, endpoint, gone, requests>>
history == <<forgotten, missed>>
browserVars == <<view, chart, history>>
storeVars == <<feedVars, shared, broadcaster, castVars, connVars, browserVars>>

ASSUME StoreConstants ==
  /\ Charted \subseteq Symbols /\ Movers \subseteq Symbols
  /\ IsFiniteSet(Symbols) /\ IsFiniteSet(Clients)
  /\ MaxTicks \in Nat /\ MaxRequests \in Nat
-----------------------------------------------------------------------------
Subscription == [symbol : Symbols, resolution : Resolutions]
CandleEvent  == [symbol : Symbols, n : Nat]
Delivery     == [ws : Clients, sub : Subscription, event : CandleEvent]

(* Between these points the broadcaster does not await: nothing else runs  *)
(* on the event loop.                                                      *)
LoopFree == broadcaster \in {"sleeping", "sending", "sendingCandles"}

StoreInit ==
  /\ _data = [s \in Symbols |-> 0] /\ candles = [s \in Symbols |-> 0]
  /\ dirty_symbols = {} /\ screened = {} /\ pending_candle_events = <<>>
  /\ feed = [at |-> "idle", symbol |-> None]
  /\ broadcaster = "sleeping"
  /\ drained = {} /\ outbox = <<>> /\ disconnected = {}
  /\ message = [data |-> <<>>, screened |-> {}]
  /\ active_connections = <<>>
  /\ candle_subscriptions = [c \in Clients |-> None]
  /\ endpoint = [c \in Clients |-> "new"] /\ gone = {}
  /\ requests = [c \in Clients |-> 0]
  /\ view = [c \in Clients |-> [s \in Symbols |-> 0]]
  /\ chart = [c \in Clients |-> None]
  /\ forgotten = {} /\ missed = [s \in Symbols |-> {}]
-----------------------------------------------------------------------------
(* The feed thread, combined_on_tick: one message at a time.               *)
StoreQuote(s) ==
  /\ feed.at = "idle"
  /\ _data[s] < MaxTicks
  /\ _data' = [_data EXCEPT ![s] = @ + 1]
  /\ feed' = [at |-> "stored", symbol |-> s]
  /\ UNCHANGED <<screened, candles, shared, broadcaster, castVars, connVars,
                 browserVars>>

(* Mutant of MarkDirty: the broadcaster is not told of the quote. *)
MarkNothing ==
  /\ feed.at = "stored"
  /\ feed' = [feed EXCEPT !.at = "marked"]
  /\ UNCHANGED <<_data, screened, candles, shared, broadcaster, castVars,
                 connVars, browserVars>>

MarkDirty ==
  /\ feed.at = "stored"
  /\ dirty_symbols' = dirty_symbols \cup {feed.symbol}
  /\ feed' = [feed EXCEPT !.at = "marked"]
  /\ forgotten' = IF broadcaster = "copied" /\ feed.symbol \notin drained
                  THEN forgotten \cup {feed.symbol}
                  ELSE forgotten \ {feed.symbol}
  /\ UNCHANGED <<_data, screened, candles, pending_candle_events, broadcaster,
                 castVars, connVars, view, chart, missed>>

(* MarketDataService: the screener may move the stock in or out of its     *)
(* dict, and the candle service may produce an event.                      *)
ProcessMessage ==
  /\ feed.at = "marked"
  /\ LET s == feed.symbol
     IN  /\ \/ UNCHANGED screened
            \/ /\ s \in Movers
               /\ screened' = IF s \in screened THEN screened \ {s}
                              ELSE screened \cup {s}
         /\ candles' = IF s \in Charted THEN [candles EXCEPT ![s] = @ + 1]
                       ELSE candles
         /\ feed' = IF s \in Charted THEN [feed EXCEPT !.at = "charted"]
                    ELSE [at |-> "idle", symbol |-> None]
  /\ UNCHANGED <<_data, shared, broadcaster, castVars, connVars, browserVars>>

QueueCandleEvent ==
  /\ feed.at = "charted"
  /\ pending_candle_events' =
       Append(pending_candle_events,
              [symbol |-> feed.symbol, n |-> candles[feed.symbol]])
  /\ feed' = [at |-> "idle", symbol |-> None]
  /\ missed' = IF broadcaster \in {"candlesCopied", "noCandles"}
               THEN [missed EXCEPT ![feed.symbol] = @ \cup {candles[feed.symbol]}]
               ELSE missed
  /\ UNCHANGED <<_data, screened, candles, dirty_symbols, broadcaster,
                 castVars, connVars, view, chart, forgotten>>
-----------------------------------------------------------------------------
(* Mutant of Forget: the subscription stays. *)
ForgetConnectionOnly(cs) ==
  /\ active_connections' =
       Keep(active_connections,
            {i \in DOMAIN active_connections : active_connections[i] \notin cs})
  /\ UNCHANGED candle_subscriptions

(* disconnect_ws, for each client of cs. *)
Forget(cs) ==
  /\ active_connections' =
       Keep(active_connections,
            {i \in DOMAIN active_connections : active_connections[i] \notin cs})
  /\ candle_subscriptions' =
       [c \in Clients |-> IF c \in cs THEN None ELSE candle_subscriptions[c]]

(* The page keeps the quotes of a ticks_batch over those it had, ... *)
ShowQuotes(c, quotes) ==
  view' = [view EXCEPT ![c] = [s \in Symbols |-> IF s \in DOMAIN quotes THEN quotes[s]
                                                ELSE @[s]]]

(* ... and a candle frame becomes the newest candle of its chart, unless   *)
(* it is of another symbol than the chart the page has asked for last.     *)
ShowCandle(c, candle) ==
  chart' = [chart EXCEPT ![c] =
              IF candle.live /\ @ # None /\ @.symbol # candle.symbol THEN @ ELSE candle]

Subscribed == {c \in Clients : candle_subscriptions[c] # None}
-----------------------------------------------------------------------------
(* broadcast_updates, first half: a batch of the quotes that changed.      *)
CopyDirty ==
  /\ broadcaster = "sleeping"
  /\ dirty_symbols # {} /\ active_connections # <<>>
  /\ drained' = dirty_symbols
  /\ broadcaster' = "copied"
  /\ UNCHANGED <<feedVars, shared, message, outbox, disconnected, connVars,
                 browserVars>>

NoBatch ==
  /\ broadcaster = "sleeping"
  /\ dirty_symbols = {} \/ active_connections = <<>>
  /\ broadcaster' = "candles"
  /\ UNCHANGED <<feedVars, shared, castVars, connVars, browserVars>>

ClearDirty ==
  /\ broadcaster = "copied"
  /\ dirty_symbols' = {}
  /\ broadcaster' = "cleared"
  /\ UNCHANGED <<feedVars, pending_candle_events, castVars, connVars,
                 browserVars>>

(* The quotes are read one by one; one step stands for all the reads, the  *)
(* properties speak of one symbol at a time.  The walk over the screened   *)
(* dict begins.                                                            *)
ReadQuotes ==
  /\ broadcaster = "cleared"
  /\ message' = [data |-> [s \in drained |-> _data[s]], screened |-> screened]
  /\ broadcaster' = "screening"
  /\ UNCHANGED <<feedVars, shared, drained, outbox, disconnected, connVars,
                 browserVars>>

(* A dict may keep its size while one key replaces another: the walk then  *)
(* shows the old or the new key.                                           *)
FinishBatch ==
  /\ broadcaster = "screening"
  /\ message.screened = {}
       \/ Cardinality(screened) = Cardinality(message.screened)
  /\ \/ UNCHANGED message
     \/ /\ message.screened # {}
        /\ message' = [message EXCEPT !.screened = screened]
  /\ outbox' = active_connections
  /\ broadcaster' = "batched"
  /\ UNCHANGED <<feedVars, shared, drained, disconnected, connVars,
                 browserVars>>

(* RuntimeError: dictionary changed size during iteration.  The handler    *)
(* prints it and sleeps; the batch, already cleared, is gone.              *)
RaiseWhileScreening ==
  /\ broadcaster = "screening"
  /\ message.screened # {}
  /\ Cardinality(screened) # Cardinality(message.screened)
  /\ drained' = {}
  /\ message' = [data |-> <<>>, screened |-> {}]
  /\ broadcaster' = "sleeping"
  /\ forgotten' = forgotten \cup (drained \ dirty_symbols)
  /\ UNCHANGED <<feedVars, shared, outbox, disconnected, connVars, view, chart,
                 missed>>

(* A send to a peer that has left may still succeed, to no effect. *)
Raises(c) == c \in gone \/ endpoint[c] = "closed"

(* Mutant of SendBatch: a send that raises ends the whole batch. *)
SendBatchUntilRaise ==
  /\ broadcaster \in {"batched", "sending"}
  /\ outbox # <<>>
  /\ LET c == Head(outbox)
     IN  \/ /\ ~Raises(c)
            /\ ShowQuotes(c, message.data)
            /\ outbox' = Tail(outbox)
            /\ UNCHANGED disconnected
         \/ /\ Raises(c)
            /\ disconnected' = disconnected \cup {c}
            /\ outbox' = <<>>
            /\ UNCHANGED view
  /\ broadcaster' = "sending"
  /\ UNCHANGED <<feedVars, shared, drained, message, connVars, chart, history>>

SendBatch ==
  /\ broadcaster \in {"batched", "sending"}
  /\ outbox # <<>>
  /\ LET c == Head(outbox)
     IN  \/ /\ ~Raises(c)
            /\ ShowQuotes(c, message.data)
            /\ UNCHANGED disconnected
         \/ /\ Raises(c)
            /\ disconnected' \in {disconnected, disconnected \cup {c}}
            /\ UNCHANGED view
  /\ outbox' = Tail(outbox)
  /\ broadcaster' = "sending"
  /\ UNCHANGED <<feedVars, shared, drained, message, connVars, chart, history>>

(* Mutant of EndBatch: the clients found disconnected are kept. *)
EndBatchKeeping ==
  /\ broadcaster = "sending" /\ outbox = <<>>
  /\ Forget(disconnected)
  /\ drained' = {}
  /\ message' = [data |-> <<>>, screened |-> {}]
  /\ broadcaster' = "candles"
  /\ UNCHANGED <<feedVars, shared, outbox, disconnected, endpoint, gone,
                 requests, browserVars>>

EndBatch ==
  /\ broadcaster = "sending" /\ outbox = <<>>
  /\ Forget(disconnected)
  /\ disconnected' = {} /\ drained' = {}
  /\ message' = [data |-> <<>>, screened |-> {}]
  /\ broadcaster' = "candles"
  /\ UNCHANGED <<feedVars, shared, outbox, endpoint, gone, requests,
                 browserVars>>
-----------------------------------------------------------------------------
(* Second half: the candle events, for the clients subscribed to them.     *)
CopyEvents ==
  /\ broadcaster = "candles"
  /\ pending_candle_events # <<>> /\ Subscribed # {}
  /\ outbox' = pending_candle_events
  /\ broadcaster' = "candlesCopied"
  /\ UNCHANGED <<feedVars, shared, drained, message, disconnected, connVars,
                 browserVars>>

(* The events one client is to be sent, under the subscription it has now. *)
DeliveriesTo(c, events) ==
  LET sub == candle_subscriptions[c]
      wanted == Keep(events, {i \in DOMAIN events : events[i].symbol = sub.symbol})
  IN  [i \in 1 .. Len(wanted) |-> [ws |-> c, sub |-> sub, event |-> wanted[i]]]

(* Mutant of ClearEvents: the events stay in the list. *)
ClearNoEvents ==
  /\ broadcaster = "candlesCopied"
  /\ \E order \in SetToSeqs(Subscribed) :
       outbox' = FlattenSeq([i \in 1 .. Len(order) |->
                              DeliveriesTo(order[i], outbox)])
  /\ broadcaster' = "candlesBatched"
  /\ UNCHANGED <<feedVars, shared, drained, message, disconnected, connVars,
                 browserVars>>

(* The list is cleared and the subscriptions are copied, in some order.    *)
ClearEvents ==
  /\ broadcaster = "candlesCopied"
  /\ pending_candle_events' = <<>>
  /\ \E order \in SetToSeqs(Subscribed) :
       outbox' = FlattenSeq([i \in 1 .. Len(order) |->
                              DeliveriesTo(order[i], outbox)])
  /\ broadcaster' = "candlesBatched"
  /\ UNCHANGED <<feedVars, dirty_symbols, drained, message, disconnected,
                 connVars, browserVars>>

(* Nothing pending, or nobody subscribed, when the first condition looked. *)
NoCandles ==
  /\ broadcaster = "candles"
  /\ pending_candle_events = <<>> \/ Subscribed = {}
  /\ broadcaster' = "noCandles"
  /\ UNCHANGED <<feedVars, shared, castVars, connVars, browserVars>>

(* The second condition looks at the list only, and clears it. *)
DiscardEvents ==
  /\ broadcaster = "noCandles"
  /\ pending_candle_events' = <<>>
  /\ broadcaster' = "sleeping"
  /\ UNCHANGED <<feedVars, dirty_symbols, castVars, connVars, browserVars>>

(* The candles a subscriber is sent first: all events so far are in them.  *)
Snapshot(sub) ==
  [symbol |-> sub.symbol, resolution |-> sub.resolution,
   n |-> candles[sub.symbol], live |-> FALSE]

(* Mutant of Frame: the subscription is looked up again after the await. *)
FrameNow(d) ==
  LET now == candle_subscriptions[d.ws]
      sub == IF now = None THEN d.sub ELSE now
  IN  [symbol |-> sub.symbol, resolution |-> sub.resolution,
       n |-> IF sub.resolution = "1m" THEN d.event.n ELSE candles[sub.symbol],
       live |-> TRUE]

(* A 1m subscriber gets the event itself, any other the last candle of its *)
(* timeframe as it is now.                                                 *)
Frame(d) ==
  [symbol |-> d.sub.symbol, resolution |-> d.sub.resolution,
   n |-> IF d.sub.resolution = "1m" THEN d.event.n ELSE candles[d.sub.symbol],
   live |-> TRUE]

SendCandle ==
  /\ broadcaster \in {"candlesBatched", "sendingCandles"}
  /\ outbox # <<>>
  /\ LET d == Head(outbox)
     IN  \/ /\ ~Raises(d.ws)
            /\ ShowCandle(d.ws, Frame(d))
            /\ outbox' = Tail(outbox)
            /\ UNCHANGED disconnected
         \/ /\ Raises(d.ws)
            /\ outbox' = Tail(outbox)
            /\ UNCHANGED <<chart, disconnected>>
         \/ /\ Raises(d.ws)
            /\ outbox' = Keep(outbox, {i \in DOMAIN outbox : outbox[i].ws # d.ws})
            /\ disconnected' = disconnected \cup {d.ws}
            /\ UNCHANGED chart
  /\ broadcaster' = "sendingCandles"
  /\ UNCHANGED <<feedVars, shared, drained, message, connVars, view, history>>

EndCandles ==
  /\ broadcaster \in {"candlesBatched", "sendingCandles"}
  /\ outbox = <<>>
  /\ Forget(disconnected)
  /\ disconnected' = {}
  /\ broadcaster' = "sleeping"
  /\ UNCHANGED <<feedVars, shared, drained, message, outbox, endpoint, gone,
                 requests, browserVars>>
-----------------------------------------------------------------------------
(* The endpoint.  Once accepted, a connection is registered, its first     *)
(* payload built and its send begun without awaiting anything.             *)
JoinBroadcast(c, sends) ==
  /\ LoopFree
  /\ endpoint[c] = "new" /\ c \notin gone
  /\ endpoint' = [endpoint EXCEPT ![c] = "open"]
  /\ active_connections' = Append(active_connections, c)
  /\ ShowQuotes(c, _data)
  /\ outbox' = sends
  /\ UNCHANGED <<feedVars, shared, broadcaster, drained, message, disconnected,
                 candle_subscriptions, gone, requests, chart, history>>

(* Mutant of Join: the broadcaster iterates over the list itself. *)
JoinDuringIteration(c) ==
  JoinBroadcast(c, IF broadcaster = "sending" THEN Append(outbox, c) ELSE outbox)

(* The broadcaster iterates over a copy of the list. *)
Join(c) == JoinBroadcast(c, outbox)

(* The walk over the screened dict raises here as well, and the endpoint   *)
(* ends: finally disconnects.                                              *)
JoinRaises(c) ==
  /\ LoopFree
  /\ screened # {}
  /\ endpoint[c] = "new" /\ c \notin gone
  /\ endpoint' = [endpoint EXCEPT ![c] = "closed"]
  /\ UNCHANGED <<feedVars, shared, broadcaster, castVars, active_connections,
                 candle_subscriptions, gone, requests, browserVars>>

(* handle_client_message: register, and send a snapshot of the candles.    *)
Subscribe(c, sub) ==
  /\ LoopFree
  /\ endpoint[c] = "open" /\ requests[c] < MaxRequests
  /\ requests' = [requests EXCEPT ![c] = @ + 1]
  /\ candle_subscriptions' = [candle_subscriptions EXCEPT ![c] = sub]
  /\ IF c \in gone THEN UNCHANGED chart ELSE ShowCandle(c, Snapshot(sub))
  /\ UNCHANGED <<feedVars, shared, broadcaster, castVars, active_connections,
                 endpoint, gone, view, history>>

Unsubscribe(c) ==
  /\ LoopFree
  /\ endpoint[c] = "open" /\ requests[c] < MaxRequests
  /\ requests' = [requests EXCEPT ![c] = @ + 1]
  /\ candle_subscriptions' = [candle_subscriptions EXCEPT ![c] = None]
  /\ UNCHANGED <<feedVars, shared, broadcaster, castVars, active_connections,
                 endpoint, gone, browserVars>>

(* The browser closes the page or loses its connection. *)
PeerLeaves(c) ==
  /\ endpoint[c] = "open" /\ c \notin gone
  /\ gone' = gone \cup {c}
  /\ UNCHANGED <<feedVars, shared, broadcaster, castVars, active_connections,
                 candle_subscriptions, endpoint, requests, browserVars>>

(* receive_text raises WebSocketDisconnect: the endpoint ends. *)
Leave(c) ==
  /\ LoopFree
  /\ endpoint[c] = "open" /\ c \in gone
  /\ endpoint' = [endpoint EXCEPT ![c] = "closed"]
  /\ Forget({c})
  /\ UNCHANGED <<feedVars, shared, broadcaster, castVars, gone, requests,
                 browserVars>>
-----------------------------------------------------------------------------
FeedContinues == MarkDirty \/ ProcessMessage \/ QueueCandleEvent

Broadcast ==
  \/ CopyDirty \/ NoBatch \/ ClearDirty \/ ReadQuotes
  \/ FinishBatch \/ RaiseWhileScreening \/ SendBatch \/ EndBatch
  \/ CopyEvents \/ ClearEvents \/ NoCandles \/ DiscardEvents
  \/ SendCandle \/ EndCandles

StoreNext ==
  \/ \E s \in Symbols : StoreQuote(s)
  \/ MarkDirty \/ ProcessMessage \/ QueueCandleEvent
  \/ CopyDirty \/ NoBatch \/ ClearDirty \/ ReadQuotes
  \/ FinishBatch \/ RaiseWhileScreening \/ SendBatch \/ EndBatch
  \/ CopyEvents \/ ClearEvents \/ NoCandles \/ DiscardEvents
  \/ SendCandle \/ EndCandles
  \/ \E c \in Clients :
       \/ Join(c) \/ JoinRaises(c) \/ PeerLeaves(c) \/ Leave(c)
       \/ Unsubscribe(c)
       \/ \E sub \in Subscription : Subscribe(c, sub)

StoreSpec == StoreInit /\ [][StoreNext]_storeVars

(* The broadcaster's sleeps end and each of its sends returns or raises.   *)
(* A tick that has begun is processed to its end.                          *)
FairStoreSpec ==
  StoreSpec /\ WF_storeVars(FeedContinues) /\ WF_storeVars(Broadcast)
-----------------------------------------------------------------------------
(* The variables hold what the code stores in them. *)
StoreTypeOK ==
  /\ _data \in [Symbols -> Nat] /\ candles \in [Symbols -> Nat]
  /\ dirty_symbols \subseteq {s \in Symbols : _data[s] > 0}
  /\ screened \subseteq Movers
  /\ pending_candle_events \in Seq(CandleEvent)
  /\ feed.at \in {"idle", "stored", "marked", "charted"}
  /\ feed.at # "idle" => feed.symbol \in Symbols
  /\ drained \subseteq Symbols
  /\ DOMAIN message.data \subseteq drained /\ message.screened \subseteq Movers
  /\ broadcaster \in {"batched", "sending"} => outbox \in Seq(Clients)
  /\ broadcaster \in {"candlesBatched", "sendingCandles"} =>
       outbox \in Seq(Delivery)
  /\ broadcaster \in {"sleeping", "candles"} =>
       outbox = <<>> /\ drained = {} /\ disconnected = {}
  /\ active_connections \in Seq(Clients)
  /\ candle_subscriptions \in [Clients -> Subscription \cup {None}]
  /\ endpoint \in [Clients -> {"new", "open", "closed"}]
  /\ gone \subseteq Clients /\ disconnected \subseteq Clients
  /\ view \in [Clients -> [Symbols -> Nat]]
  /\ forgotten \subseteq Symbols /\ missed \in [Symbols -> SUBSET Nat]

Connected == {c \in ToSet(active_connections) : c \notin gone}

(* Whatever the interleaving of the feed, slow sends and new connections,  *)
(* a browser never goes back to an older quote: the first payload of a     *)
(* connection and the batches reach it in the order of their quotes.       *)
QuotesNeverGoBack ==
  [][\A c \in Clients, s \in Symbols : view'[c][s] >= view[c][s]]_storeVars

(* The frame that comes next on a 1m chart is a live one. *)
NextOnChart(old, new) ==
  /\ old # None /\ new # None /\ new.live
  /\ old.symbol = new.symbol
  /\ old.resolution = "1m" /\ new.resolution = "1m"

(* The events a 1m subscriber gets of the symbol on its chart are in the   *)
(* order they were queued, and none comes twice, whoever resubscribes in   *)
(* between.                                                                *)
CandleEventsInOrder ==
  [][\A c \in Clients :
       (SendCandle /\ Head(outbox).ws = c /\ ~Raises(c)
          /\ NextOnChart(chart[c], chart'[c]) /\ chart[c].live
          /\ Head(outbox).event.symbol = chart[c].symbol)
         => chart'[c].n > chart[c].n]_storeVars

(* When an endpoint has ended, neither the list of connections nor the     *)
(* subscriptions hold its socket, whether the broadcaster, the endpoint or *)
(* both have disconnected it.                                              *)
NothingLeftBehind ==
  \A c \in Clients : endpoint[c] = "closed" =>
    c \notin ToSet(active_connections) /\ candle_subscriptions[c] = None

(* Every connected browser shows the newest quote of a symbol, unless the  *)
(* quote is about to be marked, is marked, or is in the batch being sent.  *)
(* A quote is forgotten in two ways only, and until the next tick of its   *)
(* symbol: its mark fell between the copy of the marks and their clear,    *)
(* which knew nothing of it, or the screened dict changed its size under   *)
(* the batch and nothing has marked the symbol again.                      *)
QuotesCaughtUp ==
  \A c \in Connected, s \in Symbols :
    \/ view[c][s] = _data[s]
    \/ feed.at = "stored" /\ feed.symbol = s
    \/ s \in dirty_symbols \cup drained \cup forgotten

(* From its snapshot on, a 1m subscriber misses no event of its symbol but *)
(* those that were queued between the broadcaster's copy of the list, or   *)
(* its look at it, and the clear: the next event comes after what the      *)
(* chart shows and such events.                                            *)
NoCandleGap ==
  [][\A c \in Clients :
       NextOnChart(chart[c], chart'[c])
         => (chart[c].n + 1) .. (chart'[c].n - 1) \subseteq missed[chart[c].symbol]]_storeVars

(* When the feed pauses, every connected browser comes to show the newest  *)
(* quotes but the forgotten ones: the broadcaster never stops, whoever     *)
(* leaves and whatever the feed thread changes under it.                   *)
QuotesDelivered ==
  []<>(\A c \in Connected, s \in Symbols \ forgotten : view[c][s] = _data[s])
=============================================================================
