--------------------------- MODULE LiveStoreProofs ---------------------------
(***************************************************************************)
(* Proofs about LiveStore, for any number of symbols, browsers, ticks and  *)
(* requests, however the feed thread runs, also while the broadcaster      *)
(* copies and clears what the two share.                                   *)
(***************************************************************************)
EXTENDS LiveStore, SubsequencesProofs

USE StoreConstants

Batching == broadcaster \in {"batched", "sending"}
Giving == broadcaster \in {"candlesBatched", "sendingCandles"}

(* The records the variables hold, and what the broadcaster holds at each  *)
(* of its points.                                                          *)
Candle == [symbol : Symbols, resolution : Resolutions, n : Nat, live : BOOLEAN]

FeedInv ==
  /\ feed \in [at : {"idle", "stored", "marked", "charted"}, symbol : Symbols \cup {None}]
  /\ feed.at = "stored" => _data[feed.symbol] > 0
  /\ feed.at = "charted" => candles[feed.symbol] > 0

CastInv ==
  /\ broadcaster \in {"sleeping", "copied", "cleared", "screening", "batched", "sending",
                      "candles", "candlesCopied", "candlesBatched", "sendingCandles",
                      "noCandles"}
  /\ broadcaster \in {"sleeping", "candles", "copied", "cleared", "screening", "noCandles"}
       => outbox = <<>>
  /\ broadcaster \notin {"sending", "sendingCandles"} => disconnected = {}
  /\ broadcaster \notin {"copied", "cleared", "screening", "batched", "sending"}
       => drained = {}
  /\ broadcaster = "candlesCopied" => outbox \in Seq(CandleEvent)
  /\ message = [data |-> message.data, screened |-> message.screened]
  /\ \A s \in DOMAIN message.data : message.data[s] \in Nat

ChartInv == chart \in [Clients -> Candle \cup {None}]

(* A socket that is not connected is in neither collection.                *)
NotOpenInv ==
  \A c \in Clients : endpoint[c] # "open" =>
    c \notin ToSet(active_connections) /\ candle_subscriptions[c] = None

StoreInv == StoreTypeOK /\ FeedInv /\ CastInv /\ ChartInv /\ NotOpenInv
-----------------------------------------------------------------------------
(* Quotes: the batch on its way is no older than what its receivers show.  *)
QuotesInv ==
  /\ \A c \in Clients, s \in Symbols : view[c][s] <= _data[s]
  /\ \A s \in DOMAIN message.data : message.data[s] <= _data[s]
  /\ broadcaster = "screening" =>
       \A c \in Clients, s \in DOMAIN message.data : view[c][s] <= message.data[s]
  /\ Batching => \A i \in DOMAIN outbox :
       /\ endpoint[outbox[i]] # "new"
       /\ \A s \in DOMAIN message.data : view[outbox[i]][s] <= message.data[s]

(* Delivery of quotes.  What the clear takes from the marks is in the copy *)
(* or has been recorded as forgotten; the quotes read after it are the     *)
(* newest but for those marked, or about to be, since.                     *)
Coming(s) == \/ feed.at = "stored" /\ feed.symbol = s
             \/ s \in dirty_symbols \cup forgotten

CaughtInv ==
  /\ QuotesCaughtUp
  /\ broadcaster = "copied" => dirty_symbols \subseteq drained \cup forgotten
  /\ broadcaster = "screening" \/ Batching =>
       /\ DOMAIN message.data = drained
       /\ \A s \in drained : message.data[s] = _data[s] \/ Coming(s)
  /\ Batching => \A c \in Connected \ ToSet(outbox), s \in Symbols :
       view[c][s] = _data[s] \/ Coming(s)
-----------------------------------------------------------------------------
(* Candle events queued so far of a symbol. *)
Queued ==
  [s \in Symbols |-> IF feed.at = "charted" /\ feed.symbol = s THEN candles[s] - 1
                    ELSE candles[s]]

InOrder(events) ==
  /\ \A i \in DOMAIN events : events[i].n <= Queued[events[i].symbol]
  /\ \A i, j \in DOMAIN events :
       i < j /\ events[i].symbol = events[j].symbol => events[i].n < events[j].n

OneMinute(c) == chart[c] # None /\ chart[c].resolution = "1m"

DeliveriesInOrder ==
  /\ \A i \in DOMAIN outbox :
       /\ outbox[i].event.symbol = outbox[i].sub.symbol
       /\ outbox[i].event.n <= Queued[outbox[i].event.symbol]
  /\ \A i, j \in DOMAIN outbox : i < j /\ outbox[i].ws = outbox[j].ws =>
       outbox[i].sub = outbox[j].sub /\ outbox[i].event.n < outbox[j].event.n
  /\ \A i \in DOMAIN outbox, j \in DOMAIN pending_candle_events :
       outbox[i].event.symbol = pending_candle_events[j].symbol =>
         outbox[i].event.n < pending_candle_events[j].n

(* What a live 1m chart shows came before everything still on its way.     *)
ChartBehind(c) ==
  /\ chart[c].n <= Queued[chart[c].symbol]
  /\ \A i \in DOMAIN pending_candle_events :
       pending_candle_events[i].symbol = chart[c].symbol =>
         pending_candle_events[i].n > chart[c].n
  /\ broadcaster = "candlesCopied" => \A i \in DOMAIN outbox :
       outbox[i].symbol = chart[c].symbol => outbox[i].n > chart[c].n
  /\ Giving => \A i \in DOMAIN outbox :
       outbox[i].ws = c /\ outbox[i].event.symbol = chart[c].symbol =>
         outbox[i].event.n > chart[c].n

OrderInv ==
  /\ InOrder(pending_candle_events)
  /\ broadcaster = "candlesCopied" => InOrder(outbox)
  /\ Giving => DeliveriesInOrder
  /\ \A c \in Clients : OneMinute(c) /\ chart[c].live => ChartBehind(c)

(* The events of a symbol that are in the list, and those that a browser   *)
(* is still to be sent under a 1m subscription.                            *)
Unsent ==
  [s \in Symbols |->
     {pending_candle_events[i].n :
        i \in {i \in DOMAIN pending_candle_events : pending_candle_events[i].symbol = s}}]

DueAt(c, s) ==
  {i \in DOMAIN outbox : /\ outbox[i].ws = c /\ outbox[i].sub.resolution = "1m"
                        /\ outbox[i].event.symbol = s}
Due ==
  [c \in Clients |-> [s \in Symbols |->
     IF Giving THEN {outbox[i].event.n : i \in DueAt(c, s)} ELSE {}]]

(* None but the missed is missing between the first of them and the last   *)
(* one queued, nor between what a 1m chart shows and what it is to be sent. *)
NoneMissing(c, s) ==
  \A k \in Due[c][s] : k .. Queued[s] \subseteq Due[c][s] \cup Unsent[s] \cup missed[s]

NextIsDue(c, s) ==
  /\ \A k \in Due[c][s] : (chart[c].n + 1) .. k \subseteq Due[c][s] \cup missed[s]
  /\ c \in Subscribed /\ candle_subscriptions[c] = [symbol |-> s, resolution |-> "1m"] =>
       (chart[c].n + 1) .. Queued[s] \subseteq Due[c][s] \cup Unsent[s] \cup missed[s]

(* The events of a symbol in the copy, before the list is cleared.         *)
Copied ==
  [s \in Symbols |-> {outbox[i].n : i \in {i \in DOMAIN outbox : outbox[i].symbol = s}}]

GapInv ==
  /\ \A s \in Symbols : \A k \in Unsent[s] : k .. Queued[s] \subseteq Unsent[s]
  /\ broadcaster = "candlesCopied" => \A s \in Symbols :
       Copied[s] \subseteq Unsent[s] /\ Unsent[s] \subseteq Copied[s] \cup missed[s]
  /\ broadcaster = "noCandles" =>
       Subscribed = {} \/ \A s \in Symbols : Unsent[s] \subseteq missed[s]
  /\ \A c \in Clients, s \in Symbols : NoneMissing(c, s)
  /\ \A c \in Clients : OneMinute(c) /\ ~Raises(c) => NextIsDue(c, chart[c].symbol)

(* Forget takes sockets out of both collections.                           *)
LEMMA ForgetLemma ==
  ASSUME active_connections \in Seq(Clients),
         candle_subscriptions \in [Clients -> Subscription \cup {None}],
         NEW cs, Forget(cs)
  PROVE  /\ active_connections' \in Seq(Clients)
         /\ ToSet(active_connections') = ToSet(active_connections) \ cs
         /\ candle_subscriptions' \in [Clients -> Subscription \cup {None}]
         /\ \A c \in Clients : candle_subscriptions'[c] =
              IF c \in cs THEN None ELSE candle_subscriptions[c]
<1> DEFINE at == {i \in DOMAIN active_connections : active_connections[i] \notin cs}
           kept == active_connections'
<1>1. /\ DOMAIN active_connections = 1 .. Len(active_connections)
      /\ Len(active_connections) \in Nat
  OBVIOUS
<1>2. kept = Keep(active_connections, at) /\ at \in SUBSET (1 .. Len(active_connections))
  BY <1>1 DEF Forget
<1> HIDE DEF at
<1>3. /\ kept \in Seq(Clients)
      /\ \E position \in [1 .. Len(kept) -> at] :
           /\ \A k \in 1 .. Len(kept) : kept[k] = active_connections[position[k]]
           /\ \A i \in at : \E k \in 1 .. Len(kept) : position[k] = i
  BY <1>2, KeepLemma
<1> HIDE DEF kept
<1>4. DOMAIN kept = 1 .. Len(kept)
  BY <1>3
<1>5. ASSUME NEW c \in ToSet(kept) PROVE c \in ToSet(active_connections) \ cs
  <2>1. PICK k \in 1 .. Len(kept) : kept[k] = c
    BY <1>4 DEF ToSet
  <2>2. PICK i \in at : kept[k] = active_connections[i]
    BY <1>3
  <2> QED BY <2>1, <2>2 DEF ToSet, at
<1>6. ASSUME NEW c \in ToSet(active_connections) \ cs PROVE c \in ToSet(kept)
  <2>1. PICK i \in DOMAIN active_connections : active_connections[i] = c
    BY DEF ToSet
  <2>2. i \in at
    BY <2>1 DEF at
  <2>3. PICK k \in 1 .. Len(kept) : kept[k] = active_connections[i]
    BY <1>3, <2>2
  <2> QED BY <1>4, <2>1, <2>3 DEF ToSet
<1>7. candle_subscriptions' =
        [c \in Clients |-> IF c \in cs THEN None ELSE candle_subscriptions[c]]
  BY DEF Forget
<1> QED BY <1>3, <1>5, <1>6, <1>7 DEF kept

(* What the broadcaster sends of a list of events: every event a client    *)
(* has subscribed to, in the order of the list.                            *)
Batch(events, order) ==
  FlattenSeq([i \in 1 .. Len(order) |-> DeliveriesTo(order[i], events)])

(* The deliveries of one client: to[k] is that of the event position[k].   *)
Wanted(events, c) ==
  {p \in DOMAIN events : events[p].symbol = candle_subscriptions[c].symbol}

Lists(to, c, events, position) ==
  /\ position \in [1 .. Len(to) -> Wanted(events, c)]
  /\ \A k \in 1 .. Len(to) :
       to[k] = [ws |-> c, sub |-> candle_subscriptions[c], event |-> events[position[k]]]
  /\ \A j, k \in 1 .. Len(to) : j < k => position[j] < position[k]
  /\ \A p \in Wanted(events, c) : \E k \in 1 .. Len(to) : position[k] = p

LEMMA BatchLemma ==
  ASSUME StoreInv, NEW events \in Seq(CandleEvent), NEW order \in SetToSeqs(Subscribed)
  PROVE  /\ Batch(events, order) \in Seq(Delivery)
         /\ \A i \in DOMAIN Batch(events, order) :
              LET d == Batch(events, order)[i]
              IN  /\ d.ws \in Subscribed /\ d.sub = candle_subscriptions[d.ws]
                  /\ d.event.symbol = d.sub.symbol
                  /\ \E p \in DOMAIN events : d.event = events[p]
         /\ \A i, j \in DOMAIN Batch(events, order) :
              i < j /\ Batch(events, order)[i].ws = Batch(events, order)[j].ws =>
                \E p, q \in DOMAIN events :
                  /\ p < q
                  /\ Batch(events, order)[i].event = events[p]
                  /\ Batch(events, order)[j].event = events[q]
         /\ \A c \in Clients, p \in DOMAIN events :
              candle_subscriptions[c] # None
                /\ candle_subscriptions[c].symbol = events[p].symbol =>
                  \E i \in DOMAIN Batch(events, order) :
                    /\ Batch(events, order)[i].ws = c
                    /\ Batch(events, order)[i].event = events[p]
<1> DEFINE box == Batch(events, order)
           seqs == [i \in 1 .. Len(order) |-> DeliveriesTo(order[i], events)]
           n == Cardinality(Subscribed)
<1>1. /\ Subscribed \subseteq Clients
      /\ \A c \in Subscribed : candle_subscriptions[c] \in Subscription
  BY DEF Subscribed, StoreInv, StoreTypeOK
<1>2. IsFiniteSet(Subscribed) /\ n \in Nat
  BY <1>1, FS_Subset, FS_CardinalityType
<1>3. /\ order \in Seq(Subscribed) /\ Len(order) = n
      /\ \A i, j \in 1 .. n : i # j => order[i] # order[j]
  <2>1. /\ order \in [1 .. n -> Subscribed]
        /\ \A i, j \in 1 .. n : i # j => order[i] # order[j]
    BY DEF SetToSeqs
  <2> QED BY <1>2, <2>1
<1>4. \A c \in Subscribed : \E i \in 1 .. n : order[i] = c
  <2>1. order \in Injection(1 .. n, Subscribed)
    BY <1>2, <1>3 DEF Injection, IsInjective
  <2>2. IsFiniteSet(1 .. n) /\ Cardinality(1 .. n) = n
    BY <1>2, FS_Interval
  <2>3. order \in Surjection(1 .. n, Subscribed)
    BY <1>2, <2>1, <2>2, FS_Injection, Zenon
  <2> QED BY <2>3 DEF Surjection
<1> HIDE DEF n
<1>5. ASSUME NEW c \in Subscribed
      PROVE  /\ DeliveriesTo(c, events) \in Seq(Delivery)
             /\ \E position : Lists(DeliveriesTo(c, events), c, events, position)
  <2> DEFINE at == Wanted(events, c)
             wanted == Keep(events, at)
             to == DeliveriesTo(c, events)
  <2>1. to = [i \in 1 .. Len(wanted) |->
                [ws |-> c, sub |-> candle_subscriptions[c], event |-> wanted[i]]]
    BY DEF DeliveriesTo, Wanted
  <2>2. at \in SUBSET (1 .. Len(events)) /\ wanted = Keep(events, at)
    BY DEF Wanted
  <2> HIDE DEF wanted, to, at
  <2>3. /\ wanted \in Seq(CandleEvent)
        /\ \E position \in [1 .. Len(wanted) -> at] :
             /\ \A k \in 1 .. Len(wanted) : wanted[k] = events[position[k]]
             /\ \A j, k \in 1 .. Len(wanted) : j < k => position[j] < position[k]
             /\ \A i \in at : \E k \in 1 .. Len(wanted) : position[k] = i
    <3> DEFINE T == CandleEvent
    <3>1. events \in Seq(T)
      OBVIOUS
    <3> HIDE DEF T
    <3>2. wanted \in Seq(T) /\ wanted = Keep(events, at)
      BY ONLY <2>2, <3>1, KeepLemma
    <3>3. \E position \in [1 .. Len(Keep(events, at)) -> at] :
            /\ \A k \in 1 .. Len(Keep(events, at)) : Keep(events, at)[k] = events[position[k]]
            /\ \A j, k \in 1 .. Len(Keep(events, at)) : j < k => position[j] < position[k]
            /\ \A i \in at : \E k \in 1 .. Len(Keep(events, at)) : position[k] = i
      BY ONLY <2>2, <3>1, KeepLemma
    <3> QED BY <3>2, <3>3 DEF T
  <2>4. Len(wanted) \in Nat /\ \A k \in 1 .. Len(wanted) : wanted[k] \in CandleEvent
    BY <2>3
  <2>5. to \in [1 .. Len(wanted) -> Delivery]
    BY <1>1, <2>1, <2>4 DEF Delivery
  <2>6. to \in Seq(Delivery) /\ Len(to) = Len(wanted)
    BY <2>4, <2>5
  <2>7. \A k \in 1 .. Len(wanted) :
          to[k] = [ws |-> c, sub |-> candle_subscriptions[c], event |-> wanted[k]]
    BY <2>1
  <2>8. PICK position \in [1 .. Len(wanted) -> at] :
             /\ \A k \in 1 .. Len(wanted) : wanted[k] = events[position[k]]
             /\ \A j, k \in 1 .. Len(wanted) : j < k => position[j] < position[k]
             /\ \A i \in at : \E k \in 1 .. Len(wanted) : position[k] = i
    BY <2>3
  <2>9. Lists(to, c, events, position)
    BY <2>6, <2>7, <2>8 DEF Lists, at
  <2> QED BY <2>6, <2>9 DEF to
<1>6. seqs \in Seq(Seq(Delivery)) /\ Len(seqs) = n
      /\ \A a \in 1 .. n : seqs[a] = DeliveriesTo(order[a], events) /\ order[a] \in Subscribed
  <2>1. seqs \in [1 .. n -> Seq(Delivery)]
    BY <1>3, <1>5
  <2> QED BY <1>2, <1>3, <2>1
<1>7. box = FlattenSeq(seqs)
  BY DEF Batch
<1> HIDE DEF seqs, box
<1>8. /\ box \in Seq(Delivery)
      /\ \E part, place : Spread(box, seqs, n, part, place)
  BY <1>6, <1>7, FlattenLemma
<1>9. PICK part, place : Spread(box, seqs, n, part, place)
  BY <1>8
<1>10. /\ DOMAIN box = 1 .. Len(box)
       /\ \A k \in DOMAIN box : /\ part[k] \in 1 .. n /\ place[k] \in Nat
                                /\ place[k] \in DOMAIN seqs[part[k]]
                                /\ box[k] = seqs[part[k]][place[k]]
       /\ \A j, k \in DOMAIN box : j < k =>
            part[j] < part[k] \/ (part[j] = part[k] /\ place[j] < place[k])
       /\ \A a \in 1 .. n : \A b \in DOMAIN seqs[a] :
            \E k \in DOMAIN box : part[k] = a /\ place[k] = b
  <2>1. DOMAIN box = 1 .. Len(box)
    BY <1>8
  <2> QED BY <1>9, <2>1 DEF Spread
<1>11. ASSUME NEW a \in 1 .. n
       PROVE  /\ DOMAIN seqs[a] = 1 .. Len(seqs[a])
              /\ \E position : Lists(seqs[a], order[a], events, position)
  <2>1. seqs[a] = DeliveriesTo(order[a], events) /\ order[a] \in Subscribed
    BY <1>6
  <2>2. seqs[a] \in Seq(Delivery)
    BY <1>5, <2>1
  <2> QED BY <1>5, <2>1, <2>2
<1>12. ASSUME NEW i \in DOMAIN box
       PROVE  /\ box[i].ws = order[part[i]] /\ box[i].ws \in Subscribed
              /\ box[i].sub = candle_subscriptions[box[i].ws]
              /\ box[i].event.symbol = box[i].sub.symbol
              /\ \E p \in DOMAIN events : box[i].event = events[p]
  <2>1. part[i] \in 1 .. n /\ place[i] \in DOMAIN seqs[part[i]]
        /\ box[i] = seqs[part[i]][place[i]]
    BY <1>10
  <2>2. PICK position : Lists(seqs[part[i]], order[part[i]], events, position)
    BY <1>11, <2>1
  <2>3. place[i] \in 1 .. Len(seqs[part[i]])
    BY <1>11, <2>1
  <2>4. /\ position[place[i]] \in Wanted(events, order[part[i]])
        /\ box[i] = [ws |-> order[part[i]], sub |-> candle_subscriptions[order[part[i]]],
                     event |-> events[position[place[i]]]]
    BY <2>1, <2>2, <2>3 DEF Lists
  <2>5. order[part[i]] \in Subscribed
    BY <1>3, <2>1
  <2> QED BY <2>4, <2>5 DEF Wanted
<1>13. ASSUME NEW i \in DOMAIN box, NEW j \in DOMAIN box, i < j, box[i].ws = box[j].ws
       PROVE  \E p, q \in DOMAIN events :
                p < q /\ box[i].event = events[p] /\ box[j].event = events[q]
  <2>1. part[i] \in 1 .. n /\ part[j] \in 1 .. n /\ order[part[i]] = order[part[j]]
    BY <1>10, <1>12, <1>13
  <2>2. part[i] = part[j]
    BY <1>3, <2>1
  <2>3. place[i] < place[j]
    <3>1. part[i] < part[j] \/ (part[i] = part[j] /\ place[i] < place[j])
      BY <1>10, <1>13
    <3> QED BY <2>1, <2>2, <3>1
  <2> DEFINE a == part[i]
  <2>4. /\ a \in 1 .. n /\ place[i] \in DOMAIN seqs[a] /\ place[j] \in DOMAIN seqs[a]
        /\ box[i] = seqs[a][place[i]] /\ box[j] = seqs[a][place[j]]
    BY <1>10, <2>1, <2>2
  <2> HIDE DEF a
  <2>5. PICK position : Lists(seqs[a], order[a], events, position)
    BY <1>11, <2>4
  <2>6. place[i] \in 1 .. Len(seqs[a]) /\ place[j] \in 1 .. Len(seqs[a])
    BY <1>11, <2>4
  <2>7. /\ position[place[i]] \in DOMAIN events /\ position[place[j]] \in DOMAIN events
        /\ position[place[i]] < position[place[j]]
    BY <2>3, <2>5, <2>6 DEF Lists, Wanted
  <2>8. \A k \in 1 .. Len(seqs[a]) :
          seqs[a][k] = [ws |-> order[a], sub |-> candle_subscriptions[order[a]],
                        event |-> events[position[k]]]
    BY <2>5, Zenon DEF Lists
  <2>9. ASSUME NEW k \in 1 .. Len(seqs[a]) PROVE seqs[a][k].event = events[position[k]]
    <3>1. seqs[a][k] = [ws |-> order[a], sub |-> candle_subscriptions[order[a]],
                        event |-> events[position[k]]]
      BY <2>8
    <3> QED BY ONLY <3>1
  <2>10. box[i].event = events[position[place[i]]] /\ box[j].event = events[position[place[j]]]
    BY <2>4, <2>6, <2>9
  <2> QED BY <2>7, <2>10
<1>14. ASSUME NEW c \in Clients, NEW p \in DOMAIN events,
              candle_subscriptions[c] # None,
              candle_subscriptions[c].symbol = events[p].symbol
       PROVE  \E i \in DOMAIN box : box[i].ws = c /\ box[i].event = events[p]
  <2>1. c \in Subscribed /\ p \in Wanted(events, c)
    BY <1>14 DEF Subscribed, Wanted
  <2>2. PICK a \in 1 .. n : order[a] = c
    BY <1>4, <2>1
  <2>3. PICK position : Lists(seqs[a], c, events, position)
    BY <1>11, <2>2
  <2>4. PICK k \in 1 .. Len(seqs[a]) : position[k] = p
    BY <2>1, <2>3 DEF Lists
  <2>5. seqs[a][k] = [ws |-> c, sub |-> candle_subscriptions[c], event |-> events[p]]
    BY <2>3, <2>4 DEF Lists
  <2>6. PICK i \in DOMAIN box : part[i] = a /\ place[i] = k
    <3>1. k \in DOMAIN seqs[a]
      BY <1>11
    <3> QED BY <1>10, <3>1, Zenon
  <2>7. box[i] = seqs[a][k]
    BY <1>10, <2>6
  <2> QED BY <2>5, <2>7
<1> QED BY <1>8, <1>12, <1>13, <1>14 DEF box
-----------------------------------------------------------------------------

LEMMA StoreInvInit == StoreInit => StoreInv
<1> SUFFICES ASSUME StoreInit PROVE StoreInv
  OBVIOUS
<1>1. StoreTypeOK
  BY DEF StoreInit, StoreTypeOK
<1>2. FeedInv
  BY DEF StoreInit, FeedInv
<1>3. CastInv
  BY DEF StoreInit, CastInv
<1>4. ChartInv
  BY DEF StoreInit, ChartInv
<1>5. NotOpenInv
  BY DEF StoreInit, NotOpenInv, ToSet
<1> QED BY <1>1, <1>2, <1>3, <1>4, <1>5 DEF StoreInv

LEMMA FrameLemma ==
  ASSUME StoreTypeOK, NEW d \in Delivery
  PROVE  Frame(d) \in Candle
<1>1. /\ d.sub \in Subscription /\ d.sub.symbol \in Symbols /\ d.sub.resolution \in Resolutions
      /\ d.event.n \in Nat
  BY DEF Delivery, Subscription, CandleEvent
<1>2. candles[d.sub.symbol] \in Nat
  BY <1>1 DEF StoreTypeOK
<1> QED BY <1>1, <1>2 DEF Frame, Candle

(* A send takes the first delivery, and perhaps all of the same client.    *)
LEMMA SendLemma ==
  ASSUME outbox \in Seq(Delivery), outbox # <<>>
  PROVE  /\ Head(outbox) \in Delivery /\ Head(outbox) = outbox[1]
         /\ Len(outbox) \in Nat \ {0} /\ DOMAIN outbox = 1 .. Len(outbox)
         /\ Tail(outbox) \in Seq(Delivery)
         /\ LET rest == Keep(outbox, {i \in DOMAIN outbox : outbox[i].ws # Head(outbox).ws})
            IN  rest \in Seq(Delivery)
<1> DEFINE at == {i \in DOMAIN outbox : outbox[i].ws # Head(outbox).ws}
           rest == Keep(outbox, at)
<1>1. at \in SUBSET (1 .. Len(outbox)) /\ rest = Keep(outbox, at)
  OBVIOUS
<1>2. rest \in Seq(Delivery)
  <2> HIDE DEF at, rest
  <2> QED BY ONLY <1>1, outbox \in Seq(Delivery), KeepLemma
<1> QED BY <1>2

(* A candle frame becomes the newest of the chart, or is ignored.          *)
LEMMA ShowLemma ==
  ASSUME ChartInv, NEW c \in Clients, NEW candle, ShowCandle(c, candle)
  PROVE  /\ chart' = chart \/ chart' = [chart EXCEPT ![c] = candle]
         /\ ~candle.live \/ chart[c] = None \/ chart[c].symbol = candle.symbol =>
              chart' = [chart EXCEPT ![c] = candle]
<1>1. CASE candle.live /\ chart[c] # None /\ chart[c].symbol # candle.symbol
  <2>1. chart' = [chart EXCEPT ![c] = chart[c]]
    BY <1>1 DEF ShowCandle
  <2>2. chart' = chart
    BY <2>1 DEF ChartInv
  <2> QED BY <1>1, <2>2
<1>2. CASE ~(candle.live /\ chart[c] # None /\ chart[c].symbol # candle.symbol)
  <2>1. chart' = [chart EXCEPT ![c] = candle]
    BY <1>2 DEF ShowCandle
  <2> QED BY <2>1
<1> QED BY <1>1, <1>2

LEMMA StoreInvStep == StoreInv /\ [StoreNext]_storeVars => StoreInv'
<1> SUFFICES ASSUME StoreInv, [StoreNext]_storeVars PROVE StoreInv'
  OBVIOUS
<1> USE DEF StoreInv
<1>1. ASSUME NEW s \in Symbols, StoreQuote(s) PROVE StoreInv'
  <2>1. StoreTypeOK'
    BY <1>1 DEF StoreQuote, StoreTypeOK, FeedInv, CastInv, feedVars, shared, castVars, connVars, browserVars, history
  <2>2. FeedInv'
    BY <1>1 DEF StoreQuote, StoreTypeOK, FeedInv, feedVars, shared, castVars, connVars, browserVars, history
  <2>3. CastInv'
    BY <1>1 DEF StoreQuote, StoreTypeOK, FeedInv, CastInv, feedVars, shared, castVars, connVars, browserVars, history
  <2>4. ChartInv'
    BY <1>1 DEF StoreQuote, StoreTypeOK, ChartInv, feedVars, shared, castVars, connVars, browserVars, history
  <2>5. NotOpenInv'
    BY <1>1 DEF StoreQuote, StoreTypeOK, NotOpenInv, ToSet, feedVars, shared, castVars, connVars, browserVars, history
  <2> QED BY <2>1, <2>2, <2>3, <2>4, <2>5
<1>2. ASSUME MarkDirty PROVE StoreInv'
  <2>1. StoreTypeOK'
    BY <1>2 DEF MarkDirty, StoreTypeOK, FeedInv, CastInv, feedVars, shared, castVars, connVars, browserVars, history
  <2>2. FeedInv'
    BY <1>2 DEF MarkDirty, StoreTypeOK, FeedInv, feedVars, shared, castVars, connVars, browserVars, history
  <2>3. CastInv'
    BY <1>2 DEF MarkDirty, StoreTypeOK, FeedInv, CastInv, feedVars, shared, castVars, connVars, browserVars, history
  <2>4. ChartInv'
    BY <1>2 DEF MarkDirty, StoreTypeOK, ChartInv, feedVars, shared, castVars, connVars, browserVars, history
  <2>5. NotOpenInv'
    BY <1>2 DEF MarkDirty, StoreTypeOK, NotOpenInv, ToSet, feedVars, shared, castVars, connVars, browserVars, history
  <2> QED BY <2>1, <2>2, <2>3, <2>4, <2>5
<1>3. ASSUME ProcessMessage PROVE StoreInv'
  <2>1. StoreTypeOK'
    BY <1>3 DEF ProcessMessage, StoreTypeOK, FeedInv, CastInv, feedVars, shared, castVars, connVars, browserVars, history
  <2>2. FeedInv'
    <3>1. feed.at = "marked" /\ feed.symbol \in Symbols
      BY <1>3 DEF ProcessMessage, StoreTypeOK
    <3>2. CASE feed.symbol \in Charted
      <4>1. /\ feed' = [feed EXCEPT !.at = "charted"] /\ _data' = _data
            /\ candles' = [candles EXCEPT ![feed.symbol] = @ + 1]
        BY <1>3, <3>2 DEF ProcessMessage
      <4>2. feed'.symbol = feed.symbol /\ feed'.at = "charted" /\ candles[feed.symbol] \in Nat
        BY <3>1, <4>1 DEF FeedInv, StoreTypeOK
      <4>3. candles'[feed.symbol] > 0
        BY <3>1, <4>1, <4>2 DEF StoreTypeOK
      <4> QED BY <3>1, <4>1, <4>2, <4>3 DEF FeedInv
    <3>3. CASE feed.symbol \notin Charted
      <4>1. feed' = [at |-> "idle", symbol |-> None]
        BY <1>3, <3>3 DEF ProcessMessage
      <4> QED BY <4>1 DEF FeedInv
    <3> QED BY <3>2, <3>3
  <2>3. CastInv'
    BY <1>3 DEF ProcessMessage, StoreTypeOK, FeedInv, CastInv, feedVars, shared, castVars, connVars, browserVars, history
  <2>4. ChartInv'
    BY <1>3 DEF ProcessMessage, StoreTypeOK, ChartInv, feedVars, shared, castVars, connVars, browserVars, history
  <2>5. NotOpenInv'
    BY <1>3 DEF ProcessMessage, StoreTypeOK, NotOpenInv, ToSet, feedVars, shared, castVars, connVars, browserVars, history
  <2> QED BY <2>1, <2>2, <2>3, <2>4, <2>5
<1>4. ASSUME QueueCandleEvent PROVE StoreInv'
  <2>1. StoreTypeOK'
    BY <1>4 DEF QueueCandleEvent, CandleEvent, StoreTypeOK, FeedInv, CastInv, feedVars, shared, castVars, connVars, browserVars, history
  <2>2. FeedInv'
    BY <1>4 DEF QueueCandleEvent, CandleEvent, StoreTypeOK, FeedInv, feedVars, shared, castVars, connVars, browserVars, history
  <2>3. CastInv'
    BY <1>4 DEF QueueCandleEvent, CandleEvent, StoreTypeOK, FeedInv, CastInv, feedVars, shared, castVars, connVars, browserVars, history
  <2>4. ChartInv'
    BY <1>4 DEF QueueCandleEvent, CandleEvent, StoreTypeOK, ChartInv, feedVars, shared, castVars, connVars, browserVars, history
  <2>5. NotOpenInv'
    BY <1>4 DEF QueueCandleEvent, CandleEvent, StoreTypeOK, NotOpenInv, ToSet, feedVars, shared, castVars, connVars, browserVars, history
  <2> QED BY <2>1, <2>2, <2>3, <2>4, <2>5
<1>5. ASSUME CopyDirty PROVE StoreInv'
  <2>1. StoreTypeOK'
    BY <1>5 DEF CopyDirty, StoreTypeOK, FeedInv, CastInv, feedVars, shared, castVars, connVars, browserVars, history
  <2>2. FeedInv'
    BY <1>5 DEF CopyDirty, StoreTypeOK, FeedInv, feedVars, shared, castVars, connVars, browserVars, history
  <2>3. CastInv'
    BY <1>5 DEF CopyDirty, StoreTypeOK, FeedInv, CastInv, feedVars, shared, castVars, connVars, browserVars, history
  <2>4. ChartInv'
    BY <1>5 DEF CopyDirty, StoreTypeOK, ChartInv, feedVars, shared, castVars, connVars, browserVars, history
  <2>5. NotOpenInv'
    BY <1>5 DEF CopyDirty, StoreTypeOK, NotOpenInv, ToSet, feedVars, shared, castVars, connVars, browserVars, history
  <2> QED BY <2>1, <2>2, <2>3, <2>4, <2>5
<1>6. ASSUME NoBatch PROVE StoreInv'
  <2>1. StoreTypeOK'
    BY <1>6 DEF NoBatch, StoreTypeOK, FeedInv, CastInv, feedVars, shared, castVars, connVars, browserVars, history
  <2>2. FeedInv'
    BY <1>6 DEF NoBatch, StoreTypeOK, FeedInv, feedVars, shared, castVars, connVars, browserVars, history
  <2>3. CastInv'
    BY <1>6 DEF NoBatch, StoreTypeOK, FeedInv, CastInv, feedVars, shared, castVars, connVars, browserVars, history
  <2>4. ChartInv'
    BY <1>6 DEF NoBatch, StoreTypeOK, ChartInv, feedVars, shared, castVars, connVars, browserVars, history
  <2>5. NotOpenInv'
    BY <1>6 DEF NoBatch, StoreTypeOK, NotOpenInv, ToSet, feedVars, shared, castVars, connVars, browserVars, history
  <2> QED BY <2>1, <2>2, <2>3, <2>4, <2>5
<1>7. ASSUME ClearDirty PROVE StoreInv'
  <2>1. StoreTypeOK'
    BY <1>7 DEF ClearDirty, StoreTypeOK, FeedInv, CastInv, feedVars, shared, castVars, connVars, browserVars, history
  <2>2. FeedInv'
    BY <1>7 DEF ClearDirty, StoreTypeOK, FeedInv, feedVars, shared, castVars, connVars, browserVars, history
  <2>3. CastInv'
    BY <1>7 DEF ClearDirty, StoreTypeOK, FeedInv, CastInv, feedVars, shared, castVars, connVars, browserVars, history
  <2>4. ChartInv'
    BY <1>7 DEF ClearDirty, StoreTypeOK, ChartInv, feedVars, shared, castVars, connVars, browserVars, history
  <2>5. NotOpenInv'
    BY <1>7 DEF ClearDirty, StoreTypeOK, NotOpenInv, ToSet, feedVars, shared, castVars, connVars, browserVars, history
  <2> QED BY <2>1, <2>2, <2>3, <2>4, <2>5
<1>8. ASSUME ReadQuotes PROVE StoreInv'
  <2>1. StoreTypeOK'
    BY <1>8 DEF ReadQuotes, StoreTypeOK, FeedInv, CastInv, feedVars, shared, castVars, connVars, browserVars, history
  <2>2. FeedInv'
    BY <1>8 DEF ReadQuotes, StoreTypeOK, FeedInv, feedVars, shared, castVars, connVars, browserVars, history
  <2>3. CastInv'
    BY <1>8 DEF ReadQuotes, StoreTypeOK, FeedInv, CastInv, feedVars, shared, castVars, connVars, browserVars, history
  <2>4. ChartInv'
    BY <1>8 DEF ReadQuotes, StoreTypeOK, ChartInv, feedVars, shared, castVars, connVars, browserVars, history
  <2>5. NotOpenInv'
    BY <1>8 DEF ReadQuotes, StoreTypeOK, NotOpenInv, ToSet, feedVars, shared, castVars, connVars, browserVars, history
  <2> QED BY <2>1, <2>2, <2>3, <2>4, <2>5
<1>9. ASSUME FinishBatch PROVE StoreInv'
  <2>1. StoreTypeOK'
    BY <1>9 DEF FinishBatch, StoreTypeOK, FeedInv, CastInv, feedVars, shared, castVars, connVars, browserVars, history
  <2>2. FeedInv'
    BY <1>9 DEF FinishBatch, StoreTypeOK, FeedInv, feedVars, shared, castVars, connVars, browserVars, history
  <2>3. CastInv'
    BY <1>9 DEF FinishBatch, StoreTypeOK, FeedInv, CastInv, feedVars, shared, castVars, connVars, browserVars, history
  <2>4. ChartInv'
    BY <1>9 DEF FinishBatch, StoreTypeOK, ChartInv, feedVars, shared, castVars, connVars, browserVars, history
  <2>5. NotOpenInv'
    BY <1>9 DEF FinishBatch, StoreTypeOK, NotOpenInv, ToSet, feedVars, shared, castVars, connVars, browserVars, history
  <2> QED BY <2>1, <2>2, <2>3, <2>4, <2>5
<1>10. ASSUME RaiseWhileScreening PROVE StoreInv'
  <2>1. StoreTypeOK'
    BY <1>10 DEF RaiseWhileScreening, StoreTypeOK, FeedInv, CastInv, feedVars, shared, castVars, connVars, browserVars, history
  <2>2. FeedInv'
    BY <1>10 DEF RaiseWhileScreening, StoreTypeOK, FeedInv, feedVars, shared, castVars, connVars, browserVars, history
  <2>3. CastInv'
    BY <1>10 DEF RaiseWhileScreening, StoreTypeOK, FeedInv, CastInv, feedVars, shared, castVars, connVars, browserVars, history
  <2>4. ChartInv'
    BY <1>10 DEF RaiseWhileScreening, StoreTypeOK, ChartInv, feedVars, shared, castVars, connVars, browserVars, history
  <2>5. NotOpenInv'
    BY <1>10 DEF RaiseWhileScreening, StoreTypeOK, NotOpenInv, ToSet, feedVars, shared, castVars, connVars, browserVars, history
  <2> QED BY <2>1, <2>2, <2>3, <2>4, <2>5
<1>11. ASSUME SendBatch PROVE StoreInv'
  <2>1. StoreTypeOK'
    <3>1. outbox \in Seq(Clients) /\ outbox # <<>> /\ broadcaster' = "sending"
      BY <1>11 DEF SendBatch, StoreTypeOK
    <3>2. Head(outbox) \in Clients /\ Tail(outbox) \in Seq(Clients) /\ outbox' = Tail(outbox)
      BY <1>11, <3>1 DEF SendBatch
    <3>3. disconnected' \subseteq Clients
      BY <1>11, <3>2 DEF SendBatch, StoreTypeOK
    <3>4. view' \in [Clients -> [Symbols -> Nat]]
      <4>1. CASE view' = view
        BY <4>1 DEF StoreTypeOK
      <4>2. CASE ShowQuotes(Head(outbox), message.data)
        <5> DEFINE c == Head(outbox)
                   shown == [s \in Symbols |-> IF s \in DOMAIN message.data
                                               THEN message.data[s] ELSE view[c][s]]
        <5>1. view' = [view EXCEPT ![c] = shown]
          BY <4>2 DEF ShowQuotes
        <5>2. view \in [Clients -> [Symbols -> Nat]] /\ c \in Clients
          BY <3>2 DEF StoreTypeOK
        <5>3. shown \in [Symbols -> Nat]
          BY <5>2 DEF CastInv
        <5> HIDE DEF c, shown
        <5> QED BY <5>1, <5>2, <5>3
      <4> QED BY <1>11, <4>1, <4>2 DEF SendBatch
    <3>5. /\ UNCHANGED <<_data, candles, dirty_symbols, screened, pending_candle_events, feed,
                        drained, message, active_connections, candle_subscriptions, endpoint,
                        gone, forgotten, missed>>
      BY <1>11 DEF SendBatch, feedVars, shared, connVars, history
    <3> QED BY <3>1, <3>2, <3>3, <3>4, <3>5 DEF StoreTypeOK
  <2>2. FeedInv'
    BY <1>11 DEF SendBatch, ShowQuotes, StoreTypeOK, FeedInv, feedVars, shared, castVars, connVars, browserVars, history
  <2>3. CastInv'
    BY <1>11 DEF SendBatch, ShowQuotes, StoreTypeOK, FeedInv, CastInv, feedVars, shared, castVars, connVars, browserVars, history
  <2>4. ChartInv'
    BY <1>11 DEF SendBatch, ShowQuotes, StoreTypeOK, ChartInv, feedVars, shared, castVars, connVars, browserVars, history
  <2>5. NotOpenInv'
    BY <1>11 DEF SendBatch, ShowQuotes, StoreTypeOK, NotOpenInv, ToSet, feedVars, shared, castVars, connVars, browserVars, history
  <2> QED BY <2>1, <2>2, <2>3, <2>4, <2>5
<1>12. ASSUME EndBatch PROVE StoreInv'
  <2>1. StoreTypeOK'
    <3>1. /\ active_connections' \in Seq(Clients)
          /\ candle_subscriptions' \in [Clients -> Subscription \cup {None}]
      BY <1>12, ForgetLemma DEF EndBatch, StoreTypeOK
    <3> QED BY <1>12, <3>1 DEF EndBatch, StoreTypeOK, CastInv, feedVars, shared, browserVars, history
  <2>2. FeedInv'
    BY <1>12 DEF EndBatch, StoreTypeOK, FeedInv, feedVars, shared, castVars, connVars, browserVars, history
  <2>3. CastInv'
    BY <1>12 DEF EndBatch, StoreTypeOK, FeedInv, CastInv, feedVars, shared, castVars, connVars, browserVars, history
  <2>4. ChartInv'
    BY <1>12 DEF EndBatch, StoreTypeOK, ChartInv, feedVars, shared, castVars, connVars, browserVars, history
  <2>5. NotOpenInv'
    <3>1. /\ ToSet(active_connections') = ToSet(active_connections) \ disconnected
          /\ \A c \in Clients : candle_subscriptions'[c] =
               IF c \in disconnected THEN None ELSE candle_subscriptions[c]
      BY <1>12, ForgetLemma DEF EndBatch, StoreTypeOK
    <3> QED BY <1>12, <3>1 DEF EndBatch, NotOpenInv
  <2> QED BY <2>1, <2>2, <2>3, <2>4, <2>5
<1>13. ASSUME CopyEvents PROVE StoreInv'
  <2>1. StoreTypeOK'
    BY <1>13 DEF CopyEvents, StoreTypeOK, FeedInv, CastInv, feedVars, shared, castVars, connVars, browserVars, history
  <2>2. FeedInv'
    BY <1>13 DEF CopyEvents, StoreTypeOK, FeedInv, feedVars, shared, castVars, connVars, browserVars, history
  <2>3. CastInv'
    BY <1>13 DEF CopyEvents, StoreTypeOK, FeedInv, CastInv, feedVars, shared, castVars, connVars, browserVars, history
  <2>4. ChartInv'
    BY <1>13 DEF CopyEvents, StoreTypeOK, ChartInv, feedVars, shared, castVars, connVars, browserVars, history
  <2>5. NotOpenInv'
    BY <1>13 DEF CopyEvents, StoreTypeOK, NotOpenInv, ToSet, feedVars, shared, castVars, connVars, browserVars, history
  <2> QED BY <2>1, <2>2, <2>3, <2>4, <2>5
<1>14. ASSUME ClearEvents PROVE StoreInv'
  <2>1. StoreTypeOK'
    <3>1. outbox \in Seq(CandleEvent)
      BY <1>14 DEF ClearEvents, CastInv
    <3>2. outbox' \in Seq(Delivery)
      <4>1. PICK order \in SetToSeqs(Subscribed) : outbox' = Batch(outbox, order)
        BY <1>14 DEF ClearEvents, Batch
      <4> QED BY <3>1, <4>1, BatchLemma
    <3>3. <<>> \in Seq(CandleEvent)
      OBVIOUS
    <3> QED BY <1>14, <3>2, <3>3 DEF ClearEvents, StoreTypeOK, feedVars, connVars, browserVars, history
  <2>2. FeedInv'
    BY <1>14 DEF ClearEvents, StoreTypeOK, FeedInv, feedVars, shared, castVars, connVars, browserVars, history
  <2>3. CastInv'
    BY <1>14 DEF ClearEvents, StoreTypeOK, FeedInv, CastInv, feedVars, shared, castVars, connVars, browserVars, history
  <2>4. ChartInv'
    BY <1>14 DEF ClearEvents, StoreTypeOK, ChartInv, feedVars, shared, castVars, connVars, browserVars, history
  <2>5. NotOpenInv'
    BY <1>14 DEF ClearEvents, StoreTypeOK, NotOpenInv, ToSet, feedVars, shared, castVars, connVars, browserVars, history
  <2> QED BY <2>1, <2>2, <2>3, <2>4, <2>5
<1>15. ASSUME NoCandles PROVE StoreInv'
  <2>1. StoreTypeOK'
    BY <1>15 DEF NoCandles, StoreTypeOK, FeedInv, CastInv, feedVars, shared, castVars, connVars, browserVars, history
  <2>2. FeedInv'
    BY <1>15 DEF NoCandles, StoreTypeOK, FeedInv, feedVars, shared, castVars, connVars, browserVars, history
  <2>3. CastInv'
    BY <1>15 DEF NoCandles, StoreTypeOK, FeedInv, CastInv, feedVars, shared, castVars, connVars, browserVars, history
  <2>4. ChartInv'
    BY <1>15 DEF NoCandles, StoreTypeOK, ChartInv, feedVars, shared, castVars, connVars, browserVars, history
  <2>5. NotOpenInv'
    BY <1>15 DEF NoCandles, StoreTypeOK, NotOpenInv, ToSet, feedVars, shared, castVars, connVars, browserVars, history
  <2> QED BY <2>1, <2>2, <2>3, <2>4, <2>5
<1>16. ASSUME DiscardEvents PROVE StoreInv'
  <2>1. StoreTypeOK'
    BY <1>16 DEF DiscardEvents, StoreTypeOK, FeedInv, CastInv, feedVars, shared, castVars, connVars, browserVars, history
  <2>2. FeedInv'
    BY <1>16 DEF DiscardEvents, StoreTypeOK, FeedInv, feedVars, shared, castVars, connVars, browserVars, history
  <2>3. CastInv'
    BY <1>16 DEF DiscardEvents, StoreTypeOK, FeedInv, CastInv, feedVars, shared, castVars, connVars, browserVars, history
  <2>4. ChartInv'
    BY <1>16 DEF DiscardEvents, StoreTypeOK, ChartInv, feedVars, shared, castVars, connVars, browserVars, history
  <2>5. NotOpenInv'
    BY <1>16 DEF DiscardEvents, StoreTypeOK, NotOpenInv, ToSet, feedVars, shared, castVars, connVars, browserVars, history
  <2> QED BY <2>1, <2>2, <2>3, <2>4, <2>5
<1>17. ASSUME SendCandle PROVE StoreInv'
  <2>1. StoreTypeOK'
    <3>1. outbox \in Seq(Delivery) /\ outbox # <<>> /\ broadcaster' = "sendingCandles"
      BY <1>17 DEF SendCandle, StoreTypeOK
    <3>2. outbox' \in Seq(Delivery) /\ disconnected' \subseteq Clients
      BY <1>17, <3>1, SendLemma DEF SendCandle, StoreTypeOK, Delivery
    <3> QED BY <1>17, <3>1, <3>2 DEF SendCandle, StoreTypeOK, feedVars, shared, connVars, history
  <2>2. FeedInv'
    BY <1>17 DEF SendCandle, ShowCandle, Frame, Delivery, Subscription, CandleEvent, Candle, StoreTypeOK, FeedInv, feedVars, shared, castVars, connVars, browserVars, history
  <2>3. CastInv'
    BY <1>17 DEF SendCandle, ShowCandle, Frame, Delivery, Subscription, CandleEvent, Candle, StoreTypeOK, FeedInv, CastInv, feedVars, shared, castVars, connVars, browserVars, history
  <2>4. ChartInv'
    <3>1. Head(outbox) \in Delivery
      BY <1>17, SendLemma DEF SendCandle, StoreTypeOK
    <3>2. Frame(Head(outbox)) \in Candle
      BY <3>1, FrameLemma
    <3>3. Head(outbox).ws \in Clients
      BY <3>1 DEF Delivery
    <3>4. \/ chart' = [chart EXCEPT ![Head(outbox).ws] = Frame(Head(outbox))]
          \/ chart' = chart
      BY <1>17, <3>3, ShowLemma DEF SendCandle
    <3> QED BY <3>2, <3>3, <3>4 DEF ChartInv
  <2>5. NotOpenInv'
    BY <1>17 DEF SendCandle, ShowCandle, Frame, Delivery, Subscription, CandleEvent, Candle, StoreTypeOK, NotOpenInv, ToSet, feedVars, shared, castVars, connVars, browserVars, history
  <2> QED BY <2>1, <2>2, <2>3, <2>4, <2>5
<1>18. ASSUME EndCandles PROVE StoreInv'
  <2>1. StoreTypeOK'
    <3>1. /\ active_connections' \in Seq(Clients)
          /\ candle_subscriptions' \in [Clients -> Subscription \cup {None}]
      BY <1>18, ForgetLemma DEF EndCandles, StoreTypeOK
    <3> QED BY <1>18, <3>1 DEF EndCandles, StoreTypeOK, CastInv, feedVars, shared, browserVars, history
  <2>2. FeedInv'
    BY <1>18 DEF EndCandles, StoreTypeOK, FeedInv, feedVars, shared, castVars, connVars, browserVars, history
  <2>3. CastInv'
    BY <1>18 DEF EndCandles, StoreTypeOK, FeedInv, CastInv, feedVars, shared, castVars, connVars, browserVars, history
  <2>4. ChartInv'
    BY <1>18 DEF EndCandles, StoreTypeOK, ChartInv, feedVars, shared, castVars, connVars, browserVars, history
  <2>5. NotOpenInv'
    <3>1. /\ ToSet(active_connections') = ToSet(active_connections) \ disconnected
          /\ \A c \in Clients : candle_subscriptions'[c] =
               IF c \in disconnected THEN None ELSE candle_subscriptions[c]
      BY <1>18, ForgetLemma DEF EndCandles, StoreTypeOK
    <3> QED BY <1>18, <3>1 DEF EndCandles, NotOpenInv
  <2> QED BY <2>1, <2>2, <2>3, <2>4, <2>5
<1>19. ASSUME NEW c \in Clients, Join(c) PROVE StoreInv'
  <2>1. StoreTypeOK'
    BY <1>19 DEF Join, JoinBroadcast, ShowQuotes, StoreTypeOK, FeedInv, CastInv, feedVars, shared, castVars, connVars, browserVars, history
  <2>2. FeedInv'
    BY <1>19 DEF Join, JoinBroadcast, ShowQuotes, StoreTypeOK, FeedInv, feedVars, shared, castVars, connVars, browserVars, history
  <2>3. CastInv'
    BY <1>19 DEF Join, JoinBroadcast, ShowQuotes, StoreTypeOK, FeedInv, CastInv, feedVars, shared, castVars, connVars, browserVars, history
  <2>4. ChartInv'
    BY <1>19 DEF Join, JoinBroadcast, ShowQuotes, StoreTypeOK, ChartInv, feedVars, shared, castVars, connVars, browserVars, history
  <2>5. NotOpenInv'
    BY <1>19 DEF Join, JoinBroadcast, ShowQuotes, StoreTypeOK, NotOpenInv, ToSet, feedVars, shared, castVars, connVars, browserVars, history
  <2> QED BY <2>1, <2>2, <2>3, <2>4, <2>5
<1>20. ASSUME NEW c \in Clients, JoinRaises(c) PROVE StoreInv'
  <2>1. StoreTypeOK'
    BY <1>20 DEF JoinRaises, StoreTypeOK, FeedInv, CastInv, feedVars, shared, castVars, connVars, browserVars, history
  <2>2. FeedInv'
    BY <1>20 DEF JoinRaises, StoreTypeOK, FeedInv, feedVars, shared, castVars, connVars, browserVars, history
  <2>3. CastInv'
    BY <1>20 DEF JoinRaises, StoreTypeOK, FeedInv, CastInv, feedVars, shared, castVars, connVars, browserVars, history
  <2>4. ChartInv'
    BY <1>20 DEF JoinRaises, StoreTypeOK, ChartInv, feedVars, shared, castVars, connVars, browserVars, history
  <2>5. NotOpenInv'
    BY <1>20 DEF JoinRaises, StoreTypeOK, NotOpenInv, ToSet, feedVars, shared, castVars, connVars, browserVars, history
  <2> QED BY <2>1, <2>2, <2>3, <2>4, <2>5
<1>21. ASSUME NEW c \in Clients, PeerLeaves(c) PROVE StoreInv'
  <2>1. StoreTypeOK'
    BY <1>21 DEF PeerLeaves, StoreTypeOK, FeedInv, CastInv, feedVars, shared, castVars, connVars, browserVars, history
  <2>2. FeedInv'
    BY <1>21 DEF PeerLeaves, StoreTypeOK, FeedInv, feedVars, shared, castVars, connVars, browserVars, history
  <2>3. CastInv'
    BY <1>21 DEF PeerLeaves, StoreTypeOK, FeedInv, CastInv, feedVars, shared, castVars, connVars, browserVars, history
  <2>4. ChartInv'
    BY <1>21 DEF PeerLeaves, StoreTypeOK, ChartInv, feedVars, shared, castVars, connVars, browserVars, history
  <2>5. NotOpenInv'
    BY <1>21 DEF PeerLeaves, StoreTypeOK, NotOpenInv, ToSet, feedVars, shared, castVars, connVars, browserVars, history
  <2> QED BY <2>1, <2>2, <2>3, <2>4, <2>5
<1>22. ASSUME NEW c \in Clients, Leave(c) PROVE StoreInv'
  <2>1. StoreTypeOK'
    <3>1. /\ active_connections' \in Seq(Clients)
          /\ candle_subscriptions' \in [Clients -> Subscription \cup {None}]
      BY <1>22, ForgetLemma DEF Leave, StoreTypeOK
    <3> QED BY <1>22, <3>1 DEF Leave, StoreTypeOK, feedVars, shared, castVars, browserVars, history
  <2>2. FeedInv'
    BY <1>22 DEF Leave, StoreTypeOK, FeedInv, feedVars, shared, castVars, connVars, browserVars, history
  <2>3. CastInv'
    BY <1>22 DEF Leave, StoreTypeOK, FeedInv, CastInv, feedVars, shared, castVars, connVars, browserVars, history
  <2>4. ChartInv'
    BY <1>22 DEF Leave, StoreTypeOK, ChartInv, feedVars, shared, castVars, connVars, browserVars, history
  <2>5. NotOpenInv'
    <3>1. /\ ToSet(active_connections') = ToSet(active_connections) \ {c}
          /\ \A d \in Clients : candle_subscriptions'[d] =
               IF d \in {c} THEN None ELSE candle_subscriptions[d]
      BY <1>22, ForgetLemma DEF Leave, StoreTypeOK
    <3>2. \A d \in Clients : d # c => endpoint'[d] = endpoint[d]
      BY <1>22 DEF Leave, StoreTypeOK
    <3> QED BY <3>1, <3>2 DEF NotOpenInv
  <2> QED BY <2>1, <2>2, <2>3, <2>4, <2>5
<1>23. ASSUME NEW c \in Clients, Unsubscribe(c) PROVE StoreInv'
  <2>1. StoreTypeOK'
    BY <1>23 DEF Unsubscribe, StoreTypeOK, FeedInv, CastInv, feedVars, shared, castVars, connVars, browserVars, history
  <2>2. FeedInv'
    BY <1>23 DEF Unsubscribe, StoreTypeOK, FeedInv, feedVars, shared, castVars, connVars, browserVars, history
  <2>3. CastInv'
    BY <1>23 DEF Unsubscribe, StoreTypeOK, FeedInv, CastInv, feedVars, shared, castVars, connVars, browserVars, history
  <2>4. ChartInv'
    BY <1>23 DEF Unsubscribe, StoreTypeOK, ChartInv, feedVars, shared, castVars, connVars, browserVars, history
  <2>5. NotOpenInv'
    BY <1>23 DEF Unsubscribe, StoreTypeOK, NotOpenInv, ToSet, feedVars, shared, castVars, connVars, browserVars, history
  <2> QED BY <2>1, <2>2, <2>3, <2>4, <2>5
<1>24. ASSUME NEW c \in Clients, NEW sub \in Subscription, Subscribe(c, sub) PROVE StoreInv'
  <2>1. StoreTypeOK'
    BY <1>24 DEF Subscribe, ShowCandle, Snapshot, Subscription, Candle, StoreTypeOK, FeedInv, CastInv, feedVars, shared, castVars, connVars, browserVars, history
  <2>2. FeedInv'
    BY <1>24 DEF Subscribe, ShowCandle, Snapshot, Subscription, Candle, StoreTypeOK, FeedInv, feedVars, shared, castVars, connVars, browserVars, history
  <2>3. CastInv'
    BY <1>24 DEF Subscribe, ShowCandle, Snapshot, Subscription, Candle, StoreTypeOK, FeedInv, CastInv, feedVars, shared, castVars, connVars, browserVars, history
  <2>4. ChartInv'
    <3>1. Snapshot(sub) \in Candle
      BY DEF Snapshot, Candle, Subscription, StoreTypeOK
    <3>2. chart' = [chart EXCEPT ![c] = Snapshot(sub)] \/ chart' = chart
      BY <1>24, ShowLemma DEF Subscribe
    <3> QED BY <3>1, <3>2 DEF ChartInv
  <2>5. NotOpenInv'
    BY <1>24 DEF Subscribe, ShowCandle, Snapshot, Subscription, Candle, StoreTypeOK, NotOpenInv, ToSet, feedVars, shared, castVars, connVars, browserVars, history
  <2> QED BY <2>1, <2>2, <2>3, <2>4, <2>5
<1>25. CASE UNCHANGED storeVars
  BY <1>25 DEF storeVars, feedVars, shared, castVars, connVars, browserVars, history,
       StoreTypeOK, FeedInv, CastInv, ChartInv, NotOpenInv, ToSet
<1> QED
  BY <1>1, <1>2, <1>3, <1>4, <1>5, <1>6, <1>7, <1>8, <1>9, <1>10, <1>11, <1>12,
     <1>13, <1>14, <1>15, <1>16, <1>17, <1>18, <1>19, <1>20, <1>21, <1>22, <1>23,
     <1>24, <1>25 DEF StoreNext

LEMMA StoreInvAlways == StoreSpec => []StoreInv
BY StoreInvInit, StoreInvStep, PTL DEF StoreSpec

(* The store keeps its types, and between two rounds the broadcaster holds *)
(* nothing to send and no socket to drop.                                  *)
THEOREM StoreTypeCorrect == StoreSpec => []StoreTypeOK
<1>1. StoreInv => StoreTypeOK
  BY DEF StoreInv
<1> QED BY <1>1, StoreInvAlways, PTL

(* Whoever disconnects it first, a socket whose endpoint has ended is in   *)
(* neither collection.                                                     *)
THEOREM ClosedIsForgotten == StoreSpec => []NothingLeftBehind
<1>1. StoreInv => NothingLeftBehind
  BY DEF StoreInv, NotOpenInv, NothingLeftBehind
<1> QED BY <1>1, StoreInvAlways, PTL
-----------------------------------------------------------------------------
(* The quotes on their way stay between what is shown and what is newest.  *)
LEMMA QuotesInvInit == StoreInit => QuotesInv
BY DEF StoreInit, QuotesInv, Batching

LEMMA QuotesStep ==
  ASSUME StoreInv, QuotesInv, [StoreNext]_storeVars
  PROVE  /\ QuotesInv'
         /\ \A c \in Clients, s \in Symbols : view'[c][s] >= view[c][s]
<1> DEFINE Older == \A c \in Clients, s \in Symbols : view'[c][s] >= view[c][s]
<1>0. ASSUME view' = view PROVE Older
  BY <1>0 DEF StoreInv, StoreTypeOK
<1> HIDE DEF Older
<1>1. ASSUME NEW s \in Symbols, StoreQuote(s) PROVE QuotesInv' /\ Older
  BY <1>0, <1>1 DEF StoreQuote, QuotesInv, Batching, StoreInv, StoreTypeOK, FeedInv,
       CastInv, NotOpenInv, ToSet, feedVars, shared, castVars, connVars, browserVars, history
<1>2. ASSUME MarkDirty PROVE QuotesInv' /\ Older
  BY <1>0, <1>2 DEF MarkDirty, QuotesInv, Batching, StoreInv, StoreTypeOK, FeedInv,
       CastInv, NotOpenInv, ToSet, feedVars, shared, castVars, connVars, browserVars, history
<1>3. ASSUME ProcessMessage PROVE QuotesInv' /\ Older
  BY <1>0, <1>3 DEF ProcessMessage, QuotesInv, Batching, StoreInv, StoreTypeOK, FeedInv,
       CastInv, NotOpenInv, ToSet, feedVars, shared, castVars, connVars, browserVars, history
<1>4. ASSUME QueueCandleEvent PROVE QuotesInv' /\ Older
  BY <1>0, <1>4 DEF QueueCandleEvent, QuotesInv, Batching, StoreInv, StoreTypeOK, FeedInv,
       CastInv, NotOpenInv, ToSet, feedVars, shared, castVars, connVars, browserVars, history
<1>5. ASSUME CopyDirty PROVE QuotesInv' /\ Older
  BY <1>0, <1>5 DEF CopyDirty, QuotesInv, Batching, StoreInv, StoreTypeOK, FeedInv,
       CastInv, NotOpenInv, ToSet, feedVars, shared, castVars, connVars, browserVars, history
<1>6. ASSUME NoBatch PROVE QuotesInv' /\ Older
  BY <1>0, <1>6 DEF NoBatch, QuotesInv, Batching, StoreInv, StoreTypeOK, FeedInv,
       CastInv, NotOpenInv, ToSet, feedVars, shared, castVars, connVars, browserVars, history
<1>7. ASSUME ClearDirty PROVE QuotesInv' /\ Older
  BY <1>0, <1>7 DEF ClearDirty, QuotesInv, Batching, StoreInv, StoreTypeOK, FeedInv,
       CastInv, NotOpenInv, ToSet, feedVars, shared, castVars, connVars, browserVars, history
<1>8. ASSUME ReadQuotes PROVE QuotesInv' /\ Older
  BY <1>0, <1>8 DEF ReadQuotes, QuotesInv, Batching, StoreInv, StoreTypeOK, FeedInv,
       CastInv, NotOpenInv, ToSet, feedVars, shared, castVars, connVars, browserVars, history
<1>9. ASSUME FinishBatch PROVE QuotesInv' /\ Older
  <2>1. /\ broadcaster = "screening" /\ outbox' = active_connections
        /\ message'.data = message.data
        /\ UNCHANGED <<_data, view, endpoint>>
    BY <1>9 DEF FinishBatch, StoreInv, CastInv, feedVars, connVars, browserVars, history
  <2>2. \A i \in DOMAIN active_connections :
          /\ active_connections[i] \in Clients
          /\ endpoint[active_connections[i]] # "new"
    <3>1. active_connections \in Seq(Clients)
      BY DEF StoreInv, StoreTypeOK
    <3>2. \A i \in DOMAIN active_connections :
            active_connections[i] \in Clients /\ active_connections[i] \in ToSet(active_connections)
      BY <3>1 DEF ToSet
    <3> QED BY <3>2 DEF StoreInv, NotOpenInv
  <2>3. broadcaster' = "batched"
    BY <1>9 DEF FinishBatch
  <2> QED BY <1>0, <2>1, <2>2, <2>3 DEF QuotesInv, Batching
<1>10. ASSUME RaiseWhileScreening PROVE QuotesInv' /\ Older
  BY <1>0, <1>10 DEF RaiseWhileScreening, QuotesInv, Batching, StoreInv, StoreTypeOK, FeedInv,
       CastInv, NotOpenInv, ToSet, feedVars, shared, castVars, connVars, browserVars, history
<1>11. ASSUME SendBatch PROVE QuotesInv' /\ Older
  <2> DEFINE d == Head(outbox)
             quotes == message.data
  <2>1. /\ broadcaster \in {"batched", "sending"} /\ broadcaster' = "sending"
        /\ outbox # <<>> /\ outbox' = Tail(outbox)
        /\ message' = message /\ _data' = _data /\ endpoint' = endpoint
        /\ view' = view \/ view' = [view EXCEPT ![d] =
             [s \in Symbols |-> IF s \in DOMAIN quotes THEN quotes[s] ELSE view[d][s]]]
    BY <1>11 DEF SendBatch, ShowQuotes, feedVars, connVars
  <2>2. /\ outbox \in Seq(Clients) /\ view \in [Clients -> [Symbols -> Nat]]
        /\ _data \in [Symbols -> Nat]
        /\ DOMAIN quotes \subseteq Symbols /\ \A s \in DOMAIN quotes : quotes[s] \in Nat
    BY <2>1 DEF StoreInv, StoreTypeOK, CastInv
  <2>3. /\ d \in Clients /\ d = outbox[1] /\ 1 \in DOMAIN outbox
        /\ \A i \in DOMAIN Tail(outbox) : i + 1 \in DOMAIN outbox
                                          /\ Tail(outbox)[i] = outbox[i + 1]
                                          /\ outbox[i + 1] \in Clients
    BY <2>1, <2>2
  <2>4. /\ \A c \in Clients, s \in Symbols : view[c][s] <= _data[s]
        /\ \A s \in DOMAIN quotes : quotes[s] <= _data[s]
        /\ \A i \in DOMAIN outbox : /\ endpoint[outbox[i]] # "new"
                                    /\ \A s \in DOMAIN quotes : view[outbox[i]][s] <= quotes[s]
    BY <2>1 DEF QuotesInv, Batching
  <2> HIDE DEF d, quotes
  <2>5. ASSUME NEW c \in Clients, NEW s \in Symbols
        PROVE  /\ view'[c][s] \in {view[c][s]} \cup (IF s \in DOMAIN quotes THEN {quotes[s]} ELSE {})
               /\ view'[c][s] <= _data[s] /\ view'[c][s] >= view[c][s]
    <3>1. CASE view' = view
      BY <2>2, <2>4, <3>1
    <3>2. CASE c # d
      BY <2>1, <2>2, <2>4, <3>2
    <3>3. CASE c = d /\ view' = [view EXCEPT ![d] =
             [x \in Symbols |-> IF x \in DOMAIN quotes THEN quotes[x] ELSE view[d][x]]]
      <4>1. view'[c][s] = IF s \in DOMAIN quotes THEN quotes[s] ELSE view[c][s]
        BY <2>2, <2>3, <3>3
      <4>2. s \in DOMAIN quotes => view[c][s] <= quotes[s]
        BY <2>3, <2>4, <3>3
      <4> QED BY <2>2, <2>4, <4>1, <4>2
    <3> QED BY <2>1, <3>1, <3>2, <3>3
  <2>6. ASSUME NEW c \in Clients, NEW s \in DOMAIN quotes, view[c][s] <= quotes[s]
        PROVE  view'[c][s] <= quotes[s]
    <3>1. s \in Symbols /\ quotes[s] \in Nat
      BY <2>2
    <3>2. view'[c][s] = view[c][s] \/ view'[c][s] = quotes[s]
      BY <2>5, <3>1
    <3> QED BY <2>6, <3>1, <3>2
  <2>7. \A i \in DOMAIN outbox' : /\ endpoint'[outbox'[i]] # "new"
                                  /\ \A s \in DOMAIN quotes : view'[outbox'[i]][s] <= quotes[s]
    BY <2>1, <2>3, <2>4, <2>6
  <2>8. Older
    BY <2>5 DEF Older
  <2>9. message'.data = quotes
    BY <2>1 DEF quotes
  <2> QED BY <2>1, <2>4, <2>5, <2>7, <2>8, <2>9 DEF QuotesInv, Batching
<1>12. ASSUME EndBatch PROVE QuotesInv' /\ Older
  BY <1>0, <1>12 DEF EndBatch, QuotesInv, Batching, StoreInv, StoreTypeOK, FeedInv,
       CastInv, NotOpenInv, ToSet, feedVars, shared, castVars, connVars, browserVars, history
<1>13. ASSUME CopyEvents PROVE QuotesInv' /\ Older
  BY <1>0, <1>13 DEF CopyEvents, QuotesInv, Batching, StoreInv, StoreTypeOK, FeedInv,
       CastInv, NotOpenInv, ToSet, feedVars, shared, castVars, connVars, browserVars, history
<1>14. ASSUME ClearEvents PROVE QuotesInv' /\ Older
  BY <1>0, <1>14 DEF ClearEvents, QuotesInv, Batching, StoreInv, StoreTypeOK, FeedInv,
       CastInv, NotOpenInv, ToSet, feedVars, shared, castVars, connVars, browserVars, history
<1>15. ASSUME NoCandles PROVE QuotesInv' /\ Older
  BY <1>0, <1>15 DEF NoCandles, QuotesInv, Batching, StoreInv, StoreTypeOK, FeedInv,
       CastInv, NotOpenInv, ToSet, feedVars, shared, castVars, connVars, browserVars, history
<1>16. ASSUME DiscardEvents PROVE QuotesInv' /\ Older
  BY <1>0, <1>16 DEF DiscardEvents, QuotesInv, Batching, StoreInv, StoreTypeOK, FeedInv,
       CastInv, NotOpenInv, ToSet, feedVars, shared, castVars, connVars, browserVars, history
<1>17. ASSUME SendCandle PROVE QuotesInv' /\ Older
  BY <1>0, <1>17 DEF SendCandle, QuotesInv, Batching, StoreInv, StoreTypeOK, FeedInv,
       CastInv, NotOpenInv, ToSet, feedVars, shared, castVars, connVars, browserVars, history
<1>18. ASSUME EndCandles PROVE QuotesInv' /\ Older
  BY <1>0, <1>18 DEF EndCandles, QuotesInv, Batching, StoreInv, StoreTypeOK, FeedInv,
       CastInv, NotOpenInv, ToSet, feedVars, shared, castVars, connVars, browserVars, history
<1>19. ASSUME NEW c \in Clients, Join(c) PROVE QuotesInv' /\ Older
  <2>1. /\ broadcaster' = broadcaster /\ broadcaster # "screening" /\ broadcaster # "batched"
        /\ endpoint[c] = "new" /\ endpoint' = [endpoint EXCEPT ![c] = "open"]
        /\ outbox' = outbox /\ message' = message /\ _data' = _data
        /\ view' = [view EXCEPT ![c] =
             [s \in Symbols |-> IF s \in DOMAIN _data THEN _data[s] ELSE view[c][s]]]
    BY <1>19 DEF Join, JoinBroadcast, ShowQuotes, LoopFree, feedVars
  <2>2. /\ view \in [Clients -> [Symbols -> Nat]] /\ _data \in [Symbols -> Nat]
        /\ endpoint \in [Clients -> {"new", "open", "closed"}]
        /\ broadcaster \in {"batched", "sending"} => outbox \in Seq(Clients)
    BY DEF StoreInv, StoreTypeOK
  <2>3. view'[c] = _data
    BY <2>1, <2>2
  <2>4. \A d \in Clients : d # c => view'[d] = view[d] /\ endpoint'[d] = endpoint[d]
    BY <2>1, <2>2
  <2>5. \A d \in Clients, s \in Symbols : view[d][s] <= _data[s]
    BY DEF QuotesInv
  <2>6. ASSUME NEW d \in Clients, NEW s \in Symbols
        PROVE  view'[d][s] <= _data[s] /\ view'[d][s] >= view[d][s]
    <3>1. view[d][s] \in Nat /\ _data[s] \in Nat /\ view[d][s] <= _data[s]
      BY <2>2, <2>5
    <3>2. view'[d][s] = _data[s] \/ view'[d][s] = view[d][s]
      BY <2>3, <2>4
    <3> QED BY <3>1, <3>2
  <2>7. Batching => \A i \in DOMAIN outbox : outbox[i] \in Clients /\ outbox[i] # c
    BY <2>1, <2>2 DEF QuotesInv, Batching
  <2>8. Older
    BY <2>6 DEF Older
  <2>9. Batching' <=> Batching
    BY <2>1 DEF Batching
  <2> QED BY <2>1, <2>4, <2>6, <2>7, <2>8, <2>9 DEF QuotesInv
<1>20. ASSUME NEW c \in Clients, JoinRaises(c) PROVE QuotesInv' /\ Older
  BY <1>0, <1>20 DEF JoinRaises, LoopFree, QuotesInv, Batching, StoreInv, StoreTypeOK, FeedInv,
       CastInv, NotOpenInv, ToSet, feedVars, shared, castVars, connVars, browserVars, history
<1>21. ASSUME NEW c \in Clients, PeerLeaves(c) PROVE QuotesInv' /\ Older
  BY <1>0, <1>21 DEF PeerLeaves, QuotesInv, Batching, StoreInv, StoreTypeOK, FeedInv,
       CastInv, NotOpenInv, ToSet, feedVars, shared, castVars, connVars, browserVars, history
<1>22. ASSUME NEW c \in Clients, Leave(c) PROVE QuotesInv' /\ Older
  BY <1>0, <1>22 DEF Leave, LoopFree, QuotesInv, Batching, StoreInv, StoreTypeOK, FeedInv,
       CastInv, NotOpenInv, ToSet, feedVars, shared, castVars, connVars, browserVars, history
<1>23. ASSUME NEW c \in Clients, Unsubscribe(c) PROVE QuotesInv' /\ Older
  BY <1>0, <1>23 DEF Unsubscribe, QuotesInv, Batching, StoreInv, StoreTypeOK, FeedInv,
       CastInv, NotOpenInv, ToSet, feedVars, shared, castVars, connVars, browserVars, history
<1>24. ASSUME NEW c \in Clients, NEW sub \in Subscription, Subscribe(c, sub) PROVE QuotesInv' /\ Older
  BY <1>0, <1>24 DEF Subscribe, QuotesInv, Batching, StoreInv, StoreTypeOK, FeedInv,
       CastInv, NotOpenInv, ToSet, feedVars, shared, castVars, connVars, browserVars, history
<1>25. CASE UNCHANGED storeVars
  <2>1. UNCHANGED <<view, _data, message, outbox, broadcaster, endpoint>>
    BY <1>25 DEF storeVars, feedVars, castVars, connVars, browserVars, history
  <2>2. QuotesInv'
    BY <2>1 DEF QuotesInv, Batching
  <2>3. view' = view
    BY <2>1
  <2>4. Older
    BY <1>0, <2>3
  <2> QED BY <2>2, <2>4, Zenon DEF Older
<1> QED
  BY <1>1, <1>2, <1>3, <1>4, <1>5, <1>6, <1>7, <1>8, <1>9, <1>10, <1>11, <1>12,
     <1>13, <1>14, <1>15, <1>16, <1>17, <1>18, <1>19, <1>20, <1>21, <1>22, <1>23,
     <1>24, <1>25 DEF StoreNext, Older

LEMMA QuotesInvAlways == StoreSpec => []QuotesInv
<1>1. StoreInv /\ QuotesInv /\ [StoreNext]_storeVars => QuotesInv'
  BY QuotesStep
<1> QED BY <1>1, QuotesInvInit, StoreInvAlways, PTL DEF StoreSpec

(* However slow the sends and whoever joins or leaves, no browser goes     *)
(* back to an older quote.                                                 *)
THEOREM QuotesOnlyAdvance == StoreSpec => QuotesNeverGoBack
<1>1. StoreInv /\ QuotesInv /\ [StoreNext]_storeVars
        => [\A c \in Clients, s \in Symbols : view'[c][s] >= view[c][s]]_storeVars
  BY QuotesStep
<1> QED BY <1>1, StoreInvAlways, QuotesInvAlways, PTL DEF StoreSpec, QuotesNeverGoBack
-----------------------------------------------------------------------------
(* The members of the lists of events and of deliveries.                   *)
LEMMA EventLemma ==
  ASSUME NEW events \in Seq(CandleEvent), NEW i \in DOMAIN events
  PROVE  events[i].symbol \in Symbols /\ events[i].n \in Nat
<1>1. events[i] \in CandleEvent
  OBVIOUS
<1> QED BY <1>1 DEF CandleEvent

LEMMA DeliveryLemma ==
  ASSUME NEW box \in Seq(Delivery), NEW i \in DOMAIN box
  PROVE  /\ box[i].ws \in Clients
         /\ box[i].sub.symbol \in Symbols /\ box[i].sub.resolution \in Resolutions
         /\ box[i].event.symbol \in Symbols /\ box[i].event.n \in Nat
<1>1. box[i] \in Delivery
  OBVIOUS
<1>2. box[i].ws \in Clients /\ box[i].sub \in Subscription /\ box[i].event \in CandleEvent
  BY <1>1 DEF Delivery
<1> QED BY <1>2 DEF Subscription, CandleEvent

(* What a send leaves to be sent: nothing of the delivery sent, the rest   *)
(* in its order, and all the deliveries to other clients.                  *)
Leaves(rest, position) ==
  /\ position \in [DOMAIN rest -> 2 .. Len(outbox)]
  /\ \A k \in DOMAIN rest : rest[k] = outbox[position[k]]
  /\ \A j, k \in DOMAIN rest : j < k => position[j] < position[k]
  /\ \A i \in 2 .. Len(outbox) :
       outbox[i].ws # outbox[1].ws \/ rest = Tail(outbox) =>
         \E k \in DOMAIN rest : position[k] = i
  /\ rest = Tail(outbox) \/ \A k \in DOMAIN rest : rest[k].ws # outbox[1].ws

LEMMA LeavesLemma ==
  ASSUME outbox \in Seq(Delivery), outbox # <<>>, NEW rest,
         \/ rest = Tail(outbox)
         \/ rest = Keep(outbox, {i \in DOMAIN outbox : outbox[i].ws # Head(outbox).ws})
  PROVE  \E position : Leaves(rest, position)
<1>1. CASE rest = Tail(outbox)
  <2> DEFINE position == [k \in DOMAIN rest |-> k + 1]
             m == Len(outbox)
  <2>1. m \in Nat \ {0} /\ DOMAIN outbox = 1 .. m
    OBVIOUS
  <2>2. DOMAIN rest = 1 .. (m - 1) /\ \A k \in 1 .. (m - 1) : rest[k] = outbox[k + 1]
    BY <1>1
  <2> HIDE DEF m
  <2>3. /\ position \in [DOMAIN rest -> 2 .. m]
        /\ \A k \in DOMAIN rest : position[k] = k + 1
    BY <2>1, <2>2
  <2>4. ASSUME NEW i \in 2 .. m PROVE \E k \in DOMAIN rest : position[k] = i
    <3>1. i - 1 \in DOMAIN rest
      BY <2>1, <2>2
    <3>2. position[i - 1] = i
      BY <2>1, <3>1
    <3> QED BY <3>1, <3>2
  <2> HIDE DEF position
  <2>5. Leaves(rest, position)
    BY <1>1, <2>1, <2>2, <2>3, <2>4 DEF Leaves, m
  <2> QED BY <2>5
<1>2. CASE rest = Keep(outbox, {i \in DOMAIN outbox : outbox[i].ws # Head(outbox).ws})
           /\ rest # Tail(outbox)
  <2> DEFINE at == {i \in DOMAIN outbox : outbox[i].ws # Head(outbox).ws}
             T == Delivery
  <2>1. at \in SUBSET (1 .. Len(outbox)) /\ rest = Keep(outbox, at) /\ outbox \in Seq(T)
    BY <1>2
  <2>2. /\ at \subseteq 2 .. Len(outbox) /\ Head(outbox) = outbox[1]
        /\ \A i \in 2 .. Len(outbox) : outbox[i].ws # outbox[1].ws => i \in at
        /\ \A i \in at : outbox[i].ws # outbox[1].ws
    <3>1. Len(outbox) \in Nat \ {0} /\ DOMAIN outbox = 1 .. Len(outbox) /\ Head(outbox) = outbox[1]
      OBVIOUS
    <3> QED BY <3>1
  <2> HIDE DEF at, T
  <2>3. /\ rest \in Seq(T)
        /\ \E position \in [1 .. Len(rest) -> at] :
             /\ \A k \in 1 .. Len(rest) : rest[k] = outbox[position[k]]
             /\ \A j, k \in 1 .. Len(rest) : j < k => position[j] < position[k]
             /\ \A i \in at : \E k \in 1 .. Len(rest) : position[k] = i
    BY ONLY <2>1, KeepLemma
  <2>4. DOMAIN rest = 1 .. Len(rest)
    BY <2>3
  <2>5. PICK position \in [1 .. Len(rest) -> at] :
             /\ \A k \in 1 .. Len(rest) : rest[k] = outbox[position[k]]
             /\ \A j, k \in 1 .. Len(rest) : j < k => position[j] < position[k]
             /\ \A i \in at : \E k \in 1 .. Len(rest) : position[k] = i
    BY <2>3
  <2>6. position \in [DOMAIN rest -> 2 .. Len(outbox)]
    BY <2>2, <2>4, <2>5
  <2>7. ASSUME NEW k \in 1 .. Len(rest) PROVE rest[k].ws # outbox[1].ws
    <3>1. position[k] \in at /\ rest[k] = outbox[position[k]]
      BY <2>5
    <3> QED BY <2>2, <3>1
  <2>8. Leaves(rest, position)
    BY <1>2, <2>2, <2>4, <2>5, <2>6, <2>7 DEF Leaves
  <2> QED BY <2>8
<1> QED BY <1>1, <1>2

LEMMA OrderInvInit == StoreInit => OrderInv
BY DEF StoreInit, OrderInv, InOrder, Giving, OneMinute

(* An event is in the count of its symbol before it is in the list.        *)
LEMMA ProcessLemma ==
  ASSUME StoreInv, ProcessMessage
  PROVE  Queued' = Queued
<1>1. feed.at = "marked" /\ feed.symbol \in Symbols /\ candles \in [Symbols -> Nat]
  BY DEF ProcessMessage, StoreInv, StoreTypeOK
<1>2. CASE feed.symbol \in Charted
  <2>1. /\ feed' = [feed EXCEPT !.at = "charted"]
        /\ candles' = [candles EXCEPT ![feed.symbol] = @ + 1]
    BY <1>2 DEF ProcessMessage
  <2>2. feed'.at = "charted" /\ feed'.symbol = feed.symbol
    BY <2>1 DEF StoreInv, FeedInv
  <2> QED BY <1>1, <2>1, <2>2 DEF Queued
<1>3. CASE feed.symbol \notin Charted
  <2>1. feed' = [at |-> "idle", symbol |-> None] /\ candles' = candles
    BY <1>3 DEF ProcessMessage
  <2> QED BY <1>1, <2>1 DEF Queued
<1> QED BY <1>2, <1>3

(* Steps that neither send nor queue an event nor change a chart.          *)
LEMMA OrderFrame ==
  ASSUME StoreInv, OrderInv,
         UNCHANGED <<pending_candle_events, chart>>,
         Queued' = Queued,
         broadcaster' = "candlesCopied" => broadcaster = "candlesCopied" /\ outbox' = outbox,
         Giving' => Giving /\ outbox' = outbox
  PROVE  OrderInv'
<1>1. /\ pending_candle_events \in Seq(CandleEvent)
      /\ \A i \in DOMAIN pending_candle_events : pending_candle_events[i].symbol \in Symbols
  BY EventLemma DEF StoreInv, StoreTypeOK
<1>2. InOrder(pending_candle_events)'
  BY <1>1 DEF OrderInv, InOrder
<1>3. (broadcaster = "candlesCopied" => InOrder(outbox))'
  <2> SUFFICES ASSUME broadcaster' = "candlesCopied" PROVE InOrder(outbox)'
    OBVIOUS
  <2>1. outbox' = outbox /\ InOrder(outbox) /\ outbox \in Seq(CandleEvent)
    BY DEF OrderInv, StoreInv, CastInv
  <2>2. \A i \in DOMAIN outbox : outbox[i].symbol \in Symbols
    BY <2>1, EventLemma
  <2> QED BY <2>1, <2>2 DEF InOrder
<1>4. (Giving => DeliveriesInOrder)'
  <2> SUFFICES ASSUME Giving' PROVE DeliveriesInOrder'
    OBVIOUS
  <2>1. outbox' = outbox /\ DeliveriesInOrder /\ outbox \in Seq(Delivery)
    BY DEF OrderInv, StoreInv, StoreTypeOK, Giving
  <2>2. \A i \in DOMAIN outbox : outbox[i].event.symbol \in Symbols
    BY <2>1, DeliveryLemma
  <2> QED BY <2>1, <2>2 DEF DeliveriesInOrder
<1>5. ASSUME NEW c \in Clients, OneMinute(c)', chart'[c].live PROVE ChartBehind(c)'
  <2>1. ChartBehind(c)
    BY <1>5 DEF OrderInv, OneMinute
  <2>2. chart[c].symbol \in Symbols
    BY <1>5 DEF StoreInv, ChartInv, Candle, OneMinute
  <2> QED BY <2>1, <2>2 DEF ChartBehind
<1> QED BY <1>2, <1>3, <1>4, <1>5 DEF OrderInv

LEMMA OrderStep ==
  ASSUME StoreInv, OrderInv, [StoreNext]_storeVars
  PROVE  OrderInv'
<1>1. ASSUME NEW s \in Symbols, StoreQuote(s) PROVE OrderInv'
  <2>1. /\ UNCHANGED <<pending_candle_events, chart, broadcaster, outbox>>
        /\ Queued' = Queued
    BY <1>1 DEF StoreQuote, Queued, feedVars, shared, castVars, browserVars, history
  <2> QED BY <2>1, OrderFrame DEF Giving
<1>2. ASSUME MarkDirty PROVE OrderInv'
  <2>1. /\ UNCHANGED <<pending_candle_events, chart, broadcaster, outbox>>
        /\ feed' = [feed EXCEPT !.at = "marked"] /\ feed.at = "stored" /\ candles' = candles
    BY <1>2 DEF MarkDirty, feedVars, shared, castVars, browserVars, history
  <2>2. Queued' = Queued
    BY <2>1 DEF Queued, StoreInv, FeedInv
  <2> QED BY <2>1, <2>2, OrderFrame DEF Giving
<1>3. ASSUME ProcessMessage PROVE OrderInv'
  <2>1. UNCHANGED <<pending_candle_events, chart, broadcaster, outbox>>
    BY <1>3 DEF ProcessMessage, feedVars, shared, castVars, browserVars, history
  <2> QED BY <1>3, <2>1, ProcessLemma, OrderFrame DEF Giving
<1>4. ASSUME QueueCandleEvent PROVE OrderInv'
  <2> DEFINE s == feed.symbol
             e == [symbol |-> s, n |-> candles[s]]
             pending == pending_candle_events
  <2>1. /\ feed.at = "charted" /\ s \in Symbols /\ candles[s] \in Nat /\ candles[s] > 0
        /\ feed'.at = "idle"
        /\ pending' = Append(pending, e)
        /\ UNCHANGED <<candles, chart, broadcaster, outbox>>
    BY <1>4 DEF QueueCandleEvent, feedVars, shared, castVars, browserVars, history, StoreInv,
         StoreTypeOK, FeedInv
  <2>2. /\ pending \in Seq(CandleEvent)
        /\ \A x \in Symbols : Queued[x] \in Int
        /\ \A x \in Symbols : x # s => Queued'[x] = Queued[x]
        /\ Queued'[s] = candles[s] /\ Queued[s] = candles[s] - 1
    <3>1. pending \in Seq(CandleEvent) /\ candles \in [Symbols -> Nat]
      BY DEF StoreInv, StoreTypeOK
    <3>2. \A x \in Symbols : candles[x] \in Nat /\ candles[x] - 1 \in Int
      BY <3>1
    <3>3. \A x \in Symbols : Queued[x] = IF x = s THEN candles[x] - 1 ELSE candles[x]
      BY <2>1 DEF Queued
    <3>4. \A x \in Symbols : Queued'[x] = candles[x]
      BY <2>1 DEF Queued
    <3> QED BY <2>1, <3>1, <3>2, <3>3, <3>4
  <2> DEFINE m == Len(pending)
  <2>3. /\ m \in Nat /\ DOMAIN pending = 1 .. m /\ DOMAIN pending' = 1 .. (m + 1)
        /\ \A i \in 1 .. m : /\ pending'[i] = pending[i] /\ pending[i] \in CandleEvent
                             /\ pending[i].symbol \in Symbols /\ pending[i].n \in Nat
        /\ pending'[m + 1] = e
    <3> HIDE DEF e
    <3>1. m \in Nat /\ DOMAIN pending = 1 .. m
      BY <2>2
    <3> QED BY <2>1, <2>2, <3>1, EventLemma
  <2>4. e.symbol = s /\ e.n = candles[s]
    OBVIOUS
  <2> HIDE DEF e, s, pending, m
  <2>5. \A x \in Symbols : Queued[x] \in Int /\ Queued'[x] \in Int /\ Queued[x] <= Queued'[x]
    <3> SUFFICES ASSUME NEW x \in Symbols
                 PROVE  Queued[x] \in Int /\ Queued'[x] \in Int /\ Queued[x] <= Queued'[x]
      OBVIOUS
    <3>1. CASE x = s
      BY <2>1, <2>2, <3>1
    <3>2. CASE x # s
      BY <2>2, <3>2
    <3> QED BY <3>1, <3>2
  <2>6. \A i \in 1 .. m : pending[i].n <= Queued[pending[i].symbol]
    BY <2>3 DEF OrderInv, InOrder, pending
  <2>7. InOrder(pending)'
    <3>1. \A i \in 1 .. (m + 1) : pending'[i].n <= Queued'[pending'[i].symbol]
      <4> SUFFICES ASSUME NEW i \in 1 .. (m + 1)
                   PROVE  pending'[i].n <= Queued'[pending'[i].symbol]
        OBVIOUS
      <4>1. CASE i = m + 1
        BY <2>1, <2>2, <2>3, <2>4, <4>1
      <4>2. CASE i \in 1 .. m
        <5>1. pending'[i] = pending[i] /\ pending[i].symbol \in Symbols /\ pending[i].n \in Nat
              /\ pending[i].n <= Queued[pending[i].symbol]
          BY <2>3, <2>6, <4>2
        <5> QED BY <2>5, <5>1
      <4> QED BY <2>3, <4>1, <4>2
    <3>2. \A i, j \in 1 .. (m + 1) :
            i < j /\ pending'[i].symbol = pending'[j].symbol => pending'[i].n < pending'[j].n
      <4>1. \A i, j \in 1 .. m :
            i < j /\ pending[i].symbol = pending[j].symbol => pending[i].n < pending[j].n
        BY <2>3 DEF OrderInv, InOrder, pending
      <4>2. \A i \in 1 .. m : pending[i].symbol = s => pending[i].n < candles[s]
        BY <2>1, <2>2, <2>3, <2>6
      <4>3. ASSUME NEW i \in 1 .. (m + 1), NEW j \in 1 .. (m + 1),
                   i < j, pending'[i].symbol = pending'[j].symbol
            PROVE  pending'[i].n < pending'[j].n
        <5>1. i \in 1 .. m
          BY <2>3, <4>3
        <5>2. CASE j = m + 1
          BY <2>3, <2>4, <4>2, <4>3, <5>1, <5>2
        <5>3. CASE j # m + 1
          <6>1. j \in 1 .. m
            BY <2>3, <5>3
          <6> QED BY <2>3, <4>1, <4>3, <5>1, <6>1
        <5> QED BY <5>2, <5>3
      <4> QED BY <4>3
    <3> QED BY <2>3, <3>1, <3>2 DEF InOrder
  <2>8. (broadcaster = "candlesCopied" => InOrder(outbox))'
    <3> SUFFICES ASSUME broadcaster = "candlesCopied" PROVE InOrder(outbox)'
      BY <2>1
    <3>1. outbox' = outbox /\ InOrder(outbox) /\ outbox \in Seq(CandleEvent)
      BY <2>1 DEF OrderInv, StoreInv, CastInv
    <3>2. \A i \in DOMAIN outbox : outbox[i].symbol \in Symbols /\ outbox[i].n \in Nat
      BY <3>1, EventLemma
    <3> QED BY <2>5, <3>1, <3>2 DEF InOrder
  <2>9. (Giving => DeliveriesInOrder)'
    <3> SUFFICES ASSUME Giving PROVE DeliveriesInOrder'
      BY <2>1 DEF Giving
    <3>1. outbox' = outbox /\ DeliveriesInOrder /\ outbox \in Seq(Delivery)
      BY <2>1 DEF OrderInv, StoreInv, StoreTypeOK, Giving
    <3>2. \A i \in DOMAIN outbox : outbox[i].event.symbol \in Symbols /\ outbox[i].event.n \in Nat
      BY <3>1, DeliveryLemma
    <3>3. \A i \in DOMAIN outbox : outbox[i].event.n <= Queued[outbox[i].event.symbol]
      BY <3>1 DEF DeliveriesInOrder
    <3>4. \A i \in DOMAIN outbox : outbox[i].event.n <= Queued'[outbox[i].event.symbol]
      <4> SUFFICES ASSUME NEW i \in DOMAIN outbox
                   PROVE  outbox[i].event.n <= Queued'[outbox[i].event.symbol]
        OBVIOUS
      <4> DEFINE x == outbox[i].event.symbol
      <4>1. x \in Symbols /\ outbox[i].event.n \in Nat /\ outbox[i].event.n <= Queued[x]
        BY <3>2, <3>3
      <4> HIDE DEF x
      <4>2. outbox[i].event.n <= Queued'[x]
        BY <2>5, <4>1
      <4> QED BY <4>2 DEF x
    <3>5. ASSUME NEW i \in DOMAIN outbox, NEW j \in 1 .. (m + 1),
                 outbox[i].event.symbol = pending'[j].symbol
          PROVE  outbox[i].event.n < pending'[j].n
      <4>1. CASE j = m + 1
        BY <2>1, <2>2, <2>3, <2>4, <3>2, <3>3, <3>5, <4>1
      <4>2. CASE j \in 1 .. m
        BY <2>3, <3>1, <3>5, <4>2 DEF DeliveriesInOrder, pending
      <4> QED BY <2>3, <4>1, <4>2
    <3>6. /\ \A i \in DOMAIN outbox : outbox[i].event.symbol = outbox[i].sub.symbol
          /\ \A i, j \in DOMAIN outbox : i < j /\ outbox[i].ws = outbox[j].ws =>
               outbox[i].sub = outbox[j].sub /\ outbox[i].event.n < outbox[j].event.n
      BY <3>1 DEF DeliveriesInOrder
    <3>7. \A i \in DOMAIN outbox, j \in DOMAIN pending' :
            outbox[i].event.symbol = pending'[j].symbol => outbox[i].event.n < pending'[j].n
      BY <2>3, <3>5
    <3>8. outbox' = outbox
      BY <3>1
    <3> QED BY <3>4, <3>6, <3>7, <3>8 DEF DeliveriesInOrder, pending
  <2>10. ASSUME NEW c \in Clients, OneMinute(c)', chart'[c].live PROVE ChartBehind(c)'
    <3>1. ChartBehind(c) /\ chart' = chart
      BY <2>1, <2>10 DEF OrderInv, OneMinute
    <3>2. chart[c].symbol \in Symbols /\ chart[c].n \in Nat
      BY <2>1, <2>10 DEF StoreInv, ChartInv, Candle, OneMinute
    <3>3. chart[c].n <= Queued'[chart[c].symbol]
      BY <2>5, <3>1, <3>2 DEF ChartBehind
    <3>4. ASSUME NEW j \in 1 .. (m + 1), pending'[j].symbol = chart[c].symbol
          PROVE  pending'[j].n > chart[c].n
      <4>1. CASE j = m + 1
        <5>1. chart[c].symbol = s /\ chart[c].n <= Queued[s]
          BY <2>3, <2>4, <3>1, <3>4, <4>1 DEF ChartBehind
        <5> QED BY <2>1, <2>2, <2>3, <2>4, <3>2, <4>1, <5>1
      <4>2. CASE j \in 1 .. m
        BY <2>3, <3>1, <3>4, <4>2 DEF ChartBehind, pending
      <4> QED BY <2>3, <4>1, <4>2
    <3> QED BY <2>1, <2>3, <3>1, <3>3, <3>4 DEF ChartBehind, pending, Giving
  <2> QED BY <2>7, <2>8, <2>9, <2>10 DEF OrderInv, pending
<1>5. ASSUME CopyDirty PROVE OrderInv'
  <2>1. /\ UNCHANGED <<pending_candle_events, chart, feed, candles, outbox>>
        /\ broadcaster' = "copied"
    BY <1>5 DEF CopyDirty, feedVars, shared, castVars, browserVars, history
  <2> QED BY <2>1, OrderFrame DEF Giving, Queued
<1>6. ASSUME NoBatch PROVE OrderInv'
  <2>1. /\ UNCHANGED <<pending_candle_events, chart, feed, candles, outbox>>
        /\ broadcaster' = "candles"
    BY <1>6 DEF NoBatch, feedVars, shared, castVars, browserVars, history
  <2> QED BY <2>1, OrderFrame DEF Giving, Queued
<1>7. ASSUME ClearDirty PROVE OrderInv'
  <2>1. /\ UNCHANGED <<pending_candle_events, chart, feed, candles, outbox>>
        /\ broadcaster' = "cleared"
    BY <1>7 DEF ClearDirty, feedVars, shared, castVars, browserVars, history
  <2> QED BY <2>1, OrderFrame DEF Giving, Queued
<1>8. ASSUME ReadQuotes PROVE OrderInv'
  <2>1. /\ UNCHANGED <<pending_candle_events, chart, feed, candles, outbox>>
        /\ broadcaster' = "screening"
    BY <1>8 DEF ReadQuotes, feedVars, shared, castVars, browserVars, history
  <2> QED BY <2>1, OrderFrame DEF Giving, Queued
<1>9. ASSUME FinishBatch PROVE OrderInv'
  <2>1. /\ UNCHANGED <<pending_candle_events, chart, feed, candles>>
        /\ broadcaster' = "batched"
    BY <1>9 DEF FinishBatch, feedVars, shared, castVars, browserVars, history
  <2> QED BY <2>1, OrderFrame DEF Giving, Queued
<1>10. ASSUME RaiseWhileScreening PROVE OrderInv'
  <2>1. /\ UNCHANGED <<pending_candle_events, chart, feed, candles>>
        /\ broadcaster' = "sleeping"
    BY <1>10 DEF RaiseWhileScreening, feedVars, shared, castVars, browserVars, history
  <2> QED BY <2>1, OrderFrame DEF Giving, Queued
<1>11. ASSUME SendBatch PROVE OrderInv'
  <2>1. /\ UNCHANGED <<pending_candle_events, chart, feed, candles>>
        /\ broadcaster' = "sending"
    BY <1>11 DEF SendBatch, feedVars, shared, castVars, browserVars, history
  <2> QED BY <2>1, OrderFrame DEF Giving, Queued
<1>12. ASSUME EndBatch PROVE OrderInv'
  <2>1. /\ UNCHANGED <<pending_candle_events, chart, feed, candles>>
        /\ broadcaster' = "candles"
    BY <1>12 DEF EndBatch, feedVars, shared, castVars, browserVars, history
  <2> QED BY <2>1, OrderFrame DEF Giving, Queued
<1>13. ASSUME CopyEvents PROVE OrderInv'
  <2>1. /\ UNCHANGED <<pending_candle_events, chart, feed, candles>>
        /\ broadcaster' = "candlesCopied" /\ outbox' = pending_candle_events
    BY <1>13 DEF CopyEvents, feedVars, shared, castVars, browserVars, history
  <2>2. InOrder(pending_candle_events)' /\ InOrder(outbox)'
    BY <2>1 DEF OrderInv, InOrder, Queued
  <2>3. ASSUME NEW c \in Clients, OneMinute(c)', chart'[c].live PROVE ChartBehind(c)'
    <3>1. ChartBehind(c)
      BY <2>1, <2>3 DEF OrderInv, OneMinute
    <3> QED BY <2>1, <3>1 DEF ChartBehind, Queued, Giving
  <2> QED BY <2>1, <2>2, <2>3 DEF OrderInv, Giving
<1>14. ASSUME ClearEvents PROVE OrderInv'
  <2>1. /\ broadcaster = "candlesCopied" /\ broadcaster' = "candlesBatched"
        /\ pending_candle_events' = <<>>
        /\ UNCHANGED <<chart, feed, candles>>
    BY <1>14 DEF ClearEvents, feedVars, browserVars, history
  <2>2. PICK order \in SetToSeqs(Subscribed) : outbox' = Batch(outbox, order)
    BY <1>14, Zenon DEF ClearEvents, Batch
  <2>3. outbox \in Seq(CandleEvent) /\ InOrder(outbox)
    BY <2>1 DEF OrderInv, StoreInv, CastInv
  <2> DEFINE box == Batch(outbox, order)
  <2>4. /\ box \in Seq(Delivery)
        /\ \A i \in DOMAIN box :
              /\ box[i].event.symbol = box[i].sub.symbol
              /\ box[i].sub = candle_subscriptions[box[i].ws]
              /\ \E p \in DOMAIN outbox : box[i].event = outbox[p]
        /\ \A i, j \in DOMAIN box : i < j /\ box[i].ws = box[j].ws =>
              \E p, q \in DOMAIN outbox :
                p < q /\ box[i].event = outbox[p] /\ box[j].event = outbox[q]
    BY <2>3, BatchLemma
  <2> HIDE DEF box
  <2>5. outbox' = box
    BY <2>2 DEF box
  <2>6. Queued' = Queued
    BY <2>1 DEF Queued
  <2>7. ASSUME NEW i \in DOMAIN box PROVE box[i].event.n <= Queued'[box[i].event.symbol]
    <3>1. PICK p \in DOMAIN outbox : box[i].event = outbox[p]
      BY <2>4
    <3> QED BY <2>3, <2>6, <3>1 DEF InOrder
  <2>8. ASSUME NEW i \in DOMAIN box, NEW j \in DOMAIN box, i < j, box[i].ws = box[j].ws
        PROVE  box[i].sub = box[j].sub /\ box[i].event.n < box[j].event.n
    <3>1. box[i].sub = box[j].sub /\ box[i].event.symbol = box[j].event.symbol
      BY <2>4, <2>8
    <3>2. PICK p \in DOMAIN outbox, q \in DOMAIN outbox :
            p < q /\ box[i].event = outbox[p] /\ box[j].event = outbox[q]
      BY <2>4, <2>8
    <3> QED BY <2>3, <3>1, <3>2 DEF InOrder
  <2>9. DeliveriesInOrder'
    BY <2>1, <2>4, <2>5, <2>7, <2>8 DEF DeliveriesInOrder
  <2>10. ASSUME NEW c \in Clients, OneMinute(c)', chart'[c].live PROVE ChartBehind(c)'
    <3>1. ChartBehind(c)
      BY <2>1, <2>10 DEF OrderInv, OneMinute
    <3>2. ASSUME NEW i \in DOMAIN box, box[i].event.symbol = chart[c].symbol
          PROVE  box[i].event.n > chart[c].n
      <4>1. PICK p \in DOMAIN outbox : box[i].event = outbox[p]
        BY <2>4
      <4> QED BY <2>1, <3>1, <3>2, <4>1 DEF ChartBehind
    <3> QED BY <2>1, <2>5, <2>6, <3>1, <3>2 DEF ChartBehind
  <2> QED BY <2>1, <2>9, <2>10 DEF OrderInv, InOrder
<1>15. ASSUME NoCandles PROVE OrderInv'
  <2>1. /\ UNCHANGED <<pending_candle_events, chart, feed, candles>>
        /\ broadcaster' = "noCandles"
    BY <1>15 DEF NoCandles, feedVars, shared, castVars, browserVars, history
  <2> QED BY <2>1, OrderFrame DEF Giving, Queued
<1>16. ASSUME DiscardEvents PROVE OrderInv'
  <2>1. /\ pending_candle_events' = <<>> /\ UNCHANGED <<chart, feed, candles>>
        /\ broadcaster' = "sleeping"
    BY <1>16 DEF DiscardEvents, feedVars, castVars, browserVars, history
  <2>2. ASSUME NEW c \in Clients, OneMinute(c)', chart'[c].live PROVE ChartBehind(c)'
    <3>1. ChartBehind(c)
      BY <2>1, <2>2 DEF OrderInv, OneMinute
    <3> QED BY <2>1, <3>1 DEF ChartBehind, Queued, Giving
  <2> QED BY <2>1, <2>2 DEF OrderInv, Giving, InOrder
<1>17. ASSUME SendCandle PROVE OrderInv'
  <2> DEFINE d == outbox[1]
             m == Len(outbox)
  <2>1. /\ Giving /\ Giving' /\ outbox # <<>> /\ broadcaster' # "candlesCopied"
        /\ UNCHANGED <<pending_candle_events, feed, candles>>
    BY <1>17 DEF SendCandle, Giving, feedVars, shared
  <2>2. outbox \in Seq(Delivery)
    BY <2>1 DEF StoreInv, StoreTypeOK, Giving
  <2>3. Head(outbox) = d /\ m \in Nat \ {0} /\ DOMAIN outbox = 1 .. m
    BY <2>1, <2>2
  <2>4. /\ d.ws \in Clients
        /\ d.sub.symbol \in Symbols /\ d.event.symbol \in Symbols /\ d.event.n \in Nat
    BY <2>2, <2>3, DeliveryLemma
  <2>5. chart' = chart \/ chart' = [chart EXCEPT ![d.ws] = Frame(d)]
    BY <1>17, <2>3, <2>4, ShowLemma DEF SendCandle, StoreInv
  <2>6. \/ outbox' = Tail(outbox)
        \/ outbox' = Keep(outbox, {i \in DOMAIN outbox : outbox[i].ws # Head(outbox).ws})
    BY <1>17 DEF SendCandle
  <2>7. PICK position : Leaves(outbox', position)
    BY <2>1, <2>2, <2>6, LeavesLemma
  <2> HIDE DEF d, m
  <2>8. /\ \A k \in DOMAIN outbox' :
             /\ position[k] \in DOMAIN outbox /\ position[k] \in Nat /\ 1 < position[k]
             /\ outbox'[k] = outbox[position[k]]
        /\ \A j, k \in DOMAIN outbox' : j < k => position[j] < position[k]
    <3>1. \A k \in DOMAIN outbox' : position[k] \in 2 .. m
      BY <2>7 DEF Leaves, m
    <3> QED BY <2>3, <2>7, <3>1 DEF Leaves
  <2>9. DeliveriesInOrder /\ Queued' = Queued
    BY <2>1 DEF OrderInv, Queued
  <2>10. DeliveriesInOrder'
    <3>1. \A i \in DOMAIN outbox' :
            /\ outbox'[i].event.symbol = outbox'[i].sub.symbol
            /\ outbox'[i].event.n <= Queued'[outbox'[i].event.symbol]
      BY <2>8, <2>9 DEF DeliveriesInOrder
    <3>2. \A i, j \in DOMAIN outbox' : i < j /\ outbox'[i].ws = outbox'[j].ws =>
            outbox'[i].sub = outbox'[j].sub /\ outbox'[i].event.n < outbox'[j].event.n
      BY <2>8, <2>9 DEF DeliveriesInOrder
    <3>3. \A i \in DOMAIN outbox', j \in DOMAIN pending_candle_events :
            outbox'[i].event.symbol = pending_candle_events[j].symbol =>
              outbox'[i].event.n < pending_candle_events[j].n
      BY <2>8, <2>9 DEF DeliveriesInOrder
    <3> QED BY <2>1, <3>1, <3>2, <3>3 DEF DeliveriesInOrder
  <2>11. ASSUME NEW c \in Clients, OneMinute(c)', chart'[c].live PROVE ChartBehind(c)'
    <3>1. CASE chart'[c] = chart[c]
      <4>1. ChartBehind(c)
        BY <2>11, <3>1 DEF OrderInv, OneMinute
      <4> QED BY <2>1, <2>8, <2>9, <3>1, <4>1 DEF ChartBehind
    <3>2. CASE chart'[c] # chart[c]
      <4>1. c = d.ws /\ chart'[c] = Frame(d)
        BY <2>5, <3>2 DEF StoreInv, ChartInv
      <4>2. Frame(d).resolution = d.sub.resolution /\ Frame(d).symbol = d.sub.symbol
            /\ (d.sub.resolution = "1m" => Frame(d).n = d.event.n)
        BY DEF Frame
      <4>3. chart'[c].symbol = d.event.symbol /\ chart'[c].n = d.event.n
        BY <2>3, <2>9, <2>11, <4>1, <4>2 DEF OneMinute, DeliveriesInOrder, d
      <4>4. 1 \in DOMAIN outbox
        BY <2>3
      <4>5. /\ d.event.n <= Queued[d.event.symbol]
            /\ \A i \in DOMAIN pending_candle_events :
                 pending_candle_events[i].symbol = d.event.symbol =>
                   pending_candle_events[i].n > d.event.n
        <5>1. \A i \in DOMAIN pending_candle_events : pending_candle_events[i].n \in Nat
          BY EventLemma DEF StoreInv, StoreTypeOK
        <5> QED BY <2>4, <2>9, <4>4, <5>1 DEF DeliveriesInOrder, d
      <4>6. ASSUME NEW i \in DOMAIN outbox', outbox'[i].ws = c
            PROVE  outbox'[i].event.n > d.event.n
        <5>1. /\ position[i] \in DOMAIN outbox /\ 1 < position[i]
              /\ outbox[position[i]].ws = d.ws /\ outbox'[i] = outbox[position[i]]
          BY <2>8, <4>1, <4>6
        <5>2. outbox[position[i]].event.n \in Nat
          BY <2>2, <5>1, DeliveryLemma
        <5>3. d.event.n < outbox[position[i]].event.n
          BY <2>9, <4>4, <5>1 DEF DeliveriesInOrder, d
        <5> QED BY <2>4, <5>1, <5>2, <5>3
      <4> QED BY <2>1, <2>9, <4>3, <4>5, <4>6 DEF ChartBehind
    <3> QED BY <3>1, <3>2
  <2>12. InOrder(pending_candle_events)'
    BY <2>1, <2>9 DEF OrderInv, InOrder
  <2> QED BY <2>1, <2>10, <2>11, <2>12 DEF OrderInv
<1>18. ASSUME EndCandles PROVE OrderInv'
  <2>1. /\ UNCHANGED <<pending_candle_events, chart, feed, candles>>
        /\ broadcaster' = "sleeping"
    BY <1>18 DEF EndCandles, feedVars, shared, castVars, browserVars, history
  <2> QED BY <2>1, OrderFrame DEF Giving, Queued
<1>19. ASSUME NEW c \in Clients, Join(c) PROVE OrderInv'
  <2>1. UNCHANGED <<pending_candle_events, chart, feed, candles, broadcaster, outbox>>
    BY <1>19 DEF Join, JoinBroadcast, feedVars, shared, castVars
  <2> QED BY <2>1, OrderFrame DEF Giving, Queued
<1>20. ASSUME NEW c \in Clients, JoinRaises(c) PROVE OrderInv'
  <2>1. UNCHANGED <<pending_candle_events, chart, feed, candles, broadcaster, outbox>>
    BY <1>20 DEF JoinRaises, feedVars, shared, castVars, browserVars, history
  <2> QED BY <2>1, OrderFrame DEF Giving, Queued
<1>21. ASSUME NEW c \in Clients, PeerLeaves(c) PROVE OrderInv'
  <2>1. UNCHANGED <<pending_candle_events, chart, feed, candles, broadcaster, outbox>>
    BY <1>21 DEF PeerLeaves, feedVars, shared, castVars, browserVars, history
  <2> QED BY <2>1, OrderFrame DEF Giving, Queued
<1>22. ASSUME NEW c \in Clients, Leave(c) PROVE OrderInv'
  <2>1. UNCHANGED <<pending_candle_events, chart, feed, candles, broadcaster, outbox>>
    BY <1>22 DEF Leave, feedVars, shared, castVars, browserVars, history
  <2> QED BY <2>1, OrderFrame DEF Giving, Queued
<1>23. ASSUME NEW c \in Clients, Unsubscribe(c) PROVE OrderInv'
  <2>1. UNCHANGED <<pending_candle_events, chart, feed, candles, broadcaster, outbox>>
    BY <1>23 DEF Unsubscribe, feedVars, shared, castVars, browserVars, history
  <2> QED BY <2>1, OrderFrame DEF Giving, Queued
<1>24. ASSUME NEW c \in Clients, NEW sub \in Subscription, Subscribe(c, sub) PROVE OrderInv'
  <2>1. /\ UNCHANGED <<pending_candle_events, feed, candles, broadcaster, outbox>>
        /\ \/ chart' = chart
           \/ chart' = [chart EXCEPT ![c] = Snapshot(sub)]
    BY <1>24, ShowLemma DEF StoreInv, Subscribe, feedVars, shared, castVars, browserVars, history
  <2>2. ASSUME NEW d \in Clients, OneMinute(d)', chart'[d].live
        PROVE  OneMinute(d) /\ chart[d].live /\ chart'[d] = chart[d]
    <3>1. ~Snapshot(sub).live
      BY DEF Snapshot
    <3>2. chart'[d] = chart[d]
      BY <2>1, <2>2, <3>1 DEF StoreInv, ChartInv
    <3> QED BY <2>2, <3>2 DEF OneMinute
  <2>3. ASSUME NEW d \in Clients, OneMinute(d)', chart'[d].live PROVE ChartBehind(d)'
    <3>1. ChartBehind(d) /\ chart'[d] = chart[d]
      BY <2>2, <2>3 DEF OrderInv
    <3> QED BY <2>1, <3>1 DEF ChartBehind, Giving, Queued
  <2>4. (Giving => DeliveriesInOrder)'
    BY <2>1 DEF OrderInv, Giving, DeliveriesInOrder, Queued
  <2> QED BY <2>1, <2>3, <2>4 DEF OrderInv, InOrder, Queued
<1>25. CASE UNCHANGED storeVars
  <2>1. UNCHANGED <<pending_candle_events, chart, feed, candles, broadcaster, outbox>>
    BY <1>25 DEF storeVars, feedVars, shared, castVars, browserVars, history
  <2> QED BY <2>1, OrderFrame DEF Giving, Queued
<1> QED
  BY <1>1, <1>2, <1>3, <1>4, <1>5, <1>6, <1>7, <1>8, <1>9, <1>10, <1>11, <1>12,
     <1>13, <1>14, <1>15, <1>16, <1>17, <1>18, <1>19, <1>20, <1>21, <1>22, <1>23,
     <1>24, <1>25 DEF StoreNext

LEMMA OrderInvAlways == StoreSpec => []OrderInv
<1>1. StoreInv /\ OrderInv /\ [StoreNext]_storeVars => OrderInv'
  BY OrderStep
<1> QED BY <1>1, OrderInvInit, StoreInvAlways, PTL DEF StoreSpec

(* What a live 1m chart is sent next is a later event of its symbol,       *)
(* however the feed thread and resubscriptions interleave with the sends.  *)
LEMMA CandleStep ==
  ASSUME StoreInv, OrderInv, [StoreNext]_storeVars, NEW c \in Clients,
         SendCandle, Head(outbox).ws = c, ~Raises(c),
         NextOnChart(chart[c], chart'[c]), chart[c].live,
         Head(outbox).event.symbol = chart[c].symbol
  PROVE  chart'[c].n > chart[c].n
<1> DEFINE d == outbox[1]
<1>1. /\ Giving /\ outbox # <<>> /\ outbox \in Seq(Delivery) /\ 1 \in DOMAIN outbox
      /\ ShowCandle(d.ws, Frame(d)) /\ d.ws = c /\ d.event.symbol = chart[c].symbol
  BY DEF SendCandle, Giving, StoreInv, StoreTypeOK
<1>2. chart'[c] = Frame(d)
  <2>1. Frame(d).symbol = chart[c].symbol
    BY <1>1 DEF OrderInv, DeliveriesInOrder, Frame
  <2>2. chart' = [chart EXCEPT ![c] = Frame(d)]
    BY <1>1, <2>1, ShowLemma DEF StoreInv
  <2> QED BY <2>2 DEF StoreInv, ChartInv
<1>3. d.event.symbol = d.sub.symbol /\ DeliveriesInOrder /\ OneMinute(c) /\ ChartBehind(c)
  BY <1>1, <1>2 DEF OrderInv, DeliveriesInOrder, OneMinute, NextOnChart
<1>4. chart'[c].symbol = d.event.symbol /\ chart'[c].n = d.event.n
  BY <1>2, <1>3 DEF Frame, NextOnChart
<1> QED BY <1>1, <1>2, <1>3, <1>4 DEF ChartBehind, NextOnChart

(* The events a live 1m chart shows of a symbol come in the order in which *)
(* they were queued, none twice.                                           *)
THEOREM CandlesNeverGoBack == StoreSpec => CandleEventsInOrder
<1>1. StoreInv /\ OrderInv /\ [StoreNext]_storeVars =>
        [\A c \in Clients :
           (SendCandle /\ Head(outbox).ws = c /\ ~Raises(c)
              /\ NextOnChart(chart[c], chart'[c]) /\ chart[c].live
              /\ Head(outbox).event.symbol = chart[c].symbol)
             => chart'[c].n > chart[c].n]_storeVars
  BY CandleStep
<1> QED BY <1>1, StoreInvAlways, OrderInvAlways, PTL DEF StoreSpec, CandleEventsInOrder
-----------------------------------------------------------------------------
(* Delivery: what a browser lacks is marked, about to be, or on its way.   *)
LEMMA CaughtInvInit == StoreInit => CaughtInv
BY DEF StoreInit, CaughtInv, QuotesCaughtUp, Connected, ToSet, Batching

(* Steps that leave the batch alone: the feed thread may add to what is    *)
(* coming or forgotten, and sockets may go.                                *)
LEMMA CaughtFrame ==
  ASSUME StoreTypeOK, CaughtInv,
         UNCHANGED <<drained, message, view, outbox, broadcaster>>,
         Connected' \subseteq Connected,
         \A s \in Symbols : /\ Coming(s) => Coming(s)'
                            /\ _data'[s] = _data[s] \/ Coming(s)',
         broadcaster = "copied" => dirty_symbols' \subseteq drained \cup forgotten'
  PROVE  CaughtInv'
<1>1. /\ DOMAIN message.data \subseteq drained /\ drained \subseteq Symbols
      /\ Connected \subseteq Clients
  BY DEF StoreTypeOK, Connected, ToSet
<1>2. QuotesCaughtUp'
  <2> SUFFICES ASSUME NEW c \in Connected, NEW s \in Symbols
               PROVE  view[c][s] = _data'[s] \/ Coming(s)' \/ s \in drained
    BY DEF QuotesCaughtUp, Coming
  <2>1. view[c][s] = _data[s] \/ Coming(s) \/ s \in drained
    BY DEF CaughtInv, QuotesCaughtUp, Coming
  <2> QED BY <2>1
<1>3. (broadcaster = "copied" => dirty_symbols \subseteq drained \cup forgotten)'
  OBVIOUS
<1>4. (broadcaster = "screening" \/ Batching =>
         /\ DOMAIN message.data = drained
         /\ \A s \in drained : message.data[s] = _data[s] \/ Coming(s))'
  <2> SUFFICES ASSUME broadcaster = "screening" \/ Batching
               PROVE  /\ DOMAIN message.data = drained
                      /\ \A s \in drained : message.data[s] = _data'[s] \/ Coming(s)'
    BY DEF Batching
  <2> QED BY <1>1 DEF CaughtInv
<1>5. (Batching => \A c \in Connected \ ToSet(outbox), s \in Symbols :
         view[c][s] = _data[s] \/ Coming(s))'
  <2> SUFFICES ASSUME Batching, NEW c \in Connected, c \notin ToSet(outbox), NEW s \in Symbols
               PROVE  view[c][s] = _data'[s] \/ Coming(s)'
    BY DEF Batching, ToSet
  <2>1. view[c][s] = _data[s] \/ Coming(s)
    BY DEF CaughtInv
  <2> QED BY <2>1
<1> QED BY <1>2, <1>3, <1>4, <1>5 DEF CaughtInv

LEMMA CaughtStep ==
  ASSUME StoreInv, CaughtInv, [StoreNext]_storeVars
  PROVE  CaughtInv'
<1> USE DEF StoreInv
<1>1. ASSUME NEW s \in Symbols, StoreQuote(s) PROVE CaughtInv'
  <2>1. feed.at = "idle" /\ (broadcaster = "copied" => dirty_symbols \subseteq drained \cup forgotten)
    BY <1>1 DEF StoreQuote, CaughtInv
  <2>2. \A x \in Symbols : (Coming(x) => Coming(x)') /\ (_data'[x] = _data[x] \/ Coming(x)')
    BY <1>1, <2>1 DEF StoreQuote, Coming, shared, StoreTypeOK, browserVars, history
  <2>3. /\ UNCHANGED <<drained, message, view, outbox, broadcaster, dirty_symbols, forgotten>>
        /\ Connected' = Connected
    BY <1>1 DEF StoreQuote, Connected, shared, castVars, connVars, browserVars, history
  <2> QED BY <2>1, <2>2, <2>3, CaughtFrame
<1>2. ASSUME MarkDirty PROVE CaughtInv'
  <2>1. broadcaster = "copied" => dirty_symbols' \subseteq drained \cup forgotten'
    BY <1>2 DEF MarkDirty, CaughtInv
  <2>2. \A x \in Symbols : (Coming(x) => Coming(x)') /\ (_data'[x] = _data[x] \/ Coming(x)')
    BY <1>2 DEF MarkDirty, Coming
  <2>3. UNCHANGED <<drained, message, view, outbox, broadcaster>> /\ Connected' = Connected
    BY <1>2 DEF MarkDirty, Connected, castVars, connVars, browserVars, history
  <2> QED BY <2>1, <2>2, <2>3, CaughtFrame
<1>3. ASSUME ProcessMessage PROVE CaughtInv'
  BY <1>3 DEF ProcessMessage, CaughtInv, QuotesCaughtUp, Coming, Connected, Batching,
       StoreTypeOK, FeedInv, CastInv, ToSet, feedVars, shared, castVars,
       connVars, browserVars, history
<1>4. ASSUME QueueCandleEvent PROVE CaughtInv'
  BY <1>4 DEF QueueCandleEvent, CaughtInv, QuotesCaughtUp, Coming, Connected, Batching,
       StoreTypeOK, FeedInv, CastInv, ToSet, feedVars, shared, castVars,
       connVars, browserVars, history
<1>5. ASSUME CopyDirty PROVE CaughtInv'
  <2>1. /\ broadcaster = "sleeping" /\ broadcaster' = "copied" /\ drained' = dirty_symbols
        /\ drained = {}
        /\ UNCHANGED <<_data, feed, dirty_symbols, view, gone, active_connections, forgotten>>
    BY <1>5 DEF CopyDirty, CastInv, feedVars, shared, connVars, browserVars, history
  <2>2. QuotesCaughtUp'
    BY <2>1 DEF CaughtInv, QuotesCaughtUp, Connected
  <2> QED BY <2>1, <2>2 DEF CaughtInv, Batching
<1>6. ASSUME NoBatch PROVE CaughtInv'
  BY <1>6 DEF NoBatch, CaughtInv, QuotesCaughtUp, Coming, Connected, Batching,
       StoreTypeOK, FeedInv, CastInv, ToSet, feedVars, shared, castVars,
       connVars, browserVars, history
<1>7. ASSUME ClearDirty PROVE CaughtInv'
  <2>1. /\ broadcaster = "copied" /\ broadcaster' = "cleared" /\ dirty_symbols' = {}
        /\ UNCHANGED <<_data, feed, drained, view, gone, active_connections, forgotten>>
    BY <1>7 DEF ClearDirty, feedVars, castVars, connVars, browserVars, history
  <2>2. dirty_symbols \subseteq drained \cup forgotten
    BY <2>1 DEF CaughtInv
  <2>3. QuotesCaughtUp'
    BY <2>1, <2>2 DEF CaughtInv, QuotesCaughtUp, Connected
  <2> QED BY <2>1, <2>3 DEF CaughtInv, Batching
<1>8. ASSUME ReadQuotes PROVE CaughtInv'
  BY <1>8 DEF ReadQuotes, CaughtInv, QuotesCaughtUp, Coming, Connected, Batching,
       StoreTypeOK, FeedInv, CastInv, ToSet, feedVars, shared, castVars,
       connVars, browserVars, history
<1>9. ASSUME FinishBatch PROVE CaughtInv'
  <2>1. /\ broadcaster = "screening" /\ broadcaster' = "batched"
        /\ outbox' = active_connections /\ message'.data = message.data
        /\ UNCHANGED <<_data, feed, dirty_symbols, drained, view, gone, active_connections,
                       forgotten>>
    BY <1>9 DEF FinishBatch, CastInv, feedVars, shared, connVars, browserVars, history
  <2>2. QuotesCaughtUp'
    BY <2>1 DEF CaughtInv, QuotesCaughtUp, Connected
  <2>3. /\ DOMAIN message'.data = drained
        /\ \A s \in drained : message'.data[s] = _data[s] \/ Coming(s)
    BY <2>1 DEF CaughtInv
  <2>4. (Connected \ ToSet(outbox))' = {}
    BY <2>1 DEF Connected
  <2> QED BY <2>1, <2>2, <2>3, <2>4 DEF CaughtInv, Coming
<1>10. ASSUME RaiseWhileScreening PROVE CaughtInv'
  <2>1. /\ broadcaster' = "sleeping" /\ drained' = {}
        /\ UNCHANGED <<_data, feed, dirty_symbols, view, gone, active_connections>>
        /\ forgotten' = forgotten \cup (drained \ dirty_symbols)
    BY <1>10 DEF RaiseWhileScreening, feedVars, shared, connVars
  <2>2. QuotesCaughtUp'
    BY <2>1 DEF CaughtInv, QuotesCaughtUp, Connected
  <2> QED BY <2>1, <2>2 DEF CaughtInv, Batching
<1>11. ASSUME SendBatch PROVE CaughtInv'
  <2> DEFINE d == Head(outbox)
             quotes == message.data
  <2>1. /\ Batching /\ broadcaster \in {"batched", "sending"} /\ broadcaster' = "sending"
        /\ outbox # <<>> /\ outbox' = Tail(outbox)
        /\ UNCHANGED <<message, _data, feed, dirty_symbols, drained, active_connections, gone,
                       forgotten>>
        /\ \/ Raises(d) /\ view' = view
           \/ view' = [view EXCEPT ![d] =
                [s \in Symbols |-> IF s \in DOMAIN quotes THEN quotes[s] ELSE view[d][s]]]
    BY <1>11 DEF SendBatch, ShowQuotes, Batching, feedVars, shared, connVars, history
  <2>2. /\ outbox \in Seq(Clients) /\ view \in [Clients -> [Symbols -> Nat]]
        /\ Connected \subseteq Clients /\ drained \subseteq Symbols
    BY <2>1 DEF StoreTypeOK, Connected, ToSet
  <2>3. d \in Clients /\ ToSet(outbox) \subseteq {d} \cup ToSet(Tail(outbox))
    <3>1. d \in Clients /\ d = outbox[1] /\ DOMAIN outbox = 1 .. Len(outbox) /\ Len(outbox) \in Nat
      BY <2>1, <2>2
    <3>2. \A i \in DOMAIN outbox : i # 1 => /\ i - 1 \in DOMAIN Tail(outbox)
                                            /\ Tail(outbox)[i - 1] = outbox[i]
      BY <2>1, <2>2
    <3> QED BY <3>1, <3>2 DEF ToSet
  <2>4. Connected' = Connected /\ \A s : Coming(s)' <=> Coming(s)
    BY <2>1 DEF Connected, Coming
  <2>5. /\ DOMAIN quotes = drained
        /\ \A s \in drained : quotes[s] = _data[s] \/ Coming(s)
        /\ \A c \in Connected \ ToSet(outbox), s \in Symbols : view[c][s] = _data[s] \/ Coming(s)
        /\ \A c \in Connected, s \in Symbols : view[c][s] = _data[s] \/ Coming(s) \/ s \in drained
    BY <2>1 DEF CaughtInv, QuotesCaughtUp, Coming
  <2>6. d \in Connected => ~Raises(d)
    BY <2>3 DEF Connected, Raises, NotOpenInv
  <2> HIDE DEF d, quotes
  <2>7. \A c \in Clients : c # d => view'[c] = view[c]
    BY <2>1, <2>2
  <2>8. ASSUME d \in Connected, NEW s \in Symbols
        PROVE  view'[d][s] = _data[s] \/ Coming(s)
    <3>1. view'[d][s] = IF s \in DOMAIN quotes THEN quotes[s] ELSE view[d][s]
      BY <2>1, <2>2, <2>3, <2>6, <2>8
    <3> QED BY <2>5, <2>8, <3>1
  <2>9. \A c \in Connected \ ToSet(outbox'), s \in Symbols : view'[c][s] = _data[s] \/ Coming(s)
    BY <2>1, <2>2, <2>3, <2>5, <2>7, <2>8
  <2>10. \A c \in Connected, s \in Symbols :
           view'[c][s] = _data[s] \/ Coming(s) \/ s \in drained
    BY <2>2, <2>5, <2>7, <2>8
  <2>11. QuotesCaughtUp'
    BY <2>1, <2>4, <2>10 DEF QuotesCaughtUp, Coming
  <2>12. \A s \in drained : quotes[s] = _data'[s] \/ Coming(s)'
    BY <2>1, <2>4, <2>5
  <2>13. message'.data = quotes
    BY <2>1 DEF quotes
  <2> QED BY <2>1, <2>4, <2>5, <2>9, <2>11, <2>12, <2>13 DEF CaughtInv, Batching
<1>12. ASSUME EndBatch PROVE CaughtInv'
  <2>1. /\ broadcaster = "sending" /\ broadcaster' = "candles" /\ outbox = <<>>
        /\ drained' = {} /\ UNCHANGED <<_data, feed, dirty_symbols, view, gone, forgotten>>
    BY <1>12 DEF EndBatch, feedVars, shared, browserVars, history
  <2>2. ToSet(active_connections') = ToSet(active_connections) \ disconnected
    BY <1>12, ForgetLemma DEF EndBatch, StoreTypeOK
  <2>3. Connected' \subseteq Connected /\ ToSet(outbox) = {}
    BY <2>1, <2>2 DEF Connected, ToSet
  <2>4. \A c \in Connected, s \in Symbols : view[c][s] = _data[s] \/ Coming(s)
    BY <2>1, <2>3 DEF CaughtInv, Batching
  <2>5. QuotesCaughtUp'
    BY <2>1, <2>3, <2>4 DEF QuotesCaughtUp, Coming
  <2> QED BY <2>1, <2>5 DEF CaughtInv, Batching
<1>13. ASSUME CopyEvents PROVE CaughtInv'
  BY <1>13 DEF CopyEvents, CaughtInv, QuotesCaughtUp, Coming, Connected, Batching,
       StoreTypeOK, FeedInv, CastInv, ToSet, feedVars, shared, castVars,
       connVars, browserVars, history
<1>14. ASSUME ClearEvents PROVE CaughtInv'
  BY <1>14 DEF ClearEvents, CaughtInv, QuotesCaughtUp, Coming, Connected, Batching,
       StoreTypeOK, FeedInv, CastInv, ToSet, feedVars, shared, castVars,
       connVars, browserVars, history
<1>15. ASSUME NoCandles PROVE CaughtInv'
  BY <1>15 DEF NoCandles, CaughtInv, QuotesCaughtUp, Coming, Connected, Batching,
       StoreTypeOK, FeedInv, CastInv, ToSet, feedVars, shared, castVars,
       connVars, browserVars, history
<1>16. ASSUME DiscardEvents PROVE CaughtInv'
  BY <1>16 DEF DiscardEvents, CaughtInv, QuotesCaughtUp, Coming, Connected, Batching,
       StoreTypeOK, FeedInv, CastInv, ToSet, feedVars, shared, castVars,
       connVars, browserVars, history
<1>17. ASSUME SendCandle PROVE CaughtInv'
  BY <1>17 DEF SendCandle, CaughtInv, QuotesCaughtUp, Coming, Connected, Batching,
       StoreTypeOK, FeedInv, CastInv, ToSet, feedVars, shared, castVars,
       connVars, browserVars, history
<1>18. ASSUME EndCandles PROVE CaughtInv'
  <2>1. /\ broadcaster' = "sleeping" /\ drained = {}
        /\ UNCHANGED <<_data, feed, dirty_symbols, drained, view, gone, forgotten>>
    BY <1>18 DEF EndCandles, CastInv, feedVars, shared, browserVars, history
  <2>2. ToSet(active_connections') = ToSet(active_connections) \ disconnected
    BY <1>18, ForgetLemma DEF EndCandles, StoreTypeOK
  <2>3. QuotesCaughtUp'
    BY <2>1, <2>2 DEF CaughtInv, QuotesCaughtUp, Connected
  <2> QED BY <2>1, <2>3 DEF CaughtInv, Batching
<1>19. ASSUME NEW c \in Clients, Join(c) PROVE CaughtInv'
  <2>1. /\ broadcaster' = broadcaster /\ broadcaster \notin {"screening", "copied"}
        /\ outbox' = outbox /\ message' = message
        /\ active_connections' = Append(active_connections, c)
        /\ UNCHANGED <<_data, feed, dirty_symbols, drained, gone, forgotten>>
        /\ view' = [view EXCEPT ![c] =
             [s \in Symbols |-> IF s \in DOMAIN _data THEN _data[s] ELSE view[c][s]]]
    BY <1>19 DEF Join, JoinBroadcast, ShowQuotes, LoopFree, feedVars, shared, history
  <2>2. /\ view \in [Clients -> [Symbols -> Nat]] /\ _data \in [Symbols -> Nat]
        /\ active_connections \in Seq(Clients)
    BY DEF StoreTypeOK
  <2>3. view'[c] = _data /\ \A d \in Clients : d # c => view'[d] = view[d]
    BY <2>1, <2>2
  <2>4. Connected' \subseteq Connected \cup {c} /\ Connected \subseteq Clients
    <3>1. ToSet(active_connections') \subseteq ToSet(active_connections) \cup {c}
      BY <2>1, <2>2 DEF ToSet
    <3> QED BY <2>1, <2>2, <3>1 DEF Connected, ToSet
  <2>5. QuotesCaughtUp'
    BY <2>1, <2>3, <2>4 DEF CaughtInv, QuotesCaughtUp
  <2>6. \A s : Coming(s)' <=> Coming(s)
    BY <2>1 DEF Coming
  <2>7. Batching => \A d \in Connected' \ ToSet(outbox), s \in Symbols :
                      view'[d][s] = _data[s] \/ Coming(s)
    BY <2>3, <2>4 DEF CaughtInv
  <2>8. (Batching' <=> Batching) /\ ToSet(outbox') = ToSet(outbox)
    BY <2>1 DEF Batching
  <2>9. (broadcaster = "screening" \/ Batching =>
           /\ DOMAIN message.data = drained
           /\ \A s \in drained : message.data[s] = _data[s] \/ Coming(s))'
    BY <2>1, <2>6, <2>8 DEF CaughtInv
  <2> QED BY <2>1, <2>5, <2>6, <2>7, <2>8, <2>9 DEF CaughtInv
<1>20. ASSUME NEW c \in Clients, JoinRaises(c) PROVE CaughtInv'
  <2>1. \A x \in Symbols : (Coming(x) => Coming(x)') /\ _data'[x] = _data[x]
    BY <1>20 DEF JoinRaises, Coming, feedVars, shared, browserVars, history
  <2>2. /\ UNCHANGED <<drained, message, view, outbox, broadcaster, dirty_symbols, forgotten>>
        /\ Connected' \subseteq Connected
    BY <1>20 DEF JoinRaises, Connected, feedVars, shared, castVars, browserVars, history
  <2> QED BY <2>1, <2>2, CaughtFrame DEF CaughtInv
<1>21. ASSUME NEW c \in Clients, PeerLeaves(c) PROVE CaughtInv'
  <2>1. \A x \in Symbols : (Coming(x) => Coming(x)') /\ _data'[x] = _data[x]
    BY <1>21 DEF PeerLeaves, Coming, feedVars, shared, browserVars, history
  <2>2. /\ UNCHANGED <<drained, message, view, outbox, broadcaster, dirty_symbols, forgotten>>
        /\ Connected' \subseteq Connected
    BY <1>21 DEF PeerLeaves, ShowCandle, Connected, feedVars, shared, castVars, browserVars, history
  <2> QED BY <2>1, <2>2, CaughtFrame DEF CaughtInv
<1>22. ASSUME NEW c \in Clients, Leave(c) PROVE CaughtInv'
  <2>1. \A x \in Symbols : (Coming(x) => Coming(x)') /\ _data'[x] = _data[x]
    BY <1>22 DEF Leave, Coming, feedVars, shared, browserVars, history
  <2>2. ToSet(active_connections') = ToSet(active_connections) \ {c}
    BY <1>22, ForgetLemma DEF Leave, StoreTypeOK
  <2>3. /\ UNCHANGED <<drained, message, view, outbox, broadcaster, dirty_symbols, forgotten>>
        /\ Connected' \subseteq Connected
    BY <1>22, <2>2 DEF Leave, Connected, feedVars, shared, castVars, browserVars, history
  <2> QED BY <2>1, <2>3, CaughtFrame DEF CaughtInv
<1>23. ASSUME NEW c \in Clients, Unsubscribe(c) PROVE CaughtInv'
  <2>1. \A x \in Symbols : (Coming(x) => Coming(x)') /\ _data'[x] = _data[x]
    BY <1>23 DEF Unsubscribe, Coming, feedVars, shared, browserVars, history
  <2>2. /\ UNCHANGED <<drained, message, view, outbox, broadcaster, dirty_symbols, forgotten>>
        /\ Connected' \subseteq Connected
    BY <1>23 DEF Unsubscribe, ShowCandle, Connected, feedVars, shared, castVars, browserVars, history
  <2> QED BY <2>1, <2>2, CaughtFrame DEF CaughtInv
<1>24. ASSUME NEW c \in Clients, NEW sub \in Subscription, Subscribe(c, sub) PROVE CaughtInv'
  <2>1. \A x \in Symbols : (Coming(x) => Coming(x)') /\ _data'[x] = _data[x]
    BY <1>24 DEF Subscribe, Coming, feedVars, shared, browserVars, history
  <2>2. /\ UNCHANGED <<drained, message, view, outbox, broadcaster, dirty_symbols, forgotten>>
        /\ Connected' \subseteq Connected
    BY <1>24 DEF Subscribe, ShowCandle, Connected, feedVars, shared, castVars, browserVars, history
  <2> QED BY <2>1, <2>2, CaughtFrame DEF CaughtInv
<1>25. CASE UNCHANGED storeVars
  BY <1>25 DEF storeVars, feedVars, shared, castVars, connVars, browserVars, history,
       CaughtInv, QuotesCaughtUp, Coming, Connected, Batching
<1> QED
  BY <1>1, <1>2, <1>3, <1>4, <1>5, <1>6, <1>7, <1>8, <1>9, <1>10, <1>11, <1>12,
     <1>13, <1>14, <1>15, <1>16, <1>17, <1>18, <1>19, <1>20, <1>21, <1>22, <1>23,
     <1>24, <1>25 DEF StoreNext

(* However the feed thread runs while marks are copied and cleared and the *)
(* screened dict is walked: every connected browser shows the newest quote *)
(* of every symbol, unless that quote is about to be marked, marked, on    *)
(* its way, or was forgotten in one of the two ways there are.             *)
THEOREM NoQuoteForgotten == StoreSpec => []QuotesCaughtUp
<1>1. StoreInv /\ CaughtInv /\ [StoreNext]_storeVars => CaughtInv'
  BY CaughtStep
<1>2. CaughtInv => QuotesCaughtUp
  BY DEF CaughtInv
<1> QED BY <1>1, <1>2, CaughtInvInit, StoreInvAlways, PTL DEF StoreSpec
-----------------------------------------------------------------------------
(* What the sets of events hold, and how their numbers compare.            *)
LEMMA UnsentLemma ==
  ASSUME StoreInv, NEW s \in Symbols
  PROVE  /\ Unsent[s] \subseteq Nat
         /\ \A n : n \in Unsent[s] <=>
              \E i \in DOMAIN pending_candle_events :
                pending_candle_events[i].symbol = s /\ pending_candle_events[i].n = n
<1>1. \A i \in DOMAIN pending_candle_events : pending_candle_events[i].n \in Nat
  BY EventLemma DEF StoreInv, StoreTypeOK
<1> QED BY <1>1 DEF Unsent

LEMMA CopiedLemma ==
  ASSUME StoreInv, broadcaster = "candlesCopied", NEW s \in Symbols
  PROVE  /\ outbox \in Seq(CandleEvent)
         /\ \A n : n \in Copied[s] <=>
              \E i \in DOMAIN outbox : outbox[i].symbol = s /\ outbox[i].n = n
BY DEF Copied, StoreInv, CastInv

LEMMA DueLemma ==
  ASSUME StoreInv, NEW c \in Clients, NEW s \in Symbols
  PROVE  /\ Due[c][s] \subseteq Nat
         /\ \A n : n \in Due[c][s] <=>
              Giving /\ \E i \in DueAt(c, s) : outbox[i].event.n = n
<1>1. Due[c][s] = IF Giving THEN {outbox[i].event.n : i \in DueAt(c, s)} ELSE {}
  BY DEF Due
<1>2. Giving => \A i \in DueAt(c, s) : outbox[i].event.n \in Nat
  <2> SUFFICES ASSUME Giving, NEW i \in DOMAIN outbox PROVE outbox[i].event.n \in Nat
    BY DEF DueAt
  <2>1. outbox \in Seq(Delivery)
    BY DEF StoreInv, StoreTypeOK, Giving
  <2> QED BY <2>1, DeliveryLemma
<1> QED BY <1>1, <1>2

LEMMA QueuedLemma ==
  ASSUME StoreInv, NEW s \in Symbols
  PROVE  /\ Queued[s] \in Nat /\ candles[s] \in Nat /\ Queued[s] <= candles[s]
         /\ Queued[s] = IF feed.at = "charted" /\ feed.symbol = s THEN candles[s] - 1
                        ELSE candles[s]
<1>1. candles[s] \in Nat
  BY DEF StoreInv, StoreTypeOK
<1>2. Queued[s] = IF feed.at = "charted" /\ feed.symbol = s THEN candles[s] - 1
                  ELSE candles[s]
  BY DEF Queued
<1>3. feed.at = "charted" /\ feed.symbol = s => candles[s] > 0
  BY DEF StoreInv, FeedInv
<1> QED BY <1>1, <1>2, <1>3

LEMMA DueOrderLemma ==
  ASSUME StoreInv, OrderInv, NEW c \in Clients, NEW s \in Symbols, NEW k \in Due[c][s]
  PROVE  /\ k \in Nat /\ k <= Queued[s]
         /\ \A m \in Unsent[s] : k < m
<1>1. Giving /\ DeliveriesInOrder /\ k \in Nat
  BY DueLemma DEF OrderInv
<1>2. PICK i \in DOMAIN outbox : outbox[i].event.symbol = s /\ outbox[i].event.n = k
  BY DueLemma DEF DueAt
<1>3. k <= Queued[s]
  BY <1>1, <1>2 DEF DeliveriesInOrder
<1>4. ASSUME NEW m \in Unsent[s] PROVE k < m
  <2>1. PICK j \in DOMAIN pending_candle_events :
          pending_candle_events[j].symbol = s /\ pending_candle_events[j].n = m
    BY UnsentLemma
  <2> QED BY <1>1, <1>2, <2>1 DEF DeliveriesInOrder
<1> QED BY <1>1, <1>3, <1>4

(* One event is queued: the last of its symbol.                            *)
LEMMA QueueLemma ==
  ASSUME StoreInv, QueueCandleEvent, NEW z \in Symbols, z = feed.symbol
  PROVE  /\ Queued[z] \in Nat /\ Queued'[z] = Queued[z] + 1
         /\ \A x \in Symbols : x # z => Queued'[x] = Queued[x]
         /\ Unsent'[z] = Unsent[z] \cup {Queued[z] + 1}
         /\ \A x \in Symbols : x # z => Unsent'[x] = Unsent[x]
<1> DEFINE e == [symbol |-> z, n |-> candles[z]]
           pending == pending_candle_events
           m == Len(pending)
<1>1. feed.at = "charted" /\ feed'.at = "idle" /\ candles' = candles /\ pending' = Append(pending, e)
  BY DEF QueueCandleEvent
<1>2. \A x \in Symbols : Queued'[x] = candles[x]
  BY <1>1 DEF Queued
<1>3. \A x \in Symbols : x # z => Queued[x] = candles[x]
  BY <1>1 DEF Queued
<1>4. Queued[z] \in Nat /\ Queued[z] = candles[z] - 1 /\ candles[z] \in Nat
  BY <1>1, QueuedLemma
<1>5. pending \in Seq(CandleEvent) /\ e.symbol = z /\ e.n = candles[z]
  BY DEF StoreInv, StoreTypeOK
<1> HIDE DEF e
<1>6. /\ m \in Nat /\ DOMAIN pending = 1 .. m /\ DOMAIN pending' = 1 .. (m + 1)
      /\ \A i \in 1 .. m : pending'[i] = pending[i]
      /\ pending'[m + 1] = e
  BY <1>1, <1>5
<1> HIDE DEF m, pending
<1>7. ASSUME NEW x \in Symbols
      PROVE  \A n : n \in Unsent'[x] <=> n \in Unsent[x] \/ (x = z /\ n = candles[z])
  <2>1. \A n : n \in Unsent'[x] <=>
                \E i \in 1 .. (m + 1) : pending'[i].symbol = x /\ pending'[i].n = n
    BY <1>6 DEF Unsent, pending
  <2>2. \A n : n \in Unsent[x] <=>
                \E i \in 1 .. m : pending[i].symbol = x /\ pending[i].n = n
    BY <1>6, UnsentLemma DEF pending
  <2>3. ASSUME NEW n, n \in Unsent'[x] PROVE n \in Unsent[x] \/ (x = z /\ n = candles[z])
    <3>1. PICK i \in 1 .. (m + 1) : pending'[i].symbol = x /\ pending'[i].n = n
      BY <2>1, <2>3
    <3>2. CASE i = m + 1
      BY <1>5, <1>6, <3>1, <3>2
    <3>3. CASE i \in 1 .. m
      BY <1>6, <2>2, <3>1, <3>3
    <3> QED BY <1>6, <3>2, <3>3
  <2>4. ASSUME NEW n, n \in Unsent[x] PROVE n \in Unsent'[x]
    <3>1. PICK i \in 1 .. m : pending[i].symbol = x /\ pending[i].n = n
      BY <2>2, <2>4
    <3>2. i \in 1 .. (m + 1) /\ pending'[i] = pending[i]
      BY <1>6
    <3> QED BY <2>1, <3>1, <3>2
  <2>5. x = z => candles[z] \in Unsent'[x]
    <3>1. m + 1 \in 1 .. (m + 1)
      BY <1>6
    <3> QED BY <1>5, <1>6, <2>1, <3>1
  <2> QED BY <2>3, <2>4, <2>5
<1>8. Unsent'[z] = Unsent[z] \cup {candles[z]}
  BY <1>7
<1>9. \A x \in Symbols : x # z => Unsent'[x] = Unsent[x]
  BY <1>7
<1>10. candles[z] = Queued[z] + 1
  BY <1>4
<1> QED BY <1>2, <1>3, <1>4, <1>8, <1>9, <1>10

(* The broadcaster takes all events of its copy, for the browsers that     *)
(* have subscribed to them.                                                *)
LEMMA ClearLemma ==
  ASSUME StoreInv, ClearEvents
  PROVE  /\ \A s \in Symbols : Unsent'[s] = {}
         /\ \A c \in Clients, s \in Symbols : Due'[c][s] =
              IF c \in Subscribed /\ candle_subscriptions[c] = [symbol |-> s, resolution |-> "1m"]
              THEN Copied[s] ELSE {}
<1> DEFINE events == outbox
<1>1. /\ Giving' /\ pending_candle_events' = <<>> /\ broadcaster = "candlesCopied"
      /\ events \in Seq(CandleEvent)
  BY DEF ClearEvents, Giving, StoreInv, CastInv
<1>2. \A s \in Symbols : Unsent'[s] = {}
  BY <1>1 DEF Unsent
<1>3. PICK order \in SetToSeqs(Subscribed) : outbox' = Batch(outbox, order)
  BY Zenon DEF ClearEvents, Batch
<1> DEFINE box == Batch(events, order)
<1>4. outbox' = box
  BY <1>3
<1> HIDE DEF events
<1>5. /\ \A i \in DOMAIN box :
           /\ box[i].ws \in Subscribed /\ box[i].sub = candle_subscriptions[box[i].ws]
           /\ box[i].event.symbol = box[i].sub.symbol
           /\ \E p \in DOMAIN events : box[i].event = events[p]
      /\ \A c \in Clients, p \in DOMAIN events :
           candle_subscriptions[c] # None /\ candle_subscriptions[c].symbol = events[p].symbol =>
             \E i \in DOMAIN box : box[i].ws = c /\ box[i].event = events[p]
      /\ box \in Seq(Delivery)
  BY <1>1, BatchLemma, Zenon
<1> HIDE DEF box
<1>6. ASSUME NEW c \in Clients, NEW s \in Symbols
      PROVE  Due'[c][s] =
               IF c \in Subscribed /\ candle_subscriptions[c] = [symbol |-> s, resolution |-> "1m"]
               THEN Copied[s] ELSE {}
  <2> DEFINE wanted == c \in Subscribed
                         /\ candle_subscriptions[c] = [symbol |-> s, resolution |-> "1m"]
             there == {i \in DOMAIN box : /\ box[i].ws = c /\ box[i].sub.resolution = "1m"
                                          /\ box[i].event.symbol = s}
  <2>1. Due'[c][s] = {box[i].event.n : i \in there}
    BY <1>1, <1>4 DEF Due, DueAt
  <2>2. ASSUME NEW i \in there PROVE wanted /\ box[i].event.n \in Copied[s]
    <3>1. /\ box[i].sub = candle_subscriptions[c] /\ box[i].sub.resolution = "1m"
          /\ box[i].sub.symbol = s /\ box[i].event.symbol = s
      BY <1>5
    <3>2. box[i] \in Delivery
      BY <1>5
    <3>3. box[i].sub \in Subscription
      BY <3>2 DEF Delivery
    <3>4. candle_subscriptions[c] = [symbol |-> s, resolution |-> "1m"]
      BY <3>1, <3>3 DEF Subscription
    <3>5. c \in Subscribed
      BY <1>5
    <3>6. PICK p \in DOMAIN events : box[i].event = events[p]
      BY <1>5
    <3>7. events[p].symbol = s /\ box[i].event.n = events[p].n
      BY <3>1, <3>6
    <3>8. box[i].event.n \in Copied[s]
      BY <1>1, <3>6, <3>7, CopiedLemma DEF events
    <3> QED BY <3>4, <3>5, <3>8
  <2>3. ASSUME wanted, NEW n \in Copied[s] PROVE \E i \in there : box[i].event.n = n
    <3>1. PICK p \in DOMAIN events : events[p].symbol = s /\ events[p].n = n
      BY <1>1, CopiedLemma DEF events
    <3>2. candle_subscriptions[c] # None /\ candle_subscriptions[c].symbol = s
          /\ candle_subscriptions[c].resolution = "1m"
      BY <2>3 DEF Subscribed
    <3>3. PICK i \in DOMAIN box : box[i].ws = c /\ box[i].event = events[p]
      BY <1>5, <3>1, <3>2
    <3>4. box[i].sub = candle_subscriptions[c]
      BY <1>5, <3>3
    <3> QED BY <3>1, <3>2, <3>3, <3>4
  <2> HIDE DEF there, wanted
  <2>4. CASE wanted
    <3>1. Due'[c][s] = Copied[s]
      BY <2>1, <2>2, <2>3, <2>4
    <3> QED BY <2>4, <3>1 DEF wanted
  <2>5. CASE ~wanted
    <3>1. Due'[c][s] = {}
      BY <2>1, <2>2, <2>5
    <3> QED BY <2>5, <3>1 DEF wanted
  <2> QED BY <2>4, <2>5
<1> QED BY <1>2, <1>6

LEMMA GapInvInit == StoreInit => GapInv
<1> SUFFICES ASSUME StoreInit PROVE GapInv
  OBVIOUS
<1>1. /\ pending_candle_events = <<>> /\ ~Giving /\ broadcaster = "sleeping"
      /\ \A c \in Clients : ~OneMinute(c)
  BY DEF StoreInit, Giving, OneMinute
<1>2. \A s \in Symbols : Unsent[s] = {}
  BY <1>1 DEF Unsent
<1>3. \A c \in Clients, s \in Symbols : Due[c][s] = {}
  BY <1>1 DEF Due
<1> QED BY <1>1, <1>2, <1>3 DEF GapInv, NoneMissing

(* Steps that neither send nor queue an event nor change a chart.          *)
LEMMA GapFrame ==
  ASSUME StoreInv, GapInv,
         UNCHANGED <<pending_candle_events, chart, Queued, missed>>,
         broadcaster' = "candlesCopied" => broadcaster = "candlesCopied" /\ outbox' = outbox,
         broadcaster' = "noCandles" =>
           broadcaster = "noCandles" \/ pending_candle_events = <<>> \/ Subscribed = {},
         Giving' => Giving /\ outbox' = outbox,
         Giving => outbox = <<>> \/ Giving',
         \A c \in Clients : candle_subscriptions'[c] \in {None, candle_subscriptions[c]},
         \A c \in Clients : Raises(c) => Raises(c)'
  PROVE  GapInv'
<1>1. Unsent' = Unsent
  BY DEF Unsent
<1>2. Due' = Due
  <2>1. CASE Giving /\ Giving'
    BY <2>1 DEF Due, DueAt
  <2>2. CASE ~Giving'
    <3>1. ASSUME NEW c \in Clients, NEW s \in Symbols PROVE Due[c][s] = {}
      <4>1. ~Giving \/ DueAt(c, s) = {}
        BY <2>2 DEF DueAt
      <4> QED BY <4>1 DEF Due
    <3>2. Due = [c \in Clients |-> [s \in Symbols |-> {}]]
      <4>1. Due = [c \in Clients |-> [s \in Symbols |-> Due[c][s]]]
        BY DEF Due
      <4> QED BY <3>1, <4>1
    <3>3. Due' = [c \in Clients |-> [s \in Symbols |-> {}]]
      BY <2>2 DEF Due
    <3> QED BY <3>2, <3>3
  <2> QED BY <2>1, <2>2
<1>3. (\A s \in Symbols : \A k \in Unsent[s] : k .. Queued[s] \subseteq Unsent[s])'
  BY <1>1 DEF GapInv
<1>4. (\A c \in Clients, s \in Symbols : NoneMissing(c, s))'
  BY <1>1, <1>2 DEF GapInv, NoneMissing
<1>5. Subscribed' \subseteq Subscribed
  BY DEF Subscribed
<1>6. ASSUME NEW c \in Clients, OneMinute(c)', ~Raises(c)'
      PROVE  NextIsDue(c, chart[c].symbol)'
  <2>1. NextIsDue(c, chart[c].symbol)
    BY <1>6 DEF GapInv, OneMinute
  <2>2. c \in Subscribed' => candle_subscriptions'[c] = candle_subscriptions[c]
    BY DEF Subscribed
  <2> QED BY <1>1, <1>2, <1>5, <2>1, <2>2 DEF NextIsDue
<1>7. (broadcaster = "candlesCopied" => \A s \in Symbols :
         Copied[s] \subseteq Unsent[s] /\ Unsent[s] \subseteq Copied[s] \cup missed[s])'
  BY <1>1 DEF GapInv, Copied
<1>8. (broadcaster = "noCandles" =>
         Subscribed = {} \/ \A s \in Symbols : Unsent[s] \subseteq missed[s])'
  <2>1. pending_candle_events = <<>> => \A s \in Symbols : Unsent[s] = {}
    BY DEF Unsent
  <2> QED BY <1>1, <1>5, <2>1 DEF GapInv
<1> QED BY <1>3, <1>4, <1>6, <1>7, <1>8 DEF GapInv

(* A send takes the event it sends, or all that its socket is due, out of  *)
(* what is due.                                                            *)
LEMMA TakenLemma ==
  ASSUME StoreInv, OrderInv, SendCandle, NEW d, d = outbox[1]
  PROVE  /\ Giving /\ outbox # <<>> /\ d.ws \in Clients /\ d.event.n \in Nat
         /\ d.event.symbol \in Symbols /\ d.event.symbol = d.sub.symbol
         /\ d.sub.resolution = "1m" => d.event.n \in Due[d.ws][d.event.symbol]
         /\ \A c \in Clients, s \in Symbols : c # d.ws => Due'[c][s] = Due[c][s]
         /\ \A s \in Symbols :
              /\ Due'[d.ws][s] = {} \/ Due'[d.ws][s] = Due[d.ws][s] \ {d.event.n}
              /\ ~Raises(d.ws) => Due'[d.ws][s] = Due[d.ws][s] \ {d.event.n}
              /\ \A n \in Due'[d.ws][s] : n > d.event.n
              /\ s # d.event.symbol => Due[d.ws][s] = {} /\ Due'[d.ws][s] = {}
<1> DEFINE m == Len(outbox)
<1>1. /\ Giving /\ Giving' /\ outbox # <<>> /\ outbox \in Seq(Delivery)
      /\ \/ outbox' = Tail(outbox)
         \/ outbox' = Keep(outbox, {i \in DOMAIN outbox : outbox[i].ws # Head(outbox).ws})
      /\ ~Raises(d.ws) => outbox' = Tail(outbox)
  BY DEF SendCandle, Giving, StoreInv, StoreTypeOK
<1>2. DeliveriesInOrder /\ m \in Nat \ {0} /\ DOMAIN outbox = 1 .. m /\ 1 \in DOMAIN outbox
  BY <1>1 DEF OrderInv
<1>3. /\ d.ws \in Clients /\ d.event.n \in Nat
      /\ d.event.symbol \in Symbols /\ d.event.symbol = d.sub.symbol
  BY <1>1, <1>2, DeliveryLemma DEF DeliveriesInOrder
<1>4. d.sub.resolution = "1m" => d.event.n \in Due[d.ws][d.event.symbol]
  BY <1>1, <1>2, <1>3, DueLemma DEF DueAt
<1>5. PICK position : Leaves(outbox', position)
  BY <1>1, LeavesLemma
<1> HIDE DEF m
<1>6. \A k \in DOMAIN outbox' :
        /\ position[k] \in DOMAIN outbox /\ position[k] \in Nat /\ 1 < position[k]
        /\ outbox'[k] = outbox[position[k]]
  <2>1. \A k \in DOMAIN outbox' : position[k] \in 2 .. m
    BY <1>5 DEF Leaves, m
  <2> QED BY <1>2, <1>5, <2>1 DEF Leaves
<1>7. \A i \in DOMAIN outbox :
        i # 1 /\ (outbox[i].ws # d.ws \/ outbox' = Tail(outbox)) =>
          \E k \in DOMAIN outbox' : position[k] = i
  BY <1>2, <1>5 DEF Leaves, m
<1>8. outbox' = Tail(outbox) \/ \A k \in DOMAIN outbox' : outbox'[k].ws # d.ws
  BY <1>5 DEF Leaves
<1>9. ASSUME NEW c \in Clients, NEW s \in Symbols
      PROVE  /\ \A n : n \in Due[c][s] <=> \E i \in DueAt(c, s) : outbox[i].event.n = n
             /\ \A n : n \in Due'[c][s] <=>
                  \E k \in DOMAIN outbox' :
                    /\ outbox'[k].ws = c /\ outbox'[k].sub.resolution = "1m"
                    /\ outbox'[k].event.symbol = s /\ outbox'[k].event.n = n
  BY <1>1 DEF Due, DueAt
<1>10. ASSUME NEW c \in Clients, NEW s \in Symbols, NEW n \in Due'[c][s]
       PROVE  n \in Due[c][s] /\ (c = d.ws => n > d.event.n)
  <2>1. PICK k \in DOMAIN outbox' :
          /\ outbox'[k].ws = c /\ outbox'[k].sub.resolution = "1m"
          /\ outbox'[k].event.symbol = s /\ outbox'[k].event.n = n
    BY <1>9
  <2>2. PICK i \in DOMAIN outbox : i \in Nat /\ 1 < i /\ outbox'[k] = outbox[i]
    BY <1>6
  <2>3. n \in Due[c][s]
    BY <1>9, <2>1, <2>2 DEF DueAt
  <2>4. c = d.ws => d.event.n < n
    BY <1>2, <2>1, <2>2 DEF DeliveriesInOrder
  <2>5. n \in Nat
    BY <1>1, <2>1, <2>2, DeliveryLemma
  <2> QED BY <1>3, <2>3, <2>4, <2>5
<1>11. ASSUME NEW c \in Clients, NEW s \in Symbols, NEW n \in Due[c][s],
              c # d.ws \/ (outbox' = Tail(outbox) /\ n # d.event.n)
       PROVE  n \in Due'[c][s]
  <2>1. PICK i \in DueAt(c, s) : outbox[i].event.n = n
    BY <1>9
  <2>2. i \in DOMAIN outbox /\ i # 1 /\ (outbox[i].ws # d.ws \/ outbox' = Tail(outbox))
    BY <1>11, <2>1 DEF DueAt
  <2>3. PICK k \in DOMAIN outbox' : position[k] = i
    BY <1>7, <2>2
  <2>4. outbox'[k] = outbox[i]
    BY <1>6, <2>3
  <2> QED BY <1>9, <2>1, <2>4 DEF DueAt
<1>12. \A c \in Clients, s \in Symbols : c # d.ws => Due'[c][s] = Due[c][s]
  BY <1>10, <1>11
<1>13. ASSUME NEW s \in Symbols, outbox' = Tail(outbox)
       PROVE  Due'[d.ws][s] = Due[d.ws][s] \ {d.event.n}
  <2>1. \A n \in Due'[d.ws][s] : n \in Due[d.ws][s] /\ n # d.event.n
    BY <1>3, <1>10
  <2>2. \A n \in Due[d.ws][s] : n # d.event.n => n \in Due'[d.ws][s]
    BY <1>3, <1>11, <1>13
  <2> QED BY <2>1, <2>2
<1>14. ASSUME NEW s \in Symbols, outbox' # Tail(outbox)
       PROVE  Due'[d.ws][s] = {}
  BY <1>3, <1>8, <1>9, <1>14
<1>15. ASSUME NEW s \in Symbols, s # d.event.symbol
       PROVE  Due[d.ws][s] = {} /\ Due'[d.ws][s] = {}
  <2>1. \A i \in DOMAIN outbox : outbox[i].ws = d.ws => outbox[i].event.symbol = d.event.symbol
    <3>1. \A i \in DOMAIN outbox : i # 1 => 1 < i
      BY <1>2
    <3> QED BY <1>2, <3>1 DEF DeliveriesInOrder
  <2>2. \A n : n \notin Due[d.ws][s]
    BY <1>3, <1>9, <1>15, <2>1 DEF DueAt
  <2> QED BY <1>3, <1>10, <2>2
<1> QED BY <1>1, <1>3, <1>4, <1>10, <1>12, <1>13, <1>14, <1>15

LEMMA GapSend ==
  ASSUME StoreInv, OrderInv, GapInv, SendCandle
  PROVE  GapInv'
<1>1. PICK d : d = outbox[1]
  OBVIOUS
<1>2. /\ UNCHANGED <<pending_candle_events, feed, candles, candle_subscriptions, gone, endpoint, missed>>
      /\ broadcaster' = "sendingCandles"
  BY DEF SendCandle, feedVars, shared, connVars, history
<1>3. Unsent' = Unsent /\ Queued' = Queued
  BY <1>2 DEF Unsent, Queued
<1>4. /\ Giving /\ outbox # <<>> /\ d.ws \in Clients /\ d.event.n \in Nat
      /\ d.event.symbol \in Symbols /\ d.event.symbol = d.sub.symbol
      /\ d.sub.resolution = "1m" => d.event.n \in Due[d.ws][d.event.symbol]
      /\ \A c \in Clients, s \in Symbols : c # d.ws => Due'[c][s] = Due[c][s]
      /\ \A s \in Symbols :
           /\ Due'[d.ws][s] = {} \/ Due'[d.ws][s] = Due[d.ws][s] \ {d.event.n}
           /\ ~Raises(d.ws) => Due'[d.ws][s] = Due[d.ws][s] \ {d.event.n}
           /\ \A n \in Due'[d.ws][s] : n > d.event.n
           /\ s # d.event.symbol => Due[d.ws][s] = {} /\ Due'[d.ws][s] = {}
  BY <1>1, TakenLemma
<1>5. /\ ~Raises(d.ws) => \/ chart' = [chart EXCEPT ![d.ws] = Frame(d)]
                          \/ /\ chart' = chart /\ chart[d.ws] # None
                             /\ chart[d.ws].symbol # d.event.symbol
      /\ \A c \in Clients : c # d.ws => chart'[c] = chart[c]
  <2>1. outbox \in Seq(Delivery) /\ Head(outbox) = d
    BY <1>1, <1>4 DEF StoreInv, StoreTypeOK, Giving
  <2>2. CASE ~Raises(d.ws)
    <3>1. ShowCandle(d.ws, Frame(d)) /\ Frame(d).symbol = d.event.symbol
      BY <1>4, <2>1, <2>2 DEF SendCandle, Frame
    <3> QED BY <1>4, <3>1, ShowLemma DEF StoreInv, ChartInv
  <2>3. CASE Raises(d.ws)
    BY <2>1, <2>3 DEF SendCandle
  <2> QED BY <2>2, <2>3
<1>6. ASSUME NEW c \in Clients, NEW s \in Symbols PROVE NoneMissing(c, s)'
  <2>1. NoneMissing(c, s) /\ Due[c][s] \subseteq Nat
    BY DueLemma DEF GapInv
  <2>2. CASE c # d.ws
    BY <1>2, <1>3, <1>4, <2>1, <2>2 DEF NoneMissing
  <2>3. CASE c = d.ws /\ Due'[c][s] = {}
    BY <2>3 DEF NoneMissing
  <2>4. CASE c = d.ws /\ Due'[c][s] = Due[c][s] \ {d.event.n}
    <3>1. ASSUME NEW k \in Due'[c][s], NEW i \in k .. Queued[s]
          PROVE  i \in Due'[c][s] \cup Unsent[s] \cup missed[s]
      <4>1. k \in Due[c][s] /\ k \in Nat /\ k > d.event.n
        BY <1>4, <2>1, <2>4
      <4>2. i \in Due[c][s] \cup Unsent[s] \cup missed[s] /\ i # d.event.n
        BY <1>4, <2>1, <4>1, QueuedLemma DEF NoneMissing
      <4> QED BY <2>4, <4>2
    <3> QED BY <1>2, <1>3, <3>1 DEF NoneMissing
  <2> QED BY <1>4, <2>2, <2>3, <2>4
<1>7. ASSUME NEW c \in Clients, OneMinute(c)', ~Raises(c)'
      PROVE  NextIsDue(c, chart[c].symbol)'
  <2>1. ~Raises(c)
    BY <1>2, <1>7 DEF Raises
  <2>2. CASE c # d.ws
    <3>1. chart'[c] = chart[c] /\ OneMinute(c)
      BY <1>5, <1>7, <2>2 DEF OneMinute
    <3>2. PICK x \in Symbols : x = chart[c].symbol
      BY <3>1 DEF StoreInv, ChartInv, Candle, OneMinute
    <3>3. NextIsDue(c, x) /\ Due'[c][x] = Due[c][x]
      BY <1>4, <2>1, <2>2, <3>1, <3>2 DEF GapInv
    <3> QED BY <1>2, <1>3, <3>1, <3>2, <3>3 DEF NextIsDue, Subscribed
  <2>3. CASE c = d.ws /\ chart' = chart /\ chart[c].symbol # d.event.symbol
    <3>1. OneMinute(c)
      BY <1>7, <2>3 DEF OneMinute
    <3>2. PICK x \in Symbols : x = chart[c].symbol
      BY <3>1 DEF StoreInv, ChartInv, Candle, OneMinute
    <3>3. NextIsDue(c, x)
      BY <2>1, <3>1, <3>2 DEF GapInv
    <3>4. Due'[c][x] = Due[c][x]
      BY <1>4, <2>3, <3>2
    <3>5. chart'[c] = chart[c]
      BY <2>3
    <3> QED BY <1>2, <1>3, <3>2, <3>3, <3>4, <3>5 DEF NextIsDue, Subscribed
  <2>4. CASE c = d.ws /\ chart' = [chart EXCEPT ![d.ws] = Frame(d)]
    <3>1. chart'[c] = Frame(d)
      BY <2>4 DEF StoreInv, ChartInv
    <3>2. PICK x \in Symbols : x = d.event.symbol
      BY <1>4
    <3>3. PICK n \in Nat : n = d.event.n
      BY <1>4
    <3>4. /\ d.sub.resolution = "1m"
          /\ chart'[c].symbol = x /\ chart'[c].n = n
      BY <1>4, <1>7, <3>1, <3>2, <3>3 DEF Frame, OneMinute
    <3>5. n \in Due[c][x] /\ Due'[c][x] = Due[c][x] \ {n}
      BY <1>4, <2>1, <2>4, <3>2, <3>3, <3>4
    <3>6. n .. Queued[x] \subseteq Due[c][x] \cup Unsent[x] \cup missed[x]
      BY <3>5 DEF GapInv, NoneMissing
    <3>7. (n + 1) .. Queued[x] \subseteq Due'[c][x] \cup Unsent[x] \cup missed[x]
      BY <3>5, <3>6, QueuedLemma
    <3>8. ASSUME NEW k \in Due'[c][x], NEW i \in (n + 1) .. k
          PROVE  i \in Due'[c][x] \cup missed[x]
      <4>1. k \in Nat /\ k <= Queued[x] /\ \A j \in Unsent[x] : k < j
        BY <3>5, DueOrderLemma
      <4>2. i \in (n + 1) .. Queued[x] /\ i \in Nat /\ ~(k < i)
        BY <4>1, QueuedLemma
      <4> QED BY <3>7, <4>1, <4>2
    <3> QED BY <1>2, <1>3, <3>4, <3>7, <3>8 DEF NextIsDue
  <2> QED BY <1>5, <2>1, <2>2, <2>3, <2>4
<1> QED BY <1>2, <1>3, <1>6, <1>7 DEF GapInv

LEMMA GapStep ==
  ASSUME StoreInv, OrderInv, GapInv, [StoreNext]_storeVars
  PROVE  GapInv'
<1> DEFINE Same == UNCHANGED <<pending_candle_events, chart, candle_subscriptions, gone, endpoint,
                              missed>>
<1>1. ASSUME NEW s \in Symbols, StoreQuote(s) PROVE GapInv'
  <2>1. Same /\ UNCHANGED <<broadcaster, outbox>> /\ Queued' = Queued
    BY <1>1 DEF StoreQuote, Queued, feedVars, shared, castVars, connVars, browserVars, history
  <2> QED BY <2>1, GapFrame DEF Giving, Raises
<1>2. ASSUME MarkDirty PROVE GapInv'
  <2>1. Same /\ UNCHANGED <<broadcaster, outbox>> /\ candles' = candles
        /\ feed' = [feed EXCEPT !.at = "marked"] /\ feed.at = "stored"
    BY <1>2 DEF MarkDirty, feedVars, shared, castVars, connVars, browserVars, history
  <2>2. Queued' = Queued
    BY <2>1 DEF Queued, StoreInv, FeedInv
  <2> QED BY <2>1, <2>2, GapFrame DEF Giving, Raises
<1>3. ASSUME ProcessMessage PROVE GapInv'
  <2>1. Same /\ UNCHANGED <<broadcaster, outbox>>
    BY <1>3 DEF ProcessMessage, feedVars, shared, castVars, connVars, browserVars, history
  <2>2. Queued' = Queued
    BY <1>3, ProcessLemma
  <2> QED BY <2>1, <2>2, GapFrame DEF Giving, Raises
<1>4. ASSUME QueueCandleEvent PROVE GapInv'
  <2>1. UNCHANGED <<broadcaster, outbox, chart, candle_subscriptions, gone, endpoint>>
    BY <1>4 DEF QueueCandleEvent, feedVars, castVars, connVars
  <2>2. Due' = Due
    BY <2>1 DEF Due, DueAt, Giving
  <2>3. PICK z \in Symbols : z = feed.symbol
    BY <1>4 DEF QueueCandleEvent, StoreInv, StoreTypeOK
  <2>4. /\ Queued[z] \in Nat /\ Queued'[z] = Queued[z] + 1
        /\ \A x \in Symbols : x # z => Queued'[x] = Queued[x]
        /\ Unsent'[z] = Unsent[z] \cup {Queued[z] + 1}
        /\ \A x \in Symbols : x # z => Unsent'[x] = Unsent[x]
    BY <1>4, <2>3, QueueLemma
  <2>5. ASSUME NEW x \in Symbols, NEW k \in Int, NEW S,
               \A m \in k .. Queued[x] : m \in S \cup Unsent[x]
        PROVE  \A m \in k .. Queued'[x] : m \in S \cup Unsent'[x]
    <3>1. CASE x = z
      <4> SUFFICES ASSUME NEW m \in k .. Queued'[x] PROVE m \in S \cup Unsent'[x]
        OBVIOUS
      <4>1. m = Queued[z] + 1 \/ m \in k .. Queued[x]
        BY <2>4, <3>1
      <4> QED BY <2>4, <2>5, <3>1, <4>1
    <3>2. CASE x # z
      BY <2>4, <2>5, <3>2
    <3> QED BY <3>1, <3>2
  <2>6. /\ \A x \in Symbols : missed[x] \subseteq missed'[x]
        /\ broadcaster \in {"candlesCopied", "noCandles"} => Queued[z] + 1 \in missed'[z]
    <3>1. missed \in [Symbols -> SUBSET Nat] /\ feed.at = "charted"
      BY <1>4 DEF QueueCandleEvent, StoreInv, StoreTypeOK
    <3>2. Queued[z] + 1 = candles[z]
      BY <2>3, <2>4, <3>1, QueuedLemma
    <3> QED BY <1>4, <2>3, <3>1, <3>2 DEF QueueCandleEvent
  <2>7. ASSUME NEW x \in Symbols, NEW k \in Unsent'[x]
        PROVE  k .. Queued'[x] \subseteq Unsent'[x]
    <3>1. CASE k \in Unsent[x]
      <4>1. k \in Int
        BY <3>1, UnsentLemma
      <4>2. \A m \in k .. Queued[x] : m \in {} \cup Unsent[x]
        BY <3>1 DEF GapInv
      <4> QED BY <2>5, <4>1, <4>2
    <3>2. CASE k \notin Unsent[x]
      <4>1. x = z /\ k = Queued[z] + 1
        BY <2>4, <2>7, <3>2
      <4> QED BY <2>4, <2>7, <4>1
    <3> QED BY <3>1, <3>2
  <2>8. ASSUME NEW c \in Clients, NEW x \in Symbols PROVE NoneMissing(c, x)'
    <3>1. ASSUME NEW k \in Due[c][x] 
          PROVE  k .. Queued'[x] \subseteq Due[c][x] \cup Unsent'[x] \cup missed'[x]
      <4>1. k \in Int
        BY DueLemma
      <4>2. \A m \in k .. Queued[x] : m \in (Due[c][x] \cup missed[x]) \cup Unsent[x]
        BY DEF GapInv, NoneMissing
      <4>3. \A m \in k .. Queued'[x] : m \in (Due[c][x] \cup missed[x]) \cup Unsent'[x]
        BY <2>5, <4>1, <4>2
      <4> QED BY <2>6, <4>3
    <3> QED BY <2>2, <3>1 DEF NoneMissing
  <2>9. ASSUME NEW c \in Clients, OneMinute(c)', ~Raises(c)'
        PROVE  NextIsDue(c, chart[c].symbol)'
    <3>1. PICK x \in Symbols : x = chart[c].symbol /\ chart[c].n \in Nat
      BY <2>1, <2>9 DEF StoreInv, ChartInv, Candle, OneMinute
    <3>2. NextIsDue(c, x)
      BY <2>1, <2>9, <3>1 DEF GapInv, OneMinute, Raises
    <3>3. ASSUME c \in Subscribed, candle_subscriptions[c] = [symbol |-> x, resolution |-> "1m"]
          PROVE  (chart[c].n + 1) .. Queued'[x]
                   \subseteq Due[c][x] \cup Unsent'[x] \cup missed'[x]
      <4>1. \A m \in (chart[c].n + 1) .. Queued[x] :
              m \in (Due[c][x] \cup missed[x]) \cup Unsent[x]
        BY <3>2, <3>3 DEF NextIsDue
      <4>2. chart[c].n + 1 \in Int
        BY <3>1
      <4>3. \A m \in (chart[c].n + 1) .. Queued'[x] :
              m \in (Due[c][x] \cup missed[x]) \cup Unsent'[x]
        BY <2>5, <4>1, <4>2
      <4> QED BY <2>6, <4>3
    <3> QED BY <2>1, <2>2, <2>6, <3>1, <3>2, <3>3 DEF NextIsDue, Subscribed
  <2>10. (broadcaster = "candlesCopied" => \A x \in Symbols :
            Copied[x] \subseteq Unsent[x] /\ Unsent[x] \subseteq Copied[x] \cup missed[x])'
    <3>1. Copied' = Copied
      BY <2>1 DEF Copied
    <3> QED BY <2>1, <2>4, <2>6, <3>1 DEF GapInv
  <2>11. (broadcaster = "noCandles" =>
            Subscribed = {} \/ \A x \in Symbols : Unsent[x] \subseteq missed[x])'
    <3>1. Subscribed' = Subscribed
      BY <2>1 DEF Subscribed
    <3> QED BY <2>1, <2>4, <2>6, <3>1 DEF GapInv
  <2> QED BY <2>7, <2>8, <2>9, <2>10, <2>11 DEF GapInv
<1>5. ASSUME CopyDirty PROVE GapInv'
  <2>1. Same /\ UNCHANGED <<feed, candles>> /\ broadcaster = "sleeping" /\ broadcaster' = "copied"
    BY <1>5 DEF CopyDirty, feedVars, shared, connVars, browserVars, history
  <2> QED BY <2>1, GapFrame DEF Giving, Raises, Queued
<1>6. ASSUME NoBatch PROVE GapInv'
  <2>1. Same /\ UNCHANGED <<feed, candles>> /\ broadcaster = "sleeping" /\ broadcaster' = "candles"
    BY <1>6 DEF NoBatch, feedVars, shared, connVars, browserVars, history
  <2> QED BY <2>1, GapFrame DEF Giving, Raises, Queued
<1>7. ASSUME ClearDirty PROVE GapInv'
  <2>1. Same /\ UNCHANGED <<feed, candles>> /\ broadcaster = "copied" /\ broadcaster' = "cleared"
    BY <1>7 DEF ClearDirty, feedVars, shared, connVars, browserVars, history
  <2> QED BY <2>1, GapFrame DEF Giving, Raises, Queued
<1>8. ASSUME ReadQuotes PROVE GapInv'
  <2>1. Same /\ UNCHANGED <<feed, candles>> /\ broadcaster = "cleared"
        /\ broadcaster' = "screening"
    BY <1>8 DEF ReadQuotes, feedVars, shared, connVars, browserVars, history
  <2> QED BY <2>1, GapFrame DEF Giving, Raises, Queued
<1>9. ASSUME FinishBatch PROVE GapInv'
  <2>1. Same /\ UNCHANGED <<feed, candles>> /\ broadcaster = "screening"
        /\ broadcaster' = "batched"
    BY <1>9 DEF FinishBatch, feedVars, shared, connVars, browserVars, history
  <2> QED BY <2>1, GapFrame DEF Giving, Raises, Queued
<1>10. ASSUME RaiseWhileScreening PROVE GapInv'
  <2>1. Same /\ UNCHANGED <<feed, candles>> /\ broadcaster = "screening"
        /\ broadcaster' = "sleeping"
    BY <1>10 DEF RaiseWhileScreening, feedVars, shared, connVars, browserVars, history
  <2> QED BY <2>1, GapFrame DEF Giving, Raises, Queued
<1>11. ASSUME SendBatch PROVE GapInv'
  <2>1. Same /\ UNCHANGED <<feed, candles>> /\ broadcaster \in {"batched", "sending"}
        /\ broadcaster' = "sending"
    BY <1>11 DEF SendBatch, feedVars, shared, connVars, browserVars, history
  <2> QED BY <2>1, GapFrame DEF Giving, Raises, Queued
<1>12. ASSUME EndBatch PROVE GapInv'
  <2>1. /\ UNCHANGED <<pending_candle_events, chart, feed, candles, endpoint, gone, missed>>
        /\ broadcaster = "sending" /\ broadcaster' = "candles"
        /\ \A c \in Clients : candle_subscriptions'[c] \in {None, candle_subscriptions[c]}
    BY <1>12 DEF EndBatch, Forget, feedVars, shared, browserVars, history
  <2> QED BY <2>1, GapFrame DEF Giving, Raises, Queued
<1>13. ASSUME CopyEvents PROVE GapInv'
  <2>1. Same /\ UNCHANGED <<feed, candles>> /\ broadcaster = "candles"
        /\ broadcaster' = "candlesCopied" /\ outbox' = pending_candle_events
    BY <1>13 DEF CopyEvents, feedVars, shared, connVars, browserVars, history
  <2>2. Due' = Due /\ Unsent' = Unsent /\ Queued' = Queued
    BY <2>1 DEF Due, Unsent, Queued, Giving
  <2>3. (\A c \in Clients, s \in Symbols : NoneMissing(c, s))'
    BY <2>1, <2>2 DEF GapInv, NoneMissing
  <2>4. ASSUME NEW c \in Clients, OneMinute(c)', ~Raises(c)'
        PROVE  NextIsDue(c, chart[c].symbol)'
    <3>1. NextIsDue(c, chart[c].symbol)
      BY <2>1, <2>4 DEF GapInv, OneMinute, Raises
    <3> QED BY <2>1, <2>2, <3>1 DEF NextIsDue, Subscribed
  <2>5. \A s \in Symbols : Copied'[s] = Unsent[s]
    BY <2>1 DEF Copied, Unsent
  <2> QED BY <2>1, <2>2, <2>3, <2>4, <2>5 DEF GapInv
<1>14. ASSUME ClearEvents PROVE GapInv'
  <2>1. /\ broadcaster = "candlesCopied" /\ broadcaster' = "candlesBatched"
        /\ UNCHANGED <<chart, feed, candles, candle_subscriptions, gone, endpoint, missed>>
    BY <1>14 DEF ClearEvents, feedVars, connVars, browserVars, history
  <2>2. Queued' = Queued
    BY <2>1 DEF Queued
  <2>3. /\ \A s \in Symbols : Unsent'[s] = {}
        /\ \A c \in Clients, s \in Symbols : Due'[c][s] =
             IF c \in Subscribed /\ candle_subscriptions[c] = [symbol |-> s, resolution |-> "1m"]
             THEN Copied[s] ELSE {}
        /\ \A s \in Symbols :
             Copied[s] \subseteq Unsent[s] /\ Unsent[s] \subseteq Copied[s] \cup missed[s]
    BY <1>14, <2>1, ClearLemma DEF GapInv
  <2>4. ASSUME NEW c \in Clients, NEW s \in Symbols PROVE NoneMissing(c, s)'
    BY <2>1, <2>2, <2>3 DEF GapInv, NoneMissing
  <2>5. ASSUME NEW c \in Clients, OneMinute(c)', ~Raises(c)'
        PROVE  NextIsDue(c, chart[c].symbol)'
    <3>1. PICK x \in Symbols : x = chart[c].symbol /\ chart[c].n \in Nat
      BY <2>1, <2>5 DEF StoreInv, ChartInv, Candle, OneMinute
    <3>2. NextIsDue(c, x) /\ Due[c][x] = {}
      BY <2>1, <2>5, <3>1 DEF GapInv, OneMinute, Raises, Due, Giving
    <3>3. CASE c \in Subscribed /\ candle_subscriptions[c] = [symbol |-> x, resolution |-> "1m"]
      <4>1. (chart[c].n + 1) .. Queued[x] \subseteq Copied[x] \cup missed[x]
        BY <2>3, <3>2, <3>3 DEF NextIsDue
      <4>2. ASSUME NEW k \in Unsent[x] PROVE k \in Nat /\ k <= Queued[x]
        <5>1. k \in Nat /\ \E i \in DOMAIN pending_candle_events :
                pending_candle_events[i].symbol = x /\ pending_candle_events[i].n = k
          BY UnsentLemma
        <5> QED BY <5>1 DEF OrderInv, InOrder
      <4>3. ASSUME NEW k \in Copied[x]
            PROVE  (chart[c].n + 1) .. k \subseteq Copied[x] \cup missed[x]
        BY <2>3, <3>1, <4>1, <4>2, QueuedLemma
      <4>4. Due'[c][x] = Copied[x]
        BY <2>3, <3>3
      <4> QED BY <2>1, <2>2, <3>1, <4>1, <4>3, <4>4 DEF NextIsDue
    <3>4. CASE ~(c \in Subscribed
                 /\ candle_subscriptions[c] = [symbol |-> x, resolution |-> "1m"])
      <4>1. Due'[c][x] = {}
        BY <2>3, <3>4
      <4> QED BY <2>1, <3>1, <3>4, <4>1 DEF NextIsDue, Subscribed
    <3> QED BY <3>3, <3>4
  <2> QED BY <2>1, <2>3, <2>4, <2>5 DEF GapInv
<1>15. ASSUME NoCandles PROVE GapInv'
  <2>1. Same /\ UNCHANGED <<feed, candles>> /\ broadcaster = "candles"
        /\ broadcaster' = "noCandles" /\ (pending_candle_events = <<>> \/ Subscribed = {})
    BY <1>15 DEF NoCandles, feedVars, shared, connVars, browserVars, history
  <2> QED BY <2>1, GapFrame DEF Giving, Raises, Queued
<1>16. ASSUME DiscardEvents PROVE GapInv'
  <2>1. /\ broadcaster = "noCandles" /\ broadcaster' = "sleeping"
        /\ pending_candle_events' = <<>>
        /\ UNCHANGED <<chart, feed, candles, candle_subscriptions, gone, endpoint, missed>>
    BY <1>16 DEF DiscardEvents, feedVars, connVars, browserVars, history
  <2>2. Due' = Due /\ Queued' = Queued
    BY <2>1 DEF Due, Queued, Giving
  <2>3. \A s \in Symbols : Unsent'[s] = {}
    BY <2>1 DEF Unsent
  <2>4. \A c \in Clients, s \in Symbols : Due[c][s] = {}
    BY <2>1 DEF Due, Giving
  <2>5. (\A s \in Symbols : Unsent[s] \subseteq missed[s]) \/ Subscribed = {}
    BY <2>1 DEF GapInv
  <2>6. ASSUME NEW c \in Clients, OneMinute(c)', ~Raises(c)'
        PROVE  NextIsDue(c, chart[c].symbol)'
    <3>1. PICK x \in Symbols : x = chart[c].symbol
      BY <2>1, <2>6 DEF StoreInv, ChartInv, Candle, OneMinute
    <3>2. NextIsDue(c, x)
      BY <2>1, <2>6, <3>1 DEF GapInv, OneMinute, Raises
    <3> QED BY <2>1, <2>2, <2>3, <2>4, <2>5, <3>1, <3>2 DEF NextIsDue, Subscribed
  <2>7. (\A c \in Clients, s \in Symbols : NoneMissing(c, s))'
    BY <2>2, <2>4 DEF NoneMissing
  <2> QED BY <2>1, <2>3, <2>6, <2>7 DEF GapInv
<1>17. ASSUME SendCandle PROVE GapInv'
  BY <1>17, GapSend
<1>18. ASSUME EndCandles PROVE GapInv'
  <2>1. /\ UNCHANGED <<pending_candle_events, chart, feed, candles, endpoint, gone, missed>>
        /\ broadcaster' = "sleeping" /\ outbox = <<>>
        /\ \A c \in Clients : candle_subscriptions'[c] \in {None, candle_subscriptions[c]}
    BY <1>18 DEF EndCandles, Forget, feedVars, shared, browserVars, history
  <2> QED BY <2>1, GapFrame DEF Giving, Raises, Queued
<1>19. ASSUME NEW c \in Clients, Join(c) PROVE GapInv'
  <2>1. /\ UNCHANGED <<pending_candle_events, chart, feed, candles, gone, outbox, broadcaster,
                       candle_subscriptions, missed>>
        /\ endpoint[c] = "new" /\ endpoint' = [endpoint EXCEPT ![c] = "open"]
    BY <1>19 DEF Join, JoinBroadcast, feedVars, shared, castVars, history
  <2>2. \A d \in Clients : Raises(d) => Raises(d)'
    BY <2>1 DEF Raises, StoreInv, StoreTypeOK
  <2> QED BY <2>1, <2>2, GapFrame DEF Giving, Queued
<1>20. ASSUME NEW c \in Clients, JoinRaises(c) PROVE GapInv'
  <2>1. /\ UNCHANGED <<pending_candle_events, chart, feed, candles, gone, outbox, broadcaster,
                       candle_subscriptions, missed>>
        /\ endpoint[c] = "new" /\ endpoint' = [endpoint EXCEPT ![c] = "closed"]
    BY <1>20 DEF JoinRaises, feedVars, shared, castVars, browserVars, history
  <2>2. \A d \in Clients : Raises(d) => Raises(d)'
    BY <2>1 DEF Raises, StoreInv, StoreTypeOK
  <2> QED BY <2>1, <2>2, GapFrame DEF Giving, Queued
<1>21. ASSUME NEW c \in Clients, PeerLeaves(c) PROVE GapInv'
  <2>1. /\ UNCHANGED <<pending_candle_events, chart, feed, candles, endpoint, outbox, broadcaster,
                       candle_subscriptions, missed>>
        /\ gone' = gone \cup {c}
    BY <1>21 DEF PeerLeaves, feedVars, shared, castVars, browserVars, history
  <2>2. \A d \in Clients : Raises(d) => Raises(d)'
    BY <2>1 DEF Raises
  <2> QED BY <2>1, <2>2, GapFrame DEF Giving, Queued
<1>22. ASSUME NEW c \in Clients, Leave(c) PROVE GapInv'
  <2>1. /\ UNCHANGED <<pending_candle_events, chart, feed, candles, gone, outbox, broadcaster,
                       missed>>
        /\ endpoint' = [endpoint EXCEPT ![c] = "closed"]
        /\ \A d \in Clients : candle_subscriptions'[d] \in {None, candle_subscriptions[d]}
    BY <1>22 DEF Leave, Forget, feedVars, shared, castVars, browserVars, history
  <2>2. \A d \in Clients : Raises(d) => Raises(d)'
    BY <2>1 DEF Raises, StoreInv, StoreTypeOK
  <2> QED BY <2>1, <2>2, GapFrame DEF Giving, Queued
<1>23. ASSUME NEW c \in Clients, Unsubscribe(c) PROVE GapInv'
  <2>1. /\ UNCHANGED <<pending_candle_events, chart, feed, candles, gone, endpoint, outbox,
                       broadcaster, missed>>
        /\ candle_subscriptions' = [candle_subscriptions EXCEPT ![c] = None]
    BY <1>23 DEF Unsubscribe, feedVars, shared, castVars, browserVars, history
  <2>2. \A d \in Clients : candle_subscriptions'[d] \in {None, candle_subscriptions[d]}
    BY <2>1 DEF StoreInv, StoreTypeOK
  <2> QED BY <2>1, <2>2, GapFrame DEF Giving, Queued, Raises
<1>24. ASSUME NEW c \in Clients, NEW sub \in Subscription, Subscribe(c, sub) PROVE GapInv'
  <2>1. /\ UNCHANGED <<pending_candle_events, feed, candles, gone, endpoint, outbox, broadcaster,
                       missed>>
        /\ candle_subscriptions' = [candle_subscriptions EXCEPT ![c] = sub]
        /\ c \in gone \/ chart' = [chart EXCEPT ![c] = Snapshot(sub)]
        /\ c \in gone => chart' = chart
        /\ broadcaster # "candlesCopied" /\ broadcaster # "noCandles"
    <3>1. ~Snapshot(sub).live
      BY DEF Snapshot
    <3> QED BY <1>24, <3>1, ShowLemma
            DEF StoreInv, Subscribe, LoopFree, feedVars, shared, castVars, browserVars, history
  <2>2. Due' = Due /\ Unsent' = Unsent /\ Queued' = Queued
    BY <2>1 DEF Due, DueAt, Unsent, Queued, Giving
  <2>3. ASSUME NEW d \in Clients, OneMinute(d)', ~Raises(d)'
        PROVE  NextIsDue(d, chart[d].symbol)'
    <3>1. CASE d = c
      <4>1. chart'[c] = Snapshot(sub) /\ sub.symbol \in Symbols
        BY <2>1, <2>3, <3>1 DEF Raises, StoreInv, ChartInv, Subscription
      <4>2. PICK x \in Symbols : x = chart'[c].symbol /\ chart'[c].n = candles[x]
        BY <4>1 DEF Snapshot
      <4>3. (chart'[c].n + 1) .. Queued[x] = {}
        BY <4>2, QueuedLemma
      <4>4. \A k \in Due[c][x] : (chart'[c].n + 1) .. k = {}
        <5>1. \A k \in Due[c][x] : k \in Nat /\ k <= Queued[x]
          BY DueOrderLemma
        <5> QED BY <4>2, <5>1, QueuedLemma
      <4> QED BY <2>2, <3>1, <4>2, <4>3, <4>4 DEF NextIsDue
    <3>2. CASE d # c
      <4>1. chart'[d] = chart[d] /\ candle_subscriptions'[d] = candle_subscriptions[d]
        BY <2>1, <3>2 DEF StoreInv, ChartInv, StoreTypeOK
      <4>2. NextIsDue(d, chart[d].symbol)
        BY <2>1, <2>3, <4>1 DEF GapInv, OneMinute, Raises
      <4> QED BY <2>1, <2>2, <4>1, <4>2 DEF NextIsDue, Subscribed
    <3> QED BY <3>1, <3>2
  <2>4. (\A x \in Clients, s \in Symbols : NoneMissing(x, s))'
    BY <2>1, <2>2 DEF GapInv, NoneMissing
  <2> QED BY <2>1, <2>2, <2>3, <2>4 DEF GapInv
<1>25. CASE UNCHANGED storeVars
  <2>1. Same /\ UNCHANGED <<feed, candles, outbox, broadcaster>>
    BY <1>25 DEF storeVars, feedVars, shared, castVars, connVars, browserVars, history
  <2> QED BY <2>1, GapFrame DEF Giving, Raises, Queued
<1> QED
  BY <1>1, <1>2, <1>3, <1>4, <1>5, <1>6, <1>7, <1>8, <1>9, <1>10, <1>11, <1>12,
     <1>13, <1>14, <1>15, <1>16, <1>17, <1>18, <1>19, <1>20, <1>21, <1>22, <1>23,
     <1>24, <1>25 DEF StoreNext

(* A live frame of a 1m chart shows the event after the one shown, but for *)
(* missed ones.                                                            *)
LEMMA NextCandleStep ==
  ASSUME StoreInv, OrderInv, GapInv, [StoreNext]_storeVars, NEW c \in Clients,
         NextOnChart(chart[c], chart'[c])
  PROVE  (chart[c].n + 1) .. (chart'[c].n - 1) \subseteq missed[chart[c].symbol]
<1>1. chart[c].symbol \in Symbols /\ chart[c].n \in Nat
  BY DEF StoreInv, ChartInv, Candle, NextOnChart
<1>2. CASE chart'[c] = chart[c]
  BY <1>1, <1>2
<1>3. CASE chart'[c] # chart[c] /\ SendCandle
  <2>1. PICK d : d = outbox[1]
    OBVIOUS
  <2>2. /\ Giving /\ outbox # <<>> /\ outbox \in Seq(Delivery) /\ Head(outbox) = d
    BY <1>3, <2>1 DEF SendCandle, Giving, StoreInv, StoreTypeOK
  <2>3. d.ws = c /\ ~Raises(c) /\ chart'[c] = Frame(d)
    <3>1. d.ws \in Clients /\ (Raises(d.ws) \/ ShowCandle(d.ws, Frame(d)))
      BY <1>3, <2>1, <2>2, TakenLemma DEF SendCandle
    <3>2. Raises(d.ws) => chart' = chart
      BY <1>3, <2>2 DEF SendCandle
    <3>3. ~Raises(d.ws) /\ chart' = [chart EXCEPT ![d.ws] = Frame(d)]
      BY <1>3, <3>1, <3>2, ShowLemma DEF StoreInv
    <3> QED BY <1>3, <3>1, <3>3 DEF StoreInv, ChartInv
  <2>4. /\ d.event.n \in Nat /\ d.event.symbol = d.sub.symbol
        /\ d.sub.resolution = "1m" => d.event.n \in Due[c][d.event.symbol]
    BY <1>3, <2>1, <2>3, TakenLemma
  <2>5. PICK x \in Symbols : x = chart[c].symbol
    BY <1>1
  <2>6. /\ chart'[c].n = d.event.n /\ d.event.symbol = x /\ d.sub.resolution = "1m"
    BY <2>3, <2>4, <2>5 DEF Frame, NextOnChart
  <2>7. (chart[c].n + 1) .. d.event.n \subseteq Due[c][x] \cup missed[x]
    <3>1. OneMinute(c)
      BY DEF OneMinute, NextOnChart
    <3>2. NextIsDue(c, x) /\ d.event.n \in Due[c][x]
      BY <2>3, <2>4, <2>5, <2>6, <3>1 DEF GapInv
    <3> QED BY <3>2 DEF NextIsDue
  <2>8. ASSUME NEW n \in Due[c][x] PROVE n \in Nat /\ n >= d.event.n
    <3>1. PICK i \in DueAt(c, x) : outbox[i].event.n = n
      BY DueLemma
    <3>2. i \in DOMAIN outbox /\ DOMAIN outbox = 1 .. Len(outbox) /\ Len(outbox) \in Nat
          /\ outbox[i].ws = d.ws
      BY <2>2, <2>3, <3>1 DEF DueAt
    <3>3. i = 1 \/ d.event.n < n
      BY <2>1, <2>2, <3>1, <3>2 DEF OrderInv, DeliveriesInOrder
    <3>4. n \in Nat
      BY DueLemma
    <3> QED BY <2>1, <2>4, <3>1, <3>3, <3>4
  <2>9. ASSUME NEW n \in (chart[c].n + 1) .. (d.event.n - 1) PROVE n \in missed[x]
    <3>1. n \in (chart[c].n + 1) .. d.event.n /\ ~(n >= d.event.n)
      BY <1>1, <2>4
    <3> QED BY <2>7, <2>8, <3>1
  <2> QED BY <2>5, <2>6, <2>9
<1>4. ASSUME ~SendCandle, chart'[c] # chart[c] PROVE ~chart'[c].live
  <2>1. PICK e \in Clients, sub \in Subscription : Subscribe(e, sub)
    BY <1>4 DEF StoreNext, storeVars, StoreQuote, MarkDirty, ProcessMessage, QueueCandleEvent,
         CopyDirty, NoBatch, ClearDirty, ReadQuotes, FinishBatch, RaiseWhileScreening,
         SendBatch, EndBatch, CopyEvents, ClearEvents, NoCandles, DiscardEvents, EndCandles,
         Join, JoinBroadcast, JoinRaises, PeerLeaves, Leave, Unsubscribe, browserVars, history
  <2>2. chart' = chart \/ chart' = [chart EXCEPT ![e] = Snapshot(sub)]
    BY <2>1, ShowLemma DEF StoreInv, Subscribe
  <2>3. chart'[c] = Snapshot(sub)
    BY <1>4, <2>2 DEF StoreInv, ChartInv
  <2> QED BY <2>3 DEF Snapshot
<1> QED BY <1>2, <1>3, <1>4 DEF NextOnChart

(* However the feed thread runs while the list is copied and cleared: from *)
(* its snapshot on a 1m chart misses no event of its symbol but those that *)
(* were queued between the copy of the list, or the look at it, and the    *)
(* clear.                                                                  *)
THEOREM NoCandleMissed == StoreSpec => NoCandleGap
<1>1. StoreInv /\ OrderInv /\ GapInv /\ [StoreNext]_storeVars => GapInv'
  BY GapStep
<1>2. StoreInv /\ OrderInv /\ GapInv /\ [StoreNext]_storeVars =>
        [\A c \in Clients :
           NextOnChart(chart[c], chart'[c]) =>
             (chart[c].n + 1) .. (chart'[c].n - 1) \subseteq missed[chart[c].symbol]]_storeVars
  BY NextCandleStep
<1> QED BY <1>1, <1>2, GapInvInit, StoreInvAlways, OrderInvAlways, PTL
        DEF StoreSpec, NoCandleGap
=============================================================================
