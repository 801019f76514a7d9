--------------------------- MODULE ScreenerService ---------------------------
(***************************************************************************)
(* The volatility screener of app/services/screener_service.py, as fed by  *)
(* MarketDataService.process_message: a stock enters the screened set when *)
(* it has moved by ENTRY_THRESHOLD percent from its previous close and     *)
(* leaves it when it is back strictly inside EXIT_THRESHOLD percent.  Each *)
(* entry and exit is put on event_queue for the worker.                    *)
(*                                                                         *)
(* Prices are natural numbers of some small unit, a reported change chp is *)
(* in hundredths of a percent, and a percentage is the exact fraction n/d. *)
(***************************************************************************)
EXTENDS Integers, Sequences

CONSTANTS
  Stocks,        \* the stocks in the database: load_stocks
  Unknown,       \* a symbol that is in none of them
  Prices,        \* ltp values of a message
  Changes,       \* chp values of a message, in hundredths of a percent
  Closes,        \* prev_close_price values of a message
  StoredCloses,  \* closing prices in the database, or None
  None,          \* Python's None
  MaxTicks       \* bound: percentage changes computed for one stock

VARIABLES
  previous_closes,  \* stock -> previous close, or None
  screened,         \* stock -> ScreenedState while screened, else None
  event_queue,      \* SimpleQueue of ScreenerEvent, from feed to worker
  restored,         \* history: the stocks loaded as screened at startup
  changes           \* history: stock -> percentages computed since startup

screenerVars == <<previous_closes, screened, event_queue, restored, changes>>
-----------------------------------------------------------------------------
ENTRY_THRESHOLD == 4
EXIT_THRESHOLD  == 2

Percentage == [n : Int, d : Nat \ {0}]

ScreenedState == [ltp : Prices, percentage_change : Percentage]

ScreenerEvent == [event_type : {"SCREENED", "REMOVED"}, stock_id : Stocks,
                  ltp : Prices, percentage_change : Percentage]

Message == [symbol : Stocks \cup {Unknown}, ltp : Prices \cup {None},
            chp : Changes \cup {None}, prev_close_price : Closes \cup {None}]

ASSUME ScreenerConstants ==
  /\ Unknown \notin Stocks
  /\ Prices \subseteq Nat /\ Changes \subseteq Int /\ Closes \subseteq Int
  /\ StoredCloses \subseteq (Nat \ {0}) \cup {None}
  /\ MaxTicks \in Nat

ASSUME ScreenerNone ==
  None \notin ScreenedState /\ None \notin Prices /\ None \notin Int
    /\ None \notin Percentage
-----------------------------------------------------------------------------
(* percentage >= k, percentage <= k and so on, for an integer k. *)
AtLeast(c, k) == c.n >= k * c.d
AtMost(c, k)  == c.n <= k * c.d

(* Mutant of Entering: the threshold itself does not screen a stock. *)
EnteringStrictly(c) ==
  ~AtMost(c, ENTRY_THRESHOLD) \/ ~AtLeast(c, -ENTRY_THRESHOLD)

Entering(c) == AtLeast(c, ENTRY_THRESHOLD) \/ AtMost(c, -ENTRY_THRESHOLD)

(* Mutant of Leaving: a stock leaves as soon as it is no longer entering. *)
LeavingWithoutHysteresis(c) == ~Entering(c)

Leaving(c) == ~AtLeast(c, EXIT_THRESHOLD) /\ ~AtMost(c, -EXIT_THRESHOLD)

(* _parse_message keeps a previous close only when it is positive. *)
ParsedClose(m) ==
  IF m.prev_close_price # None /\ m.prev_close_price > 0
  THEN m.prev_close_price ELSE None

(* A positive previous close of the message replaces the loaded one. *)
ClosesAfter(m) ==
  IF ParsedClose(m) # None
  THEN [previous_closes EXCEPT ![m.symbol] = ParsedClose(m)]
  ELSE previous_closes

(* The exchange's own figure, else the change from the previous close. *)
ChangeOf(m) ==
  LET close == ClosesAfter(m)[m.symbol]
  IN  IF m.chp # None THEN [n |-> m.chp, d |-> 100]
      ELSE IF close # None THEN [n |-> 100 * (m.ltp - close), d |-> close]
      ELSE None

StateFor(m, c) == [ltp |-> m.ltp, percentage_change |-> c]

EventFor(type, m, c) ==
  [event_type |-> type, stock_id |-> m.symbol, ltp |-> m.ltp,
   percentage_change |-> c]
-----------------------------------------------------------------------------
(* Startup: stocks, closing prices and today's screened rows are loaded    *)
(* into an empty state; rows[s] is the row of the stock s, or None.        *)
Startup(rows, closes, scr, queue, rest, chgs) ==
  /\ closes \in [Stocks -> StoredCloses]
  /\ scr = rows
  /\ queue = <<>>
  /\ rest = {s \in Stocks : rows[s] # None}
  /\ chgs = [s \in Stocks |-> <<>>]

(* Nothing to do for a message without a price or of an unknown symbol. *)
IgnoreMessage(m) ==
  /\ m.ltp = None \/ m.symbol \notin Stocks
  /\ UNCHANGED screenerVars

(* Neither the message nor the state has anything to compute a change from. *)
NoBaseline(m) ==
  /\ m.ltp # None /\ m.symbol \in Stocks
  /\ ChangeOf(m) = None
  /\ UNCHANGED screenerVars

(* What every tick with a percentage does before it is judged. *)
Judge(m) ==
  /\ m.ltp # None /\ m.symbol \in Stocks
  /\ ChangeOf(m) # None
  /\ Len(changes[m.symbol]) < MaxTicks
  /\ previous_closes' = ClosesAfter(m)
  /\ changes' = [changes EXCEPT ![m.symbol] = Append(@, ChangeOf(m))]
  /\ UNCHANGED restored

(* _handle_not_screened, past its threshold: enter and notify. *)
EnterScreened(m) ==
  /\ Judge(m)
  /\ screened[m.symbol] = None /\ Entering(ChangeOf(m))
  /\ screened' = [screened EXCEPT ![m.symbol] = StateFor(m, ChangeOf(m))]
  /\ event_queue' = Append(event_queue, EventFor("SCREENED", m, ChangeOf(m)))

(* _handle_not_screened, short of its threshold. *)
StayOut(m) ==
  /\ Judge(m)
  /\ screened[m.symbol] = None /\ ~Entering(ChangeOf(m))
  /\ UNCHANGED <<screened, event_queue>>

(* _handle_screened, back inside the band: leave and notify. *)
LeaveScreened(m) ==
  /\ Judge(m)
  /\ screened[m.symbol] # None /\ Leaving(ChangeOf(m))
  /\ screened' = [screened EXCEPT ![m.symbol] = None]
  /\ event_queue' = Append(event_queue, EventFor("REMOVED", m, ChangeOf(m)))

(* _handle_screened, still outside the band: refresh, without an event. *)
StayScreened(m) ==
  /\ Judge(m)
  /\ screened[m.symbol] # None /\ ~Leaving(ChangeOf(m))
  /\ screened' = [screened EXCEPT ![m.symbol] = StateFor(m, ChangeOf(m))]
  /\ UNCHANGED event_queue

ProcessMessage(m) ==
  \/ IgnoreMessage(m)
  \/ NoBaseline(m)
  \/ EnterScreened(m)
  \/ StayOut(m)
  \/ LeaveScreened(m)
  \/ StayScreened(m)
-----------------------------------------------------------------------------
(* The screener on its own, started with any rows the screener can have    *)
(* left in the database.                                                   *)
Rows ==
  {r \in [ltp : Prices, percentage_change : {[n |-> c, d |-> 100] : c \in Changes}] :
     Entering(r.percentage_change)}

ScreenerInit ==
  \E rows \in [Stocks -> Rows \cup {None}] :
    Startup(rows, previous_closes, screened, event_queue, restored, changes)

ScreenerNext == \E m \in Message : ProcessMessage(m)

ScreenerSpec == ScreenerInit /\ [][ScreenerNext]_screenerVars
-----------------------------------------------------------------------------
(* The variables hold what the code stores in them. *)
ScreenerTypeOK ==
  /\ previous_closes \in [Stocks -> (Nat \ {0}) \cup {None}]
  /\ screened \in [Stocks -> ScreenedState \cup {None}]
  /\ event_queue \in Seq(ScreenerEvent)
  /\ restored \subseteq Stocks
  /\ changes \in [Stocks -> Seq(Percentage)]

(* Reference reading of the hysteresis: a stock is in the set when it was  *)
(* 4 percent away once, or was loaded as screened, and has not been less   *)
(* than 2 percent away since.                                              *)
Moved(c, k) == c.n >= k * c.d \/ c.n <= -k * c.d

NeverBack(c, i) == \A j \in i .. Len(c) : Moved(c[j], 2)

ShouldBeScreened(s) ==
  \/ s \in restored /\ NeverBack(changes[s], 1)
  \/ \E i \in 1 .. Len(changes[s]) :
       Moved(changes[s][i], 4) /\ NeverBack(changes[s], i + 1)

(* The screened set is exactly what the hysteresis rule says of the whole  *)
(* history of changes, whatever mixture of reported and computed changes   *)
(* produced it.                                                            *)
ScreenedIffCrossed ==
  \A s \in Stocks : screened[s] # None <=> ShouldBeScreened(s)

(* The change shown for a screened stock is the newest one computed. *)
ScreenedShowsLatest ==
  \A s \in Stocks :
    (screened[s] # None /\ changes[s] # <<>>) =>
      screened[s].percentage_change = changes[s][Len(changes[s])]
=============================================================================
