------------------------------ MODULE MarketFeed ------------------------------
(***************************************************************************)
(* How the server comes to its feed: startup of lifespan() in main.py with *)
(* the token check of core/fyers_token_manager.py, the two queries of the  *)
(* table stocks, and services/websocket_service.py on top of the FYERS     *)
(* data socket, while load_instruments.py and the login scripts run beside *)
(* it.  The FYERS service and its client library are external: they        *)
(* connect, close, reconnect, and answer a subscription by accepting it or *)
(* by an error -300 that names symbols they do not know.                   *)
(***************************************************************************)
EXTENDS InstrumentSync, FiniteSets

CONSTANTS
  Delisted,           \* the symbols main.py filters out
  Tradable,           \* external: the symbols FYERS accepts
  MAX_SUBSCRIPTIONS,  \* symbols of one socket
  MaxStarts,          \* bound: starts of the server
  MaxCloses,          \* bound: connections lost
  MaxTokens           \* bound: access tokens issued by FYERS

VARIABLES
  phase,            \* where lifespan() is, or "down"
  env,              \* FYERS_ACCESS_TOKEN in the file .env
  access_token,     \* settings.fyers_access_token of the running server
  issued,           \* external: the newest access token FYERS has issued
  expired,          \* external: the tokens FYERS no longer accepts
  raw_symbols,      \* get_active_symbols() of this start
  symbol_to_stock_id,  \* ScreenerService: symbol and id, after load_stocks
  socket,           \* external: state of the FYERS data socket
  symbols,          \* WebSocketService.symbols
  requests,         \* external: the subscriptions FYERS has not answered yet
  subscribed,       \* external: the symbols FYERS sends ticks of
  reported,         \* invalid_symbols of an error that is on its way
  is_ws_connected,  \* the flag of live_store that /health shows
  starts, closes,   \* starts and lost connections so far
  torn              \* history: did a sync commit between the two queries?

tokenVars == <<env, access_token, issued, expired>>
serverVars == <<phase, raw_symbols, symbol_to_stock_id, starts, torn>>
socketVars == <<socket, symbols, requests, subscribed, reported, is_ws_connected, closes>>
feedVars == <<syncVars, tokenVars, serverVars, socketVars>>

ASSUME FeedConstants ==
  /\ Delisted \subseteq Equities /\ Tradable \subseteq Equities
  /\ MAX_SUBSCRIPTIONS \in Nat
  /\ MaxStarts \in Nat /\ MaxCloses \in Nat /\ MaxTokens \in Nat

Active == {i \in DOMAIN stocks : stocks[i].is_active}
IsTokenValid(token) == token \notin expired
-----------------------------------------------------------------------------
FeedInit ==
  /\ SyncInit
  /\ phase = "down" /\ raw_symbols = {} /\ symbol_to_stock_id = {}
  /\ starts = 0 /\ torn = FALSE
  /\ env = 0 /\ access_token = 0 /\ issued = 0 /\ expired = {}
  /\ socket = "none" /\ symbols = {} /\ requests = {} /\ subscribed = {}
  /\ reported = {} /\ is_ws_connected = FALSE /\ closes = 0

(* The process starts: settings are read from .env. *)
ServerStart ==
  /\ phase = "down" /\ starts < MaxStarts
  /\ phase' = "token" /\ starts' = starts + 1
  /\ access_token' = env
  /\ torn' = FALSE
  /\ UNCHANGED <<syncVars, env, issued, expired, raw_symbols, symbol_to_stock_id,
                 socketVars>>

(* get_profile() answers, or no refresh token is set, or the refresh fails. *)
KeepToken ==
  /\ phase = "token"
  /\ phase' = "symbols"
  /\ UNCHANGED <<syncVars, tokenVars, raw_symbols, symbol_to_stock_id, starts, torn,
                 socketVars>>

(* The check failed, of an expired token or by an exception, and the       *)
(* refresh token gives a new one: it is saved in .env and in the settings. *)
RefreshToken ==
  /\ phase = "token" /\ issued < MaxTokens
  /\ issued' = issued + 1
  /\ env' = issued' /\ access_token' = issued'
  /\ phase' = "symbols"
  /\ UNCHANGED <<syncVars, expired, raw_symbols, symbol_to_stock_id, starts, torn,
                 socketVars>>

LoadSymbols ==
  /\ phase = "symbols"
  /\ raw_symbols' = {stocks[i].symbol : i \in Active}
  /\ phase' = "stocks"
  /\ UNCHANGED <<syncVars, tokenVars, symbol_to_stock_id, starts, torn, socketVars>>

(* Mutant of LoadStocks: the filter of the second query is forgotten. *)
LoadAllStocks ==
  /\ phase = "stocks"
  /\ symbol_to_stock_id' = {<<stocks[i].symbol, i>> : i \in DOMAIN stocks}
  /\ phase' = "feed"
  /\ UNCHANGED <<syncVars, tokenVars, raw_symbols, starts, torn, socketVars>>

(* The second query reads the stocks themselves, delisted ones included. *)
LoadStocks ==
  /\ phase = "stocks"
  /\ symbol_to_stock_id' = {<<stocks[i].symbol, i>> : i \in Active}
  /\ phase' = "feed"
  /\ UNCHANGED <<syncVars, tokenVars, raw_symbols, starts, torn, socketVars>>

(* WebSocketService.start runs in an executor: the ValueError about too    *)
(* many symbols is seen by nobody, and the flag is set all the same.       *)
StartFeed ==
  LET asked == raw_symbols \ Delisted
      accepted == asked # {} /\ Cardinality(asked) <= MAX_SUBSCRIPTIONS
  IN  /\ phase = "feed"
      /\ phase' = "running"
      /\ is_ws_connected' = (asked # {})
      /\ symbols' = IF accepted THEN asked ELSE {}
      /\ socket' = IF accepted THEN "connecting" ELSE "none"
      /\ UNCHANGED <<syncVars, tokenVars, raw_symbols, symbol_to_stock_id, starts,
                     torn, requests, subscribed, reported, closes>>

ServerStops ==
  /\ phase # "down"
  /\ phase' = "down"
  /\ raw_symbols' = {} /\ symbol_to_stock_id' = {} /\ torn' = FALSE
  /\ socket' = "none" /\ symbols' = {} /\ requests' = {} /\ subscribed' = {}
  /\ reported' = {} /\ is_ws_connected' = FALSE
  /\ UNCHANGED <<syncVars, tokenVars, starts, closes>>
-----------------------------------------------------------------------------
(* The library connects, or connects again: _on_connect asks for symbols. *)
OnConnect ==
  /\ socket = "connecting" /\ IsTokenValid(access_token)
  /\ socket' = "open"
  /\ requests' = {symbols}
  /\ UNCHANGED <<syncVars, tokenVars, serverVars, symbols, subscribed, reported,
                 is_ws_connected, closes>>

(* All symbols of a request are known to FYERS. *)
Subscribed(asked) ==
  /\ asked \subseteq Tradable
  /\ requests' = requests \ {asked}
  /\ subscribed' = subscribed \cup asked
  /\ UNCHANGED <<syncVars, tokenVars, serverVars, socket, symbols, reported,
                 is_ws_connected, closes>>

(* Some are not: an error names some or all of these, and FYERS may or may *)
(* not have accepted the others.                                           *)
Rejected(asked) ==
  /\ reported = {}
  /\ requests' = requests \ {asked}
  /\ reported' \in (SUBSET (asked \ Tradable)) \ {{}}
  /\ subscribed' \in {subscribed, subscribed \cup (asked \cap Tradable)}
  /\ UNCHANGED <<syncVars, tokenVars, serverVars, socket, symbols, is_ws_connected,
                 closes>>

Answer == \E asked \in requests : Subscribed(asked) \/ Rejected(asked)

(* Mutant of OnError: the list is pruned and not asked for again. *)
OnErrorPrune ==
  /\ reported # {}
  /\ symbols' = symbols \ reported
  /\ reported' = {}
  /\ UNCHANGED <<syncVars, tokenVars, serverVars, socket, requests, subscribed,
                 is_ws_connected, closes>>

(* _on_error removes the invalid symbols and subscribes again; on a socket *)
(* closed in the meantime the exception of subscribe() is swallowed.       *)
OnError ==
  /\ reported # {}
  /\ symbols' = symbols \ reported
  /\ requests' = IF socket = "open" /\ symbols' # {}
                 THEN requests \cup {symbols'} ELSE requests
  /\ reported' = {}
  /\ UNCHANGED <<syncVars, tokenVars, serverVars, socket, subscribed, is_ws_connected,
                 closes>>

(* _on_close only prints: the library connects again. *)
Disconnect == socket' = "connecting" /\ requests' = {} /\ subscribed' = {}

SocketCloses ==
  /\ socket = "open" /\ closes < MaxCloses
  /\ closes' = closes + 1
  /\ Disconnect
  /\ UNCHANGED <<syncVars, tokenVars, serverVars, symbols, reported, is_ws_connected>>

(* FYERS ends the validity of a token and with it a connection made by it. *)
TokenExpires(token) ==
  /\ token \notin expired
  /\ expired' = expired \cup {token}
  /\ IF token = access_token /\ socket = "open" THEN Disconnect
     ELSE UNCHANGED <<socket, requests, subscribed>>
  /\ UNCHANGED <<syncVars, env, access_token, issued, serverVars, symbols, reported,
                 is_ws_connected, closes>>

(* auto_login.py or generate_token.py finds the token of .env unusable and *)
(* saves a new one: a running server keeps the one it has.                 *)
Login ==
  /\ issued < MaxTokens
  /\ issued' = issued + 1
  /\ env' = issued'
  /\ UNCHANGED <<syncVars, access_token, expired, serverVars, socketVars>>

(* load_instruments.py beside the server. *)
SyncBeside(csv) ==
  /\ Sync(csv)
  /\ torn' = (torn \/ (phase = "stocks" /\ stocks' # stocks))
  /\ UNCHANGED <<tokenVars, phase, raw_symbols, symbol_to_stock_id, starts, socketVars>>
-----------------------------------------------------------------------------
FeedNext ==
  \/ ServerStart \/ KeepToken \/ RefreshToken \/ LoadSymbols \/ LoadStocks
  \/ StartFeed \/ ServerStops
  \/ OnConnect \/ Answer \/ OnError \/ SocketCloses
  \/ \E token \in 0 .. issued : TokenExpires(token)
  \/ Login
  \/ \E csv \in Masters : SyncBeside(csv)

(* The startup goes on, and the library connects, answers and reports;     *)
(* nothing obliges a token to last, a script to run or a server to stop.   *)
FeedFairness ==
  /\ WF_feedVars(KeepToken \/ RefreshToken)
  /\ WF_feedVars(LoadSymbols \/ LoadStocks \/ StartFeed)
  /\ WF_feedVars(OnConnect)
  /\ WF_feedVars(Answer)
  /\ WF_feedVars(OnError)

FeedSpec == FeedInit /\ [][FeedNext]_feedVars /\ FeedFairness
-----------------------------------------------------------------------------
(* The ids by which the screener writes rows and events name the same      *)
(* stocks in the table for as long as the server runs, whatever masters    *)
(* are synchronised meanwhile.                                             *)
IdsStayTrue ==
  \A pair \in symbol_to_stock_id :
    pair[2] \in DOMAIN stocks /\ stocks[pair[2]].symbol = pair[1]

(* The two queries of the startup agree: the symbols the socket is asked   *)
(* for are those the screener knows, but for the delisted ones; only a     *)
(* synchronisation committed between the queries can tear them apart.      *)
ScreenerKnowsFeed ==
  phase \in {"feed", "running"} /\ ~torn =>
    /\ {pair[1] : pair \in symbol_to_stock_id} = raw_symbols
    /\ symbols \subseteq raw_symbols \ Delisted

(* A server that keeps running on a token that lasts ends up subscribed to *)
(* every symbol it has asked for and FYERS accepts, through invalid        *)
(* symbols, lost connections and errors reported late.                     *)
Feeding ==
  /\ phase = "running" /\ IsTokenValid(access_token)
  /\ raw_symbols \ Delisted # {}
  /\ Cardinality(raw_symbols \ Delisted) <= MAX_SUBSCRIPTIONS

SubscriptionRecovers ==
  <>[]Feeding => <>[](subscribed = (raw_symbols \ Delisted) \cap Tradable)
=============================================================================
