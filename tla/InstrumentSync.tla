---------------------------- MODULE InstrumentSync ----------------------------
(***************************************************************************)
(* scripts/load_instruments.py: the FYERS symbol master is downloaded,     *)
(* parsed by InstrumentService._parse_csv, and written into the table      *)
(* stocks by StockRepository.sync_instruments in one transaction.  Both    *)
(* symbol and token are unique columns.  A stock is never deleted and its  *)
(* position in the sequence stocks is its id.                              *)
(***************************************************************************)
EXTENDS Subsequences, FiniteSetsExt

CONSTANTS
  Equities,  \* the symbols that end with -EQ
  Masters,   \* the files FYERS may publish: sequences of rows
  MaxSyncs   \* bound: runs of load_instruments.py

VARIABLES
  stocks,       \* the table, ordered by id
  syncs,        \* synchronisations run so far
  mirror,       \* history: symbols and tokens of the last master committed
  refusedClean  \* history: was a master without any conflict rolled back?

syncVars == <<stocks, syncs, mirror, refusedClean>>

ASSUME SyncConstants ==
  /\ MaxSyncs \in Nat
  /\ \A csv \in Masters :
       /\ csv \in Seq({csv[i] : i \in DOMAIN csv})
       /\ \A i \in DOMAIN csv : /\ csv[i].complete \in BOOLEAN
                                /\ {"symbol", "token"} \subseteq DOMAIN csv[i]

(* A row is kept when it has all its columns and is an equity. *)
Parse(csv) ==
  Keep(csv, {i \in DOMAIN csv : csv[i].complete /\ csv[i].symbol \in Equities})

SymbolsIn(list) == {list[i].symbol : i \in DOMAIN list}
TokensIn(list) == {list[i].token : i \in DOMAIN list}

(* Existing stocks are assigned row after row: the last row stays. *)
LastToken(symbol, instruments) ==
  instruments[Max({i \in DOMAIN instruments : instruments[i].symbol = symbol})].token

(* Mutant of Updated: a stock that has left the master stays active. *)
UpdatedOnly(instruments) ==
  [i \in DOMAIN stocks |->
     IF stocks[i].symbol \in SymbolsIn(instruments)
     THEN [stocks[i] EXCEPT !.token = LastToken(stocks[i].symbol, instruments),
                            !.is_active = TRUE]
     ELSE stocks[i]]

(* Mutant of Updated: stocks and rows are matched by position. *)
UpdatedByPosition(instruments) ==
  [i \in DOMAIN stocks |->
     IF i \in DOMAIN instruments
     THEN [symbol |-> instruments[i].symbol, token |-> instruments[i].token,
           is_active |-> TRUE]
     ELSE [stocks[i] EXCEPT !.is_active = FALSE]]

(* The stocks of the table after the loop; an unseen one is deactivated. *)
Updated(instruments) ==
  [i \in DOMAIN stocks |->
     IF stocks[i].symbol \in SymbolsIn(instruments)
     THEN [stocks[i] EXCEPT !.token = LastToken(stocks[i].symbol, instruments),
                            !.is_active = TRUE]
     ELSE [stocks[i] EXCEPT !.is_active = FALSE]]

(* A row for every instrument whose symbol the table did not hold when the *)
(* loop began: a new symbol that comes twice is added twice.               *)
Added(instruments) ==
  LET new == Keep(instruments, {i \in DOMAIN instruments :
                                  instruments[i].symbol \notin SymbolsIn(stocks)})
  IN  [i \in DOMAIN new |->
         [symbol |-> new[i].symbol, token |-> new[i].token, is_active |-> TRUE]]

(* The session writes changed rows one by one in the order of their ids,   *)
(* and the database checks the unique token after each of them.            *)
UpdateCollides(after) ==
  \E i, j \in DOMAIN stocks :
    /\ i # j
    /\ after[i].token # stocks[i].token
    /\ after[i].token = IF j < i THEN after[j].token ELSE stocks[j].token

(* Then the new rows, checked for both columns. *)
InsertCollides(table) ==
  \E i, j \in DOMAIN table :
    i # j /\ (table[i].symbol = table[j].symbol \/ table[i].token = table[j].token)

(* A master that gives the constraints nothing to object to: no symbol and *)
(* no token twice, and no token another stock already has.                 *)
Clean(instruments) ==
  /\ \A i, j \in DOMAIN instruments :
       i # j => /\ instruments[i].symbol # instruments[j].symbol
                /\ instruments[i].token # instruments[j].token
  /\ \A i \in DOMAIN instruments, j \in DOMAIN stocks :
       instruments[i].token = stocks[j].token =>
         instruments[i].symbol = stocks[j].symbol
-----------------------------------------------------------------------------
SyncInit == stocks = <<>> /\ syncs = 0 /\ mirror = {} /\ refusedClean = FALSE

(* One run: everything is committed, or nothing. *)
Sync(csv) ==
  LET instruments == Parse(csv)
      after == Updated(instruments)
      table == after \o Added(instruments)
      commits == ~UpdateCollides(after) /\ ~InsertCollides(table)
  IN  /\ syncs < MaxSyncs
      /\ syncs' = syncs + 1
      /\ stocks' = IF commits THEN table ELSE stocks
      /\ mirror' = IF commits
                   THEN {<<symbol, LastToken(symbol, instruments)>> :
                           symbol \in SymbolsIn(instruments)}
                   ELSE mirror
      /\ refusedClean' = (refusedClean \/ (~commits /\ Clean(instruments)))
-----------------------------------------------------------------------------
(* After every run the active stocks, with their tokens, are those of the  *)
(* last master that was committed, however the masters before it differed; *)
(* and a master is only ever rolled back for a symbol or a token that      *)
(* comes twice or that another stock of the table holds.                   *)
SyncMirrorsMaster ==
  /\ {<<stocks[i].symbol, stocks[i].token>> :
        i \in {j \in DOMAIN stocks : stocks[j].is_active}} = mirror
  /\ ~refusedClean
=============================================================================
