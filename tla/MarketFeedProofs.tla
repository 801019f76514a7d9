--------------------------- MODULE MarketFeedProofs ---------------------------
(***************************************************************************)
(* Proofs about InstrumentSync and MarketFeed, for all symbol masters, any *)
(* number of synchronisations, starts, logins and lost connections.        *)
(***************************************************************************)
EXTENDS MarketFeed, SubsequencesProofs

USE SyncConstants, FeedConstants

Tokens == UNION {TokensIn(csv) : csv \in Masters}

Stock == [symbol : Equities, token : Tokens, is_active : BOOLEAN]

(* What the two unique columns forbid.                                     *)
Distinct(table) ==
  \A i, j \in DOMAIN table :
    i # j => table[i].symbol # table[j].symbol /\ table[i].token # table[j].token

StocksTyped == stocks \in Seq(Stock)

(* The rows of a master that are kept: equities, with tokens of masters.   *)
LEMMA ParseLemma ==
  ASSUME NEW csv \in Masters
  PROVE  /\ Len(Parse(csv)) \in Nat /\ DOMAIN Parse(csv) = 1 .. Len(Parse(csv))
         /\ Parse(csv) \in Seq({csv[i] : i \in DOMAIN csv})
         /\ \A k \in DOMAIN Parse(csv) : /\ Parse(csv)[k].symbol \in Equities
                                         /\ Parse(csv)[k].token \in Tokens
<1> DEFINE T == {csv[i] : i \in DOMAIN csv}
           at == {i \in DOMAIN csv : csv[i].complete /\ csv[i].symbol \in Equities}
<1>1. csv \in Seq(T) /\ DOMAIN csv = 1 .. Len(csv) /\ Len(csv) \in Nat
  OBVIOUS
<1>2. at \in SUBSET (1 .. Len(csv)) /\ Parse(csv) = Keep(csv, at)
  BY <1>1 DEF Parse
<1> HIDE DEF T, at
<1>3. /\ Parse(csv) \in Seq(T)
      /\ \E position \in [1 .. Len(Parse(csv)) -> at] :
           \A k \in 1 .. Len(Parse(csv)) : Parse(csv)[k] = csv[position[k]]
  BY <1>1, <1>2, KeepLemma
<1>4. \A i \in at : csv[i].symbol \in Equities /\ csv[i].token \in Tokens
  BY DEF at, Tokens, TokensIn
<1>5. \A k \in 1 .. Len(Parse(csv)) :
        Parse(csv)[k].symbol \in Equities /\ Parse(csv)[k].token \in Tokens
  BY <1>3, <1>4
<1>6. DOMAIN Parse(csv) = 1 .. Len(Parse(csv)) /\ Len(Parse(csv)) \in Nat
  BY <1>3
<1> QED BY <1>3, <1>5, <1>6 DEF T

(* The token a symbol gets is that of one of its rows.                     *)
LEMMA LastTokenLemma ==
  ASSUME NEW T, NEW list \in Seq(T), NEW symbol \in SymbolsIn(list)
  PROVE  \E i \in DOMAIN list : /\ list[i].symbol = symbol
                                /\ LastToken(symbol, list) = list[i].token
<1> DEFINE S == {i \in DOMAIN list : list[i].symbol = symbol}
<1>1. S # {} /\ DOMAIN list = 1 .. Len(list) /\ Len(list) \in Nat
  BY DEF SymbolsIn
<1>2. S \in SUBSET Int /\ IsFiniteSet(S)
  <2>1. IsFiniteSet(1 .. Len(list))
    BY <1>1, FS_Interval
  <2>2. S \in SUBSET (1 .. Len(list))
    BY <1>1
  <2>3. IsFiniteSet(S)
    BY <2>1, <2>2, FS_Subset
  <2> QED BY <2>2, <2>3
<1>3. Max(S) \in S
  BY <1>1, <1>2, ExtremesLemma
<1>4. LastToken(symbol, list) = list[Max(S)].token
  BY DEF LastToken
<1> HIDE DEF S
<1>5. \A i \in S : i \in DOMAIN list /\ list[i].symbol = symbol
  BY DEF S
<1> QED BY <1>3, <1>4, <1>5

(* The stocks after the loop have the symbols they had.                    *)
LEMMA UpdatedLemma ==
  ASSUME StocksTyped, NEW csv \in Masters
  PROVE  LET after == Updated(Parse(csv))
         IN  /\ after \in Seq(Stock) /\ Len(after) = Len(stocks)
             /\ DOMAIN after = DOMAIN stocks
             /\ \A i \in DOMAIN stocks :
                  /\ after[i].symbol = stocks[i].symbol
                  /\ after[i].is_active <=> stocks[i].symbol \in SymbolsIn(Parse(csv))
                  /\ after[i].token =
                       IF stocks[i].symbol \in SymbolsIn(Parse(csv))
                       THEN LastToken(stocks[i].symbol, Parse(csv)) ELSE stocks[i].token
<1> DEFINE list == Parse(csv)
           after == Updated(list)
<1>1. stocks \in Seq(Stock) /\ Len(stocks) \in Nat /\ DOMAIN stocks = 1 .. Len(stocks)
  BY DEF StocksTyped
<1>2. after = [i \in DOMAIN stocks |->
                 IF stocks[i].symbol \in SymbolsIn(list)
                 THEN [stocks[i] EXCEPT !.token = LastToken(stocks[i].symbol, list),
                                        !.is_active = TRUE]
                 ELSE [stocks[i] EXCEPT !.is_active = FALSE]]
  BY DEF Updated
<1>3. ASSUME NEW symbol \in SymbolsIn(list) PROVE LastToken(symbol, list) \in Tokens
  <2>1. /\ list \in Seq({csv[i] : i \in DOMAIN csv})
        /\ \A k \in DOMAIN list : list[k].token \in Tokens
    BY ParseLemma
  <2> HIDE DEF list
  <2>2. \E i \in DOMAIN list : LastToken(symbol, list) = list[i].token
    BY <2>1, LastTokenLemma
  <2> QED BY <2>1, <2>2
<1> HIDE DEF list, after
<1>4. ASSUME NEW i \in DOMAIN stocks
      PROVE  /\ after[i] \in Stock
             /\ after[i].symbol = stocks[i].symbol
             /\ after[i].is_active <=> stocks[i].symbol \in SymbolsIn(list)
             /\ after[i].token =
                  IF stocks[i].symbol \in SymbolsIn(list)
                  THEN LastToken(stocks[i].symbol, list) ELSE stocks[i].token
  <2>1. stocks[i] \in Stock
    BY <1>1
  <2>2. CASE stocks[i].symbol \in SymbolsIn(list)
    BY <1>2, <1>3, <2>1, <2>2 DEF Stock
  <2>3. CASE stocks[i].symbol \notin SymbolsIn(list)
    BY <1>2, <2>1, <2>3 DEF Stock
  <2> QED BY <2>2, <2>3
<1>5. after \in [1 .. Len(stocks) -> Stock]
  BY <1>1, <1>2, <1>4
<1>6. after \in Seq(Stock) /\ Len(after) = Len(stocks) /\ DOMAIN after = DOMAIN stocks
  BY <1>1, <1>5
<1> QED BY <1>4, <1>6, Zenon DEF after, list

(* The rows that are added: the instruments of unknown symbols.            *)
LEMMA AddedLemma ==
  ASSUME NEW csv \in Masters
  PROVE  LET list == Parse(csv)
             added == Added(list)
             new == {i \in DOMAIN list : list[i].symbol \notin SymbolsIn(stocks)}
         IN  /\ added \in Seq(Stock)
             /\ \E position \in [1 .. Len(added) -> new] :
                  /\ \A k \in 1 .. Len(added) :
                       /\ added[k].symbol = list[position[k]].symbol
                       /\ added[k].token = list[position[k]].token
                       /\ added[k].is_active
                  /\ \A j, k \in 1 .. Len(added) : j # k => position[j] # position[k]
                  /\ \A i \in new : \E k \in 1 .. Len(added) : position[k] = i
<1> DEFINE list == Parse(csv)
           T == {csv[i] : i \in DOMAIN csv}
           new == {i \in DOMAIN list : list[i].symbol \notin SymbolsIn(stocks)}
           kept == Keep(list, new)
           added == Added(list)
<1>1. /\ list \in Seq(T) /\ DOMAIN list = 1 .. Len(list)
      /\ \A k \in DOMAIN list : list[k].symbol \in Equities /\ list[k].token \in Tokens
  BY ParseLemma
<1>2. added = [i \in DOMAIN kept |-> [symbol |-> kept[i].symbol, token |-> kept[i].token,
                                     is_active |-> TRUE]]
  BY DEF Added
<1>3. new \in SUBSET (1 .. Len(list))
  BY <1>1
<1> HIDE DEF list, T, kept, added
<1>4. /\ kept \in Seq(T)
      /\ \E position \in [1 .. Len(kept) -> new] :
           /\ \A k \in 1 .. Len(kept) : kept[k] = list[position[k]]
           /\ \A j, k \in 1 .. Len(kept) : j < k => position[j] < position[k]
           /\ \A i \in new : \E k \in 1 .. Len(kept) : position[k] = i
  <2>1. kept = Keep(list, new)
    BY DEF kept
  <2> HIDE DEF new
  <2> QED BY <1>1, <1>3, <2>1, KeepLemma
<1>5. PICK position \in [1 .. Len(kept) -> new] :
           /\ \A k \in 1 .. Len(kept) : kept[k] = list[position[k]]
           /\ \A j, k \in 1 .. Len(kept) : j < k => position[j] < position[k]
           /\ \A i \in new : \E k \in 1 .. Len(kept) : position[k] = i
  BY <1>4
<1>6. DOMAIN kept = 1 .. Len(kept) /\ Len(kept) \in Nat
  BY <1>4
<1>7. \A k \in 1 .. Len(kept) : /\ kept[k].symbol = list[position[k]].symbol
                                /\ kept[k].token = list[position[k]].token
                                /\ kept[k].symbol \in Equities /\ kept[k].token \in Tokens
  <2>1. \A k \in 1 .. Len(kept) : position[k] \in DOMAIN list
    BY <1>5
  <2> QED BY <1>1, <1>5, <2>1
<1>8. added \in [1 .. Len(kept) -> Stock]
  BY <1>2, <1>6, <1>7 DEF Stock
<1>9. added \in Seq(Stock) /\ Len(added) = Len(kept)
  BY <1>6, <1>8
<1>10. \A j, k \in 1 .. Len(added) : j # k => position[j] # position[k]
  <2> SUFFICES ASSUME NEW j \in 1 .. Len(added), NEW k \in 1 .. Len(added), j # k
               PROVE  position[j] # position[k]
    OBVIOUS
  <2>0. j \in 1 .. Len(kept) /\ k \in 1 .. Len(kept)
    BY <1>9, Zenon
  <2> HIDE DEF added, kept
  <2>1. position[j] \in Nat /\ position[k] \in Nat
    BY <1>3, <1>5, <2>0
  <2>2. j < k \/ k < j
    BY <1>6, <2>0
  <2> QED BY <1>5, <1>9, <2>1, <2>2
<1>11. \A k \in 1 .. Len(added) : /\ added[k].symbol = list[position[k]].symbol
                                  /\ added[k].token = list[position[k]].token
                                  /\ added[k].is_active
  <2> SUFFICES ASSUME NEW k \in 1 .. Len(added)
               PROVE  /\ added[k].symbol = list[position[k]].symbol
                      /\ added[k].token = list[position[k]].token
                      /\ added[k].is_active
    OBVIOUS
  <2>1. k \in DOMAIN kept /\ k \in 1 .. Len(kept)
    BY <1>6, <1>9
  <2>2. added[k] = [symbol |-> kept[k].symbol, token |-> kept[k].token, is_active |-> TRUE]
    BY <1>2, <2>1
  <2> QED BY <1>7, <2>1, <2>2
<1>12. position \in [1 .. Len(added) -> new]
  BY <1>5, <1>9
<1>13. \A i \in new : \E k \in 1 .. Len(added) : position[k] = i
  BY <1>5, <1>9
<1> QED BY <1>9, <1>10, <1>11, <1>12, <1>13, Zenon DEF added, list

(* The table as one synchronisation would leave it.                        *)
Table(csv) == Updated(Parse(csv)) \o Added(Parse(csv))

(* The rows of a master the table knows no symbol of.                      *)
Unknown(csv) ==
  {p \in DOMAIN Parse(csv) : Parse(csv)[p].symbol \notin SymbolsIn(stocks)}

Old == DOMAIN stocks
New(csv) == DOMAIN Table(csv) \ DOMAIN stocks

(* The row i of the table is the row p of the master.                      *)
IsRow(csv, i, p) == /\ Table(csv)[i].symbol = Parse(csv)[p].symbol
                    /\ Table(csv)[i].token = Parse(csv)[p].token

(* The rows of the table after the loop: the stocks, which keep their ids  *)
(* and symbols, then one row for every row of an unknown symbol.           *)
LEMMA TableLemma ==
  ASSUME StocksTyped, NEW csv \in Masters
  PROVE  /\ Table(csv) \in Seq(Stock)
         /\ Old \subseteq DOMAIN Table(csv)
         /\ \A i \in Old :
              /\ Table(csv)[i] = Updated(Parse(csv))[i]
              /\ Table(csv)[i].symbol = stocks[i].symbol
              /\ Table(csv)[i].is_active <=> stocks[i].symbol \in SymbolsIn(Parse(csv))
              /\ Table(csv)[i].token =
                   IF stocks[i].symbol \in SymbolsIn(Parse(csv))
                   THEN LastToken(stocks[i].symbol, Parse(csv)) ELSE stocks[i].token
         /\ \A i \in New(csv) : Table(csv)[i].is_active
         /\ \A i \in New(csv) : \E p \in Unknown(csv) : IsRow(csv, i, p)
         /\ \A p \in Unknown(csv) : \E i \in New(csv) : IsRow(csv, i, p)
         /\ \A i, j \in New(csv) : i # j =>
              \E p, q \in Unknown(csv) : p # q /\ IsRow(csv, i, p) /\ IsRow(csv, j, q)
<1> DEFINE list == Parse(csv)
           after == Updated(list)
           added == Added(list)
           n == Len(stocks)
           m == Len(added)
<1>1. /\ after \in Seq(Stock) /\ Len(after) = n /\ DOMAIN after = Old
      /\ \A i \in Old :
              /\ after[i].symbol = stocks[i].symbol
              /\ after[i].is_active <=> stocks[i].symbol \in SymbolsIn(list)
              /\ after[i].token =
                   IF stocks[i].symbol \in SymbolsIn(list)
                   THEN LastToken(stocks[i].symbol, list) ELSE stocks[i].token
  BY UpdatedLemma, Zenon DEF Old
<1>2. n \in Nat /\ Old = 1 .. n
  BY DEF StocksTyped, Old
<1>3. /\ added \in Seq(Stock)
      /\ \E position \in [1 .. m -> Unknown(csv)] :
           /\ \A k \in 1 .. m : /\ added[k].symbol = list[position[k]].symbol
                                /\ added[k].token = list[position[k]].token
                                /\ added[k].is_active
           /\ \A j, k \in 1 .. m : j # k => position[j] # position[k]
           /\ \A p \in Unknown(csv) : \E k \in 1 .. m : position[k] = p
  BY AddedLemma, Zenon DEF Unknown
<1>4. Table(csv) = after \o added
  BY DEF Table
<1> HIDE DEF list, after, added, n
<1>5. PICK position \in [1 .. m -> Unknown(csv)] :
        /\ \A k \in 1 .. m : /\ added[k].symbol = list[position[k]].symbol
                             /\ added[k].token = list[position[k]].token
                             /\ added[k].is_active
        /\ \A j, k \in 1 .. m : j # k => position[j] # position[k]
        /\ \A p \in Unknown(csv) : \E k \in 1 .. m : position[k] = p
  BY <1>3
<1>6. /\ m \in Nat /\ Table(csv) \in Seq(Stock) /\ DOMAIN Table(csv) = 1 .. n + m
      /\ \A i \in 1 .. n : Table(csv)[i] = after[i]
      /\ \A k \in 1 .. m : Table(csv)[n + k] = added[k]
  BY <1>1, <1>3, <1>4, ConcatLemma
<1> HIDE DEF m
<1>7. /\ New(csv) = (n + 1) .. (n + m)
      /\ \A i \in New(csv) : i - n \in 1 .. m /\ n + (i - n) = i
      /\ \A k \in 1 .. m : n + k \in New(csv)
  <2>1. New(csv) = (1 .. n + m) \ (1 .. n)
    BY <1>2, <1>6 DEF New, Old
  <2>2. (1 .. n + m) \ (1 .. n) = (n + 1) .. (n + m)
    BY <1>2, <1>6
  <2> QED BY <1>2, <1>6, <2>1, <2>2
<1>8. \A k \in 1 .. m : IsRow(csv, n + k, position[k])
  <2>1. \A k \in 1 .. m : /\ Table(csv)[n + k].symbol = list[position[k]].symbol
                          /\ Table(csv)[n + k].token = list[position[k]].token
    BY <1>5, <1>6
  <2> QED BY <2>1, Zenon DEF IsRow, list
<1>9. \A i \in New(csv) : Table(csv)[i].is_active
  BY <1>5, <1>6, <1>7
<1>10. \A i \in New(csv) : IsRow(csv, i, position[i - n]) /\ position[i - n] \in Unknown(csv)
  BY <1>5, <1>7, <1>8
<1>11. \A p \in Unknown(csv) : \E i \in New(csv) : IsRow(csv, i, p)
  BY <1>5, <1>7, <1>8
<1>12. ASSUME NEW i \in New(csv), NEW j \in New(csv), i # j
       PROVE  \E p, q \in Unknown(csv) : p # q /\ IsRow(csv, i, p) /\ IsRow(csv, j, q)
  <2>1. i - n # j - n
    BY <1>2, <1>6, <1>7, <1>12
  <2>2. position[i - n] # position[j - n]
    BY <1>5, <1>7, <2>1
  <2> QED BY <1>10, <2>2
<1>13. Old \subseteq DOMAIN Table(csv)
  BY <1>2, <1>6
<1>14. \A i \in Old :
              /\ Table(csv)[i] = after[i]
              /\ Table(csv)[i].symbol = stocks[i].symbol
              /\ Table(csv)[i].is_active <=> stocks[i].symbol \in SymbolsIn(list)
              /\ Table(csv)[i].token =
                   IF stocks[i].symbol \in SymbolsIn(list)
                   THEN LastToken(stocks[i].symbol, list) ELSE stocks[i].token
  BY <1>1, <1>2, <1>6
<1> QED
  BY <1>6, <1>9, <1>10, <1>11, <1>12, <1>13, <1>14, Zenon DEF list, after
-----------------------------------------------------------------------------
(* A table with unique columns that a master was written into mirrors it.  *)
LEMMA MirrorLemma ==
  ASSUME StocksTyped, NEW csv \in Masters, Distinct(Table(csv))
  PROVE  {<<Table(csv)[i].symbol, Table(csv)[i].token>> :
            i \in {j \in DOMAIN Table(csv) : Table(csv)[j].is_active}}
           = {<<symbol, LastToken(symbol, Parse(csv))>> : symbol \in SymbolsIn(Parse(csv))}
<1> DEFINE list == Parse(csv)
           table == Table(csv)
<1>1. list \in Seq({csv[i] : i \in DOMAIN csv})
  BY ParseLemma
<1>2. \A symbol \in SymbolsIn(list) :
        \E p \in DOMAIN list : list[p].symbol = symbol /\ LastToken(symbol, list) = list[p].token
  BY <1>1, LastTokenLemma
<1> HIDE DEF list
<1>3. /\ \A i \in Old :
           /\ table[i].symbol = stocks[i].symbol
           /\ table[i].is_active <=> stocks[i].symbol \in SymbolsIn(list)
           /\ stocks[i].symbol \in SymbolsIn(list) =>
                table[i].token = LastToken(stocks[i].symbol, list)
      /\ \A i \in New(csv) : table[i].is_active
      /\ \A i \in New(csv) : \E p \in Unknown(csv) : IsRow(csv, i, p)
      /\ \A p \in Unknown(csv) : \E i \in New(csv) : IsRow(csv, i, p)
      /\ Old \subseteq DOMAIN table
  BY TableLemma DEF list
<1>4. New(csv) = DOMAIN table \ Old
  BY DEF New, Old
<1>5. \A i \in DOMAIN table, p \in DOMAIN list :
        IsRow(csv, i, p) <=> table[i].symbol = list[p].symbol /\ table[i].token = list[p].token
  BY Zenon DEF IsRow, list
<1>6. \A p \in DOMAIN list : p \in Unknown(csv) <=> list[p].symbol \notin SymbolsIn(stocks)
  BY DEF Unknown, list
<1>7. Unknown(csv) \subseteq DOMAIN list
  BY DEF Unknown, list
<1>8. Distinct(table)
  OBVIOUS
<1> HIDE DEF table
<1>9. ASSUME NEW i \in New(csv)
      PROVE  /\ table[i].symbol \in SymbolsIn(list)
             /\ table[i].token = LastToken(table[i].symbol, list)
  <2>1. PICK p \in Unknown(csv) : IsRow(csv, i, p)
    BY <1>3
  <2>2. /\ i \in DOMAIN table /\ p \in DOMAIN list
        /\ table[i].symbol = list[p].symbol /\ table[i].token = list[p].token
    BY <1>4, <1>5, <1>7, <2>1
  <2>3. table[i].symbol \in SymbolsIn(list)
    BY <2>2 DEF SymbolsIn
  <2>4. PICK q \in DOMAIN list : /\ list[q].symbol = table[i].symbol
                                 /\ LastToken(table[i].symbol, list) = list[q].token
    BY <1>2, <2>3
  <2>5. q \in Unknown(csv)
    BY <1>6, <2>1, <2>2, <2>4
  <2>6. PICK j \in New(csv) : IsRow(csv, j, q)
    BY <1>3, <2>5
  <2>7. /\ j \in DOMAIN table
        /\ table[j].symbol = list[q].symbol /\ table[j].token = list[q].token
    BY <1>4, <1>5, <2>6
  <2>8. i = j
    BY <1>8, <2>2, <2>4, <2>7 DEF Distinct
  <2> QED BY <2>3, <2>4, <2>7, <2>8
<1>10. ASSUME NEW i \in DOMAIN table, table[i].is_active
       PROVE  /\ table[i].symbol \in SymbolsIn(list)
              /\ table[i].token = LastToken(table[i].symbol, list)
  BY <1>3, <1>4, <1>9, <1>10
<1>11. ASSUME NEW symbol \in SymbolsIn(list)
       PROVE  \E i \in DOMAIN table : /\ table[i].is_active
                                      /\ table[i].symbol = symbol
  <2>1. CASE symbol \in SymbolsIn(stocks)
    <3>1. PICK i \in Old : stocks[i].symbol = symbol
      BY <2>1 DEF SymbolsIn, Old
    <3> QED BY <1>3, <3>1
  <2>2. CASE symbol \notin SymbolsIn(stocks)
    <3>1. PICK p \in DOMAIN list : list[p].symbol = symbol
      BY DEF SymbolsIn
    <3>2. PICK i \in New(csv) : IsRow(csv, i, p)
      BY <1>3, <1>6, <2>2, <3>1
    <3> QED BY <1>3, <1>4, <1>5, <3>1, <3>2
  <2> QED BY <2>1, <2>2
<1> QED BY <1>10, <1>11 DEF list, table

(* A master without a conflict is never rolled back.                       *)
LEMMA CleanLemma ==
  ASSUME StocksTyped, Distinct(stocks), NEW csv \in Masters, Clean(Parse(csv))
  PROVE  ~UpdateCollides(Updated(Parse(csv))) /\ ~InsertCollides(Table(csv))
<1> DEFINE list == Parse(csv)
           after == Updated(list)
           table == Table(csv)
<1>1. list \in Seq({csv[i] : i \in DOMAIN csv})
  BY ParseLemma
<1>2. \A symbol \in SymbolsIn(list) :
        \E p \in DOMAIN list : list[p].symbol = symbol /\ LastToken(symbol, list) = list[p].token
  BY <1>1, LastTokenLemma
<1> HIDE DEF list
<1>3. /\ \A i \in Old :
           /\ table[i] = after[i]
           /\ table[i].symbol = stocks[i].symbol
           /\ table[i].token = IF stocks[i].symbol \in SymbolsIn(list)
                               THEN LastToken(stocks[i].symbol, list) ELSE stocks[i].token
      /\ \A i \in New(csv) : \E p \in Unknown(csv) : IsRow(csv, i, p)
      /\ \A i, j \in New(csv) : i # j =>
           \E p, q \in Unknown(csv) : p # q /\ IsRow(csv, i, p) /\ IsRow(csv, j, q)
      /\ Old \subseteq DOMAIN table
  BY TableLemma DEF list
<1>4. New(csv) = DOMAIN table \ Old
  BY DEF New, Old
<1>5. \A i, p : IsRow(csv, i, p) <=>
        table[i].symbol = list[p].symbol /\ table[i].token = list[p].token
  BY Zenon DEF IsRow, list
<1>6. /\ Unknown(csv) \subseteq DOMAIN list
      /\ \A p \in Unknown(csv) : list[p].symbol \notin SymbolsIn(stocks)
  BY DEF Unknown, list
<1>7. /\ \A p, q \in DOMAIN list :
           p # q => list[p].symbol # list[q].symbol /\ list[p].token # list[q].token
      /\ \A p \in DOMAIN list, j \in Old :
           list[p].token = stocks[j].token => list[p].symbol = stocks[j].symbol
  BY DEF Clean, Old, list
<1>8. \A i, j \in Old :
        i # j => stocks[i].symbol # stocks[j].symbol /\ stocks[i].token # stocks[j].token
  BY DEF Distinct, Old
<1>9. \A i \in Old : stocks[i].symbol \in SymbolsIn(stocks)
  BY DEF SymbolsIn, Old
<1> HIDE DEF after, table
<1>10. ASSUME NEW i \in Old
       PROVE  \/ \E p \in DOMAIN list : IsRow(csv, i, p)
              \/ table[i].token = stocks[i].token
  BY <1>2, <1>3, <1>5
<1>11. ASSUME NEW i \in Old, NEW j \in Old, i # j
       PROVE  table[i].token # stocks[j].token
  BY <1>3, <1>5, <1>7, <1>8, <1>10, <1>11
<1>12. ASSUME NEW i \in Old, NEW j \in Old, i # j
       PROVE  table[i].token # table[j].token
  <2>1. CASE table[j].token = stocks[j].token
    BY <1>11, <1>12, <2>1
  <2>2. CASE table[i].token = stocks[i].token
    BY <1>11, <1>12, <2>2
  <2>3. CASE /\ \E p \in DOMAIN list : IsRow(csv, i, p)
             /\ \E q \in DOMAIN list : IsRow(csv, j, q)
    <3>1. PICK p \in DOMAIN list : IsRow(csv, i, p)
      BY <2>3
    <3>2. PICK q \in DOMAIN list : IsRow(csv, j, q)
      BY <2>3
    <3>3. p # q
      BY <1>3, <1>5, <1>8, <1>12, <3>1, <3>2
    <3> QED BY <1>5, <1>7, <3>1, <3>2, <3>3
  <2> QED BY <1>10, <2>1, <2>2, <2>3
<1>13. ~UpdateCollides(after)
  <2> SUFFICES ASSUME NEW i \in Old, NEW j \in Old, i # j
               PROVE  after[i].token # IF j < i THEN after[j].token ELSE stocks[j].token
    BY DEF UpdateCollides, Old
  <2> QED BY <1>3, <1>11, <1>12
<1>14. ASSUME NEW i \in New(csv), NEW j \in Old
       PROVE  table[i].symbol # table[j].symbol /\ table[i].token # table[j].token
  <2>1. PICK p \in Unknown(csv) : IsRow(csv, i, p)
    BY <1>3
  <2>2. table[i].symbol # table[j].symbol
    BY <1>3, <1>5, <1>6, <1>9, <2>1
  <2>3. table[i].token # stocks[j].token
    BY <1>5, <1>6, <1>7, <1>9, <2>1
  <2>4. CASE table[j].token = stocks[j].token
    BY <2>2, <2>3, <2>4
  <2>5. CASE \E q \in DOMAIN list : IsRow(csv, j, q)
    BY <1>5, <1>6, <1>7, <2>1, <2>2, <2>5
  <2> QED BY <1>10, <2>4, <2>5
<1>15. ASSUME NEW i \in New(csv), NEW j \in New(csv), i # j
       PROVE  table[i].symbol # table[j].symbol /\ table[i].token # table[j].token
  BY <1>3, <1>5, <1>6, <1>7, <1>15
<1>16. ASSUME NEW i \in Old, NEW j \in Old, i # j
       PROVE  table[i].symbol # table[j].symbol
  BY <1>3, <1>8, <1>16
<1>17. ~InsertCollides(table)
  <2> SUFFICES ASSUME NEW i \in DOMAIN table, NEW j \in DOMAIN table, i # j
               PROVE  table[i].symbol # table[j].symbol /\ table[i].token # table[j].token
    BY DEF InsertCollides
  <2>1. (i \in Old \/ i \in New(csv)) /\ (j \in Old \/ j \in New(csv))
    BY <1>4
  <2> QED BY <1>12, <1>14, <1>15, <1>16, <2>1
<1> QED BY <1>13, <1>17 DEF table, after, list
-----------------------------------------------------------------------------
(* What the synchronisations keep: unique columns and the mirror.          *)
SyncInv == StocksTyped /\ Distinct(stocks) /\ SyncMirrorsMaster

LEMMA SyncInvInit == SyncInit => SyncInv
<1> SUFFICES ASSUME SyncInit PROVE SyncInv
  OBVIOUS
<1>1. stocks = <<>> /\ mirror = {} /\ refusedClean = FALSE /\ DOMAIN stocks = {}
  BY DEF SyncInit
<1>2. StocksTyped
  BY <1>1 DEF StocksTyped
<1>3. Distinct(stocks)
  BY <1>1 DEF Distinct
<1>4. SyncMirrorsMaster
  BY <1>1 DEF SyncMirrorsMaster
<1> QED BY <1>2, <1>3, <1>4 DEF SyncInv

LEMMA SyncInvStep ==
  ASSUME SyncInv, NEW csv \in Masters, Sync(csv)
  PROVE  /\ SyncInv'
         /\ \/ stocks' = stocks
            \/ stocks' = Table(csv)
<1> DEFINE after == Updated(Parse(csv))
           commits == ~UpdateCollides(after) /\ ~InsertCollides(Table(csv))
<1>1. /\ stocks' = IF commits THEN Table(csv) ELSE stocks
      /\ mirror' = IF commits
                   THEN {<<symbol, LastToken(symbol, Parse(csv))>> :
                           symbol \in SymbolsIn(Parse(csv))}
                   ELSE mirror
      /\ refusedClean' = (refusedClean \/ (~commits /\ Clean(Parse(csv))))
  BY DEF Sync, Table
<1>2. StocksTyped /\ Distinct(stocks) /\ SyncMirrorsMaster
  BY DEF SyncInv
<1>3. ~refusedClean'
  <2>1. ~ (~commits /\ Clean(Parse(csv)))
    BY <1>2, CleanLemma
  <2>2. ~refusedClean
    BY <1>2 DEF SyncMirrorsMaster
  <2> QED BY <1>1, <2>1, <2>2
<1> HIDE DEF after
<1>4. CASE commits
  <2>1. Distinct(Table(csv))
    BY <1>4 DEF InsertCollides, Distinct
  <2>2. stocks' = Table(csv)
    BY <1>1, <1>4
  <2>3. mirror' = {<<symbol, LastToken(symbol, Parse(csv))>> :
                     symbol \in SymbolsIn(Parse(csv))}
    BY <1>1, <1>4
  <2>4. {<<Table(csv)[i].symbol, Table(csv)[i].token>> :
            i \in {j \in DOMAIN Table(csv) : Table(csv)[j].is_active}} = mirror'
    BY <1>2, <2>1, <2>3, MirrorLemma
  <2>5. Table(csv) \in Seq(Stock)
    BY <1>2, TableLemma
  <2>6. (StocksTyped /\ SyncMirrorsMaster)'
    BY <1>3, <2>2, <2>4, <2>5 DEF StocksTyped, SyncMirrorsMaster
  <2>7. Distinct(stocks)'
    BY <2>1, <2>2 DEF Distinct
  <2> QED BY <2>2, <2>6, <2>7 DEF SyncInv
<1>5. CASE ~commits
  <2>1. stocks' = stocks /\ mirror' = mirror
    BY <1>1, <1>5
  <2> QED BY <1>2, <1>3, <2>1 DEF SyncInv, StocksTyped, Distinct, SyncMirrorsMaster
<1> QED BY <1>4, <1>5
-----------------------------------------------------------------------------
(* The startup reads the symbols before the stocks: until the feed starts  *)
(* nothing is asked for, between the two queries the table is as it was    *)
(* unless a synchronisation tears it, and the socket only loses symbols.   *)
StartupInv ==
  /\ IdsStayTrue /\ ScreenerKnowsFeed
  /\ phase \in {"down", "token", "symbols", "stocks", "feed", "running"}
  /\ phase # "running" => symbols = {}
  /\ phase = "stocks" /\ ~torn => raw_symbols = {stocks[i].symbol : i \in Active}

FeedInv == SyncInv /\ StartupInv

LEMMA FeedInvInit == FeedInit => FeedInv
<1> SUFFICES ASSUME FeedInit PROVE FeedInv
  OBVIOUS
<1>1. SyncInv
  BY SyncInvInit DEF FeedInit
<1>2. StartupInv
  BY DEF FeedInit, StartupInv, IdsStayTrue, ScreenerKnowsFeed
<1> QED BY <1>1, <1>2 DEF FeedInv

LEMMA FeedInvStep == FeedInv /\ [FeedNext]_feedVars => FeedInv'
<1> SUFFICES ASSUME FeedInv, [FeedNext]_feedVars PROVE FeedInv'
  OBVIOUS
<1> USE DEF FeedInv
<1>1. ASSUME UNCHANGED syncVars PROVE SyncInv' /\ Active' = Active
  BY <1>1 DEF syncVars, SyncInv, StocksTyped, Distinct, SyncMirrorsMaster, Active
<1>2. ASSUME UNCHANGED <<syncVars, phase, torn, raw_symbols, symbol_to_stock_id>>,
             symbols' \subseteq symbols
      PROVE  StartupInv'
  BY <1>1, <1>2 DEF syncVars, StartupInv, IdsStayTrue, ScreenerKnowsFeed
<1>3. CASE ServerStart
  BY <1>1, <1>3 DEF ServerStart, socketVars, syncVars, StartupInv, IdsStayTrue,
       ScreenerKnowsFeed
<1>4. CASE KeepToken
  BY <1>1, <1>4 DEF KeepToken, socketVars, syncVars, StartupInv, IdsStayTrue,
       ScreenerKnowsFeed
<1>5. CASE RefreshToken
  BY <1>1, <1>5 DEF RefreshToken, socketVars, syncVars, StartupInv, IdsStayTrue,
       ScreenerKnowsFeed
<1>6. CASE LoadSymbols
  BY <1>1, <1>6 DEF LoadSymbols, socketVars, syncVars, StartupInv, IdsStayTrue,
       ScreenerKnowsFeed, Active
<1>7. CASE LoadStocks
  <2>1. /\ phase = "stocks" /\ phase' = "feed"
        /\ symbol_to_stock_id' = {<<stocks[i].symbol, i>> : i \in Active}
        /\ UNCHANGED <<syncVars, stocks, raw_symbols, torn, symbols>>
    BY <1>7 DEF LoadStocks, socketVars, syncVars
  <2>2. IdsStayTrue'
    BY <2>1 DEF IdsStayTrue, Active
  <2>3. {pair[1] : pair \in symbol_to_stock_id'} = {stocks[i].symbol : i \in Active}
    <3> DEFINE pairs == {<<stocks[i].symbol, i>> : i \in Active}
    <3>1. \A i \in Active : <<stocks[i].symbol, i>>[1] = stocks[i].symbol
      OBVIOUS
    <3>2. \A pair \in pairs : \E i \in Active : pair[1] = stocks[i].symbol
      OBVIOUS
    <3>3. \A i \in Active : <<stocks[i].symbol, i>> \in pairs
      OBVIOUS
    <3>4. \A i \in Active : \E pair \in pairs : pair[1] = stocks[i].symbol
      BY <3>1, <3>3
    <3> HIDE DEF pairs
    <3>5. {pair[1] : pair \in pairs} = {stocks[i].symbol : i \in Active}
      BY <3>2, <3>4
    <3> QED BY <2>1, <3>5 DEF pairs
  <2>4. symbols = {}
    BY <2>1 DEF StartupInv
  <2> QED BY <1>1, <2>1, <2>2, <2>3, <2>4 DEF StartupInv, ScreenerKnowsFeed
<1>8. CASE StartFeed
  <2>1. /\ phase = "feed" /\ phase' = "running"
        /\ symbols' \in {raw_symbols \ Delisted, {}}
        /\ UNCHANGED <<syncVars, stocks, raw_symbols, symbol_to_stock_id, torn>>
    BY <1>8 DEF StartFeed, syncVars
  <2> QED BY <1>1, <2>1 DEF StartupInv, ScreenerKnowsFeed, IdsStayTrue
<1>9. CASE ServerStops
  BY <1>1, <1>9 DEF ServerStops, syncVars, StartupInv, IdsStayTrue, ScreenerKnowsFeed
<1>10. CASE OnConnect
  BY <1>1, <1>2, <1>10 DEF OnConnect, serverVars
<1>11. CASE Answer
  BY <1>1, <1>2, <1>11 DEF Answer, Subscribed, Rejected, serverVars
<1>12. CASE OnError
  BY <1>1, <1>2, <1>12 DEF OnError, serverVars
<1>13. CASE SocketCloses
  BY <1>1, <1>2, <1>13 DEF SocketCloses, Disconnect, serverVars
<1>14. CASE \E token \in 0 .. issued : TokenExpires(token)
  BY <1>1, <1>2, <1>14 DEF TokenExpires, Disconnect, serverVars
<1>15. CASE Login
  BY <1>1, <1>2, <1>15 DEF Login, serverVars, socketVars
<1>16. ASSUME NEW csv \in Masters, SyncBeside(csv) PROVE FeedInv'
  <2>1. /\ Sync(csv)
        /\ torn' = (torn \/ (phase = "stocks" /\ stocks' # stocks))
        /\ UNCHANGED <<phase, raw_symbols, symbol_to_stock_id, symbols>>
    BY <1>16 DEF SyncBeside, socketVars
  <2>2. SyncInv' /\ (stocks' = stocks \/ stocks' = Table(csv))
    BY <2>1, SyncInvStep
  <2>3. \A i \in DOMAIN stocks : i \in DOMAIN stocks' /\ stocks'[i].symbol = stocks[i].symbol
    <3>1. CASE stocks' = stocks
      BY <3>1
    <3>2. CASE stocks' = Table(csv)
      BY <3>2, TableLemma DEF SyncInv, Old
    <3> QED BY <2>2, <3>1, <3>2
  <2>4. IdsStayTrue'
    BY <2>1, <2>3 DEF StartupInv, IdsStayTrue
  <2>5. phase = "stocks" /\ ~torn' => stocks' = stocks /\ Active' = Active /\ ~torn
    BY <2>1 DEF Active
  <2>6. ~torn' => ~torn
    BY <2>1
  <2> QED BY <2>1, <2>2, <2>4, <2>5, <2>6 DEF StartupInv, ScreenerKnowsFeed
<1>17. CASE UNCHANGED feedVars
  BY <1>1, <1>2, <1>17 DEF feedVars, serverVars, socketVars
<1> QED
  BY <1>3, <1>4, <1>5, <1>6, <1>7, <1>8, <1>9, <1>10, <1>11, <1>12, <1>13, <1>14,
     <1>15, <1>16, <1>17 DEF FeedNext

LEMMA FeedInvAlways == FeedSpec => []FeedInv
BY FeedInvInit, FeedInvStep, PTL DEF FeedSpec
-----------------------------------------------------------------------------
(* The active stocks are always those of the last master committed, with   *)
(* their tokens, and no master without a conflict is rolled back.          *)
THEOREM MirrorKept == FeedSpec => []SyncMirrorsMaster
<1>1. FeedInv => SyncMirrorsMaster
  BY DEF FeedInv, SyncInv
<1> QED BY <1>1, FeedInvAlways, PTL

(* The ids the screener works with name the stocks they were loaded for.   *)
THEOREM IdsKept == FeedSpec => []IdsStayTrue
<1>1. FeedInv => IdsStayTrue
  BY DEF FeedInv, StartupInv
<1> QED BY <1>1, FeedInvAlways, PTL

(* Screener and socket start with the same stocks unless a synchronisation *)
(* is committed between the two queries of the startup.                    *)
THEOREM StartupAgrees == FeedSpec => []ScreenerKnowsFeed
<1>1. FeedInv => ScreenerKnowsFeed
  BY DEF FeedInv, StartupInv
<1> QED BY <1>1, FeedInvAlways, PTL
=============================================================================
