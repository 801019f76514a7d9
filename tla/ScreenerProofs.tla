--------------------------- MODULE ScreenerProofs ----------------------------
(***************************************************************************)
(* Proofs about the screener, for all stocks, prices, messages and dates,  *)
(* any number of crashes, restarts, failed transactions and flushes.       *)
(*                                                                         *)
(*   ScreenerService: the screened set is the hysteresis rule read from    *)
(*     the whole history.  The argument is one step of the rule: a change  *)
(*     p screens a stock when it is 4 percent away, and keeps it screened  *)
(*     when it is 2 percent away.                                          *)
(*   ScreenerPipeline: types, the agreement of the two tables and of the   *)
(*     stream, and, when transactions succeed, the refinement of           *)
(*     ScreenedLedger.                                                     *)
(*   ScreenerFlush: what the evening flush inserts, and what a restart     *)
(*     loads after it.                                                     *)
(***************************************************************************)
EXTENDS ScreenerFlush, SequenceTheorems, TLAPS

USE ScreenerConstants, ScreenerNone, PipelineConstants

(* The code's comparisons with the two thresholds are those of the rule.   *)
LEMMA ThresholdLemma ==
  ASSUME NEW p \in Percentage
  PROVE  /\ Entering(p) <=> Moved(p, 4)
         /\ Leaving(p) <=> ~Moved(p, 2)
         /\ Moved(p, 4) => Moved(p, 2)
<1>1. p.n \in Int /\ p.d \in Nat /\ p.d # 0
  BY DEF Percentage
<1> QED BY <1>1 DEF Entering, Leaving, Moved, AtLeast, AtMost,
           ENTRY_THRESHOLD, EXIT_THRESHOLD

(* What a message says of the previous close and of the change is typed.   *)
LEMMA ClosesLemma ==
  ASSUME previous_closes \in [Stocks -> (Nat \ {0}) \cup {None}],
         NEW m \in Message, m.symbol \in Stocks
  PROVE  ClosesAfter(m) \in [Stocks -> (Nat \ {0}) \cup {None}]
<1>1. m.prev_close_price \in Int \cup {None}
  BY DEF Message
<1>2. ParsedClose(m) \in (Nat \ {0}) \cup {None}
  BY <1>1 DEF ParsedClose
<1> QED BY <1>2 DEF ClosesAfter

(* The change computed for a message is a percentage with a positive       *)
(* denominator, or none.                                                   *)
LEMMA ChangeLemma ==
  ASSUME previous_closes \in [Stocks -> (Nat \ {0}) \cup {None}],
         NEW m \in Message, m.symbol \in Stocks, m.ltp # None
  PROVE  ChangeOf(m) \in Percentage \cup {None}
<1> DEFINE close == ClosesAfter(m)[m.symbol]
<1>1. close \in (Nat \ {0}) \cup {None}
  <2>1. ClosesAfter(m) \in [Stocks -> (Nat \ {0}) \cup {None}]
    BY ClosesLemma
  <2> QED BY <2>1
<1>2. m.ltp \in Int /\ m.chp \in Int \cup {None}
  <2>1. m.ltp \in Prices \cup {None} /\ m.chp \in Changes \cup {None}
    BY DEF Message
  <2>2. m.ltp \in Int
    <3>1. m.ltp \in Prices
      BY <2>1
    <3>2. Prices \subseteq Int
      OBVIOUS
    <3> QED BY <3>1, <3>2
  <2>3. CASE m.chp \in Changes
    BY <2>2, <2>3
  <2> QED BY <2>1, <2>2, <2>3
<1>3. CASE m.chp # None
  <2>1. ChangeOf(m) = [n |-> m.chp, d |-> 100]
    BY <1>3 DEF ChangeOf
  <2> QED BY <1>2, <1>3, <2>1 DEF Percentage
<1>4. CASE m.chp = None /\ close # None
  <2>1. ChangeOf(m) = [n |-> 100 * (m.ltp - close), d |-> close]
    BY <1>4 DEF ChangeOf
  <2>2. 100 * (m.ltp - close) \in Int /\ close \in Nat \ {0}
    BY <1>1, <1>2, <1>4
  <2> QED BY <2>1, <2>2 DEF Percentage
<1>5. CASE m.chp = None /\ close = None
  BY <1>5 DEF ChangeOf
<1> QED BY <1>3, <1>4, <1>5

(* What is judged: a change of a known stock, appended to its history.     *)
LEMMA JudgeLemma ==
  ASSUME ScreenerTypeOK, NEW m \in Message, Judge(m)
  PROVE  /\ m.symbol \in Stocks
         /\ ChangeOf(m) \in Percentage
         /\ StateFor(m, ChangeOf(m)) \in ScreenedState
         /\ StateFor(m, ChangeOf(m)) # None
         /\ \A type \in {"SCREENED", "REMOVED"} :
              EventFor(type, m, ChangeOf(m)) \in ScreenerEvent
         /\ previous_closes' \in [Stocks -> (Nat \ {0}) \cup {None}]
         /\ changes' \in [Stocks -> Seq(Percentage)]
         /\ changes'[m.symbol] = Append(changes[m.symbol], ChangeOf(m))
         /\ \A s \in Stocks \ {m.symbol} : changes'[s] = changes[s]
         /\ restored' = restored
<1>1. m.symbol \in Stocks /\ m.ltp \in Prices /\ ChangeOf(m) # None
  BY DEF Judge, Message
<1>2. ChangeOf(m) \in Percentage
  BY <1>1, ChangeLemma DEF ScreenerTypeOK
<1>3. StateFor(m, ChangeOf(m)) \in ScreenedState
  BY <1>1, <1>2 DEF StateFor, ScreenedState
<1>4. \A type \in {"SCREENED", "REMOVED"} :
        EventFor(type, m, ChangeOf(m)) \in ScreenerEvent
  BY <1>1, <1>2 DEF EventFor, ScreenerEvent
<1>5. previous_closes' \in [Stocks -> (Nat \ {0}) \cup {None}]
  BY <1>1, ClosesLemma DEF Judge, ScreenerTypeOK
<1>6. /\ changes \in [Stocks -> Seq(Percentage)]
      /\ changes' = [changes EXCEPT ![m.symbol] = Append(@, ChangeOf(m))]
  BY DEF Judge, ScreenerTypeOK
<1>7. Append(changes[m.symbol], ChangeOf(m)) \in Seq(Percentage)
  BY <1>1, <1>2, <1>6
<1>8. restored' = restored
  BY DEF Judge
<1> QED BY <1>1, <1>2, <1>3, <1>4, <1>5, <1>6, <1>7, <1>8

(* Every message keeps the types.                                          *)
LEMMA ScreenerTypeStep ==
  ScreenerTypeOK /\ [ScreenerNext]_screenerVars => ScreenerTypeOK'
<1> SUFFICES ASSUME ScreenerTypeOK, [ScreenerNext]_screenerVars
             PROVE  ScreenerTypeOK'
  OBVIOUS
<1>1. ASSUME NEW m \in Message, Judge(m),
             screened' \in [Stocks -> ScreenedState \cup {None}],
             event_queue' \in Seq(ScreenerEvent)
      PROVE  ScreenerTypeOK'
  BY <1>1, JudgeLemma DEF ScreenerTypeOK
<1>2. ASSUME NEW m \in Message, Judge(m), NEW type \in {"SCREENED", "REMOVED"}
      PROVE  Append(event_queue, EventFor(type, m, ChangeOf(m)))
               \in Seq(ScreenerEvent)
  <2>1. EventFor(type, m, ChangeOf(m)) \in ScreenerEvent
    BY <1>2, JudgeLemma
  <2> QED BY <2>1 DEF ScreenerTypeOK
<1>3. ASSUME NEW m \in Message, Judge(m)
      PROVE  [screened EXCEPT ![m.symbol] = StateFor(m, ChangeOf(m))]
               \in [Stocks -> ScreenedState \cup {None}]
  <2>1. m.symbol \in Stocks /\ StateFor(m, ChangeOf(m)) \in ScreenedState
    BY <1>3, JudgeLemma
  <2> QED BY <2>1 DEF ScreenerTypeOK
<1>4. ASSUME NEW m \in Message, EnterScreened(m) PROVE ScreenerTypeOK'
  BY <1>1, <1>2, <1>3, <1>4 DEF EnterScreened
<1>5. ASSUME NEW m \in Message, StayOut(m) PROVE ScreenerTypeOK'
  <2>1. screened' = screened /\ event_queue' = event_queue
    BY <1>5 DEF StayOut
  <2> QED BY <1>1, <1>5, <2>1 DEF StayOut, ScreenerTypeOK
<1>6. ASSUME NEW m \in Message, LeaveScreened(m) PROVE ScreenerTypeOK'
  <2>1. screened' \in [Stocks -> ScreenedState \cup {None}]
    BY <1>6 DEF LeaveScreened, ScreenerTypeOK
  <2> QED BY <1>1, <1>2, <1>6, <2>1 DEF LeaveScreened
<1>7. ASSUME NEW m \in Message, StayScreened(m) PROVE ScreenerTypeOK'
  <2>1. event_queue' \in Seq(ScreenerEvent)
    BY <1>7 DEF StayScreened, ScreenerTypeOK
  <2> QED BY <1>1, <1>3, <1>7, <2>1 DEF StayScreened
<1>8. CASE UNCHANGED screenerVars
  BY <1>8 DEF screenerVars, ScreenerTypeOK
<1> QED BY <1>4, <1>5, <1>6, <1>7, <1>8
        DEF ScreenerNext, ProcessMessage, IgnoreMessage, NoBaseline

(* After a startup the screened stocks are the restored ones.              *)
LEMMA ScreenerInitLemma ==
  ASSUME ScreenerInit
  PROVE  /\ ScreenerTypeOK
         /\ \A s \in Stocks : s \in restored <=> screened[s] # None
         /\ \A s \in Stocks : changes[s] = <<>>
<1>1. PICK loaded \in [Stocks -> Rows \cup {None}] :
        Startup(loaded, previous_closes, screened, event_queue, restored, changes)
  BY DEF ScreenerInit
<1>2. Rows \subseteq ScreenedState
  <2>1. {[n |-> c, d |-> 100] : c \in Changes} \subseteq Percentage
    BY DEF Percentage
  <2> QED BY <2>1 DEF Rows, ScreenedState
<1>3. previous_closes \in [Stocks -> (Nat \ {0}) \cup {None}]
  BY <1>1 DEF Startup
<1>4. screened \in [Stocks -> ScreenedState \cup {None}] /\ screened = loaded
  BY <1>1, <1>2 DEF Startup
<1>5. changes \in [Stocks -> Seq(Percentage)]
      /\ \A s \in Stocks : changes[s] = <<>>
  BY <1>1 DEF Startup
<1>6. event_queue \in Seq(ScreenerEvent)
      /\ restored = {s \in Stocks : loaded[s] # None}
  BY <1>1 DEF Startup
<1> QED BY <1>3, <1>4, <1>5, <1>6 DEF ScreenerTypeOK

(* The screener keeps its types: every percentage has a positive           *)
(* denominator, so that no comparison with a threshold is reversed.        *)
THEOREM ScreenerTypeCorrect == ScreenerSpec => []ScreenerTypeOK
<1>1. ScreenerInit => ScreenerTypeOK
  BY ScreenerInitLemma
<1> QED BY <1>1, ScreenerTypeStep, PTL DEF ScreenerSpec

(* One step of the rule, for the stock whose history grows by p.           *)
LEMMA RuleLemma ==
  ASSUME NEW s \in Stocks, NEW p \in Percentage,
         changes[s] \in Seq(Percentage),
         changes'[s] = Append(changes[s], p), restored' = restored
  PROVE  ShouldBeScreened(s)'
           <=> Moved(p, 4) \/ (ShouldBeScreened(s) /\ Moved(p, 2))
<1> DEFINE c == changes[s]
           d == changes'[s]
<1>1. /\ Len(c) \in Nat /\ Len(d) = Len(c) + 1 /\ d[Len(c) + 1] = p
      /\ \A i \in 1 .. Len(c) : d[i] = c[i]
  OBVIOUS
<1> HIDE DEF c, d
<1>2. ASSUME NEW i \in 1 .. (Len(c) + 1)
      PROVE  NeverBack(d, i) <=> NeverBack(c, i) /\ Moved(p, 2)
  <2>1. \A j \in i .. Len(d) : j \in i .. Len(c) \/ j = Len(c) + 1
    BY <1>1
  <2>2. Len(c) + 1 \in i .. Len(d)
    BY <1>1
  <2>3. \A j \in i .. Len(c) : j \in i .. Len(d) /\ d[j] = c[j]
    BY <1>1
  <2>4. ASSUME NeverBack(d, i) PROVE NeverBack(c, i) /\ Moved(p, 2)
    BY <1>1, <2>2, <2>3, <2>4 DEF NeverBack
  <2>5. ASSUME NeverBack(c, i), Moved(p, 2) PROVE NeverBack(d, i)
    <3>1. ASSUME NEW j \in i .. Len(d) PROVE Moved(d[j], 2)
      BY <1>1, <2>1, <2>3, <2>5, <3>1 DEF NeverBack
    <3> QED BY <3>1 DEF NeverBack
  <2> QED BY <2>4, <2>5
<1>3. NeverBack(d, Len(c) + 2)
  BY <1>1 DEF NeverBack
<1>4. ASSUME ShouldBeScreened(s)'
      PROVE  Moved(p, 4) \/ (ShouldBeScreened(s) /\ Moved(p, 2))
  <2>1. CASE s \in restored /\ NeverBack(d, 1)
    <3>1. 1 \in 1 .. (Len(c) + 1)
      BY <1>1
    <3> QED BY <1>2, <2>1, <3>1 DEF ShouldBeScreened, c
  <2>2. ASSUME NEW i \in 1 .. Len(d), Moved(d[i], 4), NeverBack(d, i + 1)
        PROVE  Moved(p, 4) \/ (ShouldBeScreened(s) /\ Moved(p, 2))
    <3>1. CASE i = Len(c) + 1
      BY <1>1, <2>2, <3>1
    <3>2. CASE i \in 1 .. Len(c)
      <4>1. i + 1 \in 1 .. (Len(c) + 1) /\ d[i] = c[i]
        BY <1>1, <3>2
      <4>2. NeverBack(c, i + 1) /\ Moved(p, 2)
        BY <1>2, <2>2, <4>1
      <4> QED BY <2>2, <3>2, <4>1, <4>2 DEF ShouldBeScreened, c
    <3> QED BY <1>1, <3>1, <3>2
  <2> QED BY <1>4, <2>1, <2>2 DEF ShouldBeScreened, d
<1>5. ASSUME Moved(p, 4) PROVE ShouldBeScreened(s)'
  <2>1. Len(c) + 1 \in 1 .. Len(d) /\ (Len(c) + 1) + 1 = Len(c) + 2
    BY <1>1
  <2>2. Moved(d[Len(c) + 1], 4) /\ NeverBack(d, (Len(c) + 1) + 1)
    BY <1>1, <1>3, <1>5, <2>1
  <2> QED BY <2>1, <2>2 DEF ShouldBeScreened, d
<1>6. ASSUME ShouldBeScreened(s), Moved(p, 2) PROVE ShouldBeScreened(s)'
  <2>1. CASE s \in restored /\ NeverBack(c, 1)
    <3>1. 1 \in 1 .. (Len(c) + 1)
      BY <1>1
    <3>2. NeverBack(d, 1)
      BY <1>2, <1>6, <2>1, <3>1
    <3> QED BY <2>1, <3>2 DEF ShouldBeScreened, d
  <2>2. ASSUME NEW i \in 1 .. Len(c), Moved(c[i], 4), NeverBack(c, i + 1)
        PROVE  ShouldBeScreened(s)'
    <3>1. /\ i + 1 \in 1 .. (Len(c) + 1) /\ i \in 1 .. Len(d)
          /\ d[i] = c[i]
      BY <1>1
    <3>2. NeverBack(d, i + 1)
      BY <1>2, <1>6, <2>2, <3>1
    <3> QED BY <2>2, <3>1, <3>2 DEF ShouldBeScreened, d
  <2> QED BY <1>6, <2>1, <2>2 DEF ShouldBeScreened, c
<1> QED BY <1>4, <1>5, <1>6

(* A stock that is not judged keeps its place in the rule.                 *)
LEMMA OthersLemma ==
  ASSUME NEW s \in Stocks, changes'[s] = changes[s], restored' = restored
  PROVE  ShouldBeScreened(s)' <=> ShouldBeScreened(s)
BY DEF ShouldBeScreened, NeverBack

(* Every message keeps the rule: for its own stock by the rule's step, for *)
(* the others because nothing of theirs changes.                           *)
LEMMA HysteresisStep ==
  ScreenerTypeOK /\ ScreenedIffCrossed /\ [ScreenerNext]_screenerVars
    => ScreenedIffCrossed'
<1> SUFFICES ASSUME ScreenerTypeOK, ScreenedIffCrossed,
                    [ScreenerNext]_screenerVars
             PROVE  ScreenedIffCrossed'
  OBVIOUS
<1>1. ASSUME NEW m \in Message, Judge(m),
             \A s \in Stocks \ {m.symbol} : screened'[s] = screened[s],
             screened'[m.symbol] # None
               <=> \/ Moved(ChangeOf(m), 4)
                   \/ screened[m.symbol] # None /\ Moved(ChangeOf(m), 2)
      PROVE  ScreenedIffCrossed'
  <2>1. ASSUME NEW s \in Stocks, s # m.symbol
        PROVE  screened'[s] # None <=> ShouldBeScreened(s)'
    <3>1. ShouldBeScreened(s)' <=> ShouldBeScreened(s)
      BY <1>1, <2>1, JudgeLemma, OthersLemma
    <3> QED BY <1>1, <2>1, <3>1 DEF ScreenedIffCrossed
  <2>2. ASSUME NEW s \in Stocks, s = m.symbol
        PROVE  screened'[s] # None <=> ShouldBeScreened(s)'
    <3>1. /\ ChangeOf(m) \in Percentage /\ restored' = restored
          /\ changes'[s] = Append(changes[s], ChangeOf(m))
      BY <1>1, <2>2, JudgeLemma
    <3>2. changes[s] \in Seq(Percentage)
      BY DEF ScreenerTypeOK
    <3>3. ShouldBeScreened(s)'
            <=> \/ Moved(ChangeOf(m), 4)
                \/ ShouldBeScreened(s) /\ Moved(ChangeOf(m), 2)
      BY <3>1, <3>2, RuleLemma
    <3> QED BY <1>1, <2>2, <3>3 DEF ScreenedIffCrossed
  <2> QED BY <2>1, <2>2 DEF ScreenedIffCrossed
<1>2. ASSUME NEW m \in Message, EnterScreened(m) PROVE ScreenedIffCrossed'
  <2>1. Judge(m) /\ Entering(ChangeOf(m)) /\ m.symbol \in Stocks
        /\ screened' = [screened EXCEPT ![m.symbol] = StateFor(m, ChangeOf(m))]
    BY <1>2 DEF EnterScreened, Judge
  <2>2. Moved(ChangeOf(m), 4)
    BY <2>1, JudgeLemma, ThresholdLemma
  <2>3. screened'[m.symbol] # None
    BY <2>1, JudgeLemma DEF ScreenerTypeOK
  <2>4. \A s \in Stocks \ {m.symbol} : screened'[s] = screened[s]
    BY <2>1 DEF ScreenerTypeOK
  <2> QED BY <1>1, <2>1, <2>2, <2>3, <2>4
<1>3. ASSUME NEW m \in Message, StayOut(m) PROVE ScreenedIffCrossed'
  <2>1. Judge(m) /\ ~Entering(ChangeOf(m)) /\ m.symbol \in Stocks
        /\ screened[m.symbol] = None /\ screened' = screened
    BY <1>3 DEF StayOut, Judge
  <2>2. ~Moved(ChangeOf(m), 4)
    BY <2>1, JudgeLemma, ThresholdLemma
  <2> QED BY <1>1, <2>1, <2>2
<1>4. ASSUME NEW m \in Message, LeaveScreened(m) PROVE ScreenedIffCrossed'
  <2>1. Judge(m) /\ Leaving(ChangeOf(m)) /\ m.symbol \in Stocks
        /\ screened' = [screened EXCEPT ![m.symbol] = None]
    BY <1>4 DEF LeaveScreened, Judge
  <2>2. ~Moved(ChangeOf(m), 4) /\ ~Moved(ChangeOf(m), 2)
    BY <2>1, JudgeLemma, ThresholdLemma
  <2>3. screened'[m.symbol] = None
    BY <2>1 DEF ScreenerTypeOK
  <2>4. \A s \in Stocks \ {m.symbol} : screened'[s] = screened[s]
    BY <2>1 DEF ScreenerTypeOK
  <2> QED BY <1>1, <2>1, <2>2, <2>3, <2>4
<1>5. ASSUME NEW m \in Message, StayScreened(m) PROVE ScreenedIffCrossed'
  <2>1. Judge(m) /\ ~Leaving(ChangeOf(m)) /\ m.symbol \in Stocks
        /\ screened[m.symbol] # None
        /\ screened' = [screened EXCEPT ![m.symbol] = StateFor(m, ChangeOf(m))]
    BY <1>5 DEF StayScreened, Judge
  <2>2. Moved(ChangeOf(m), 2)
    BY <2>1, JudgeLemma, ThresholdLemma
  <2>3. screened'[m.symbol] # None
    BY <2>1, JudgeLemma DEF ScreenerTypeOK
  <2>4. \A s \in Stocks \ {m.symbol} : screened'[s] = screened[s]
    BY <2>1 DEF ScreenerTypeOK
  <2> QED BY <1>1, <2>1, <2>2, <2>3, <2>4
<1>6. CASE UNCHANGED screenerVars
  <2>1. screened' = screened /\ changes' = changes /\ restored' = restored
    BY <1>6 DEF screenerVars
  <2>2. \A s \in Stocks : ShouldBeScreened(s)' <=> ShouldBeScreened(s)
    BY <2>1, OthersLemma
  <2> QED BY <2>1, <2>2 DEF ScreenedIffCrossed
<1> QED BY <1>2, <1>3, <1>4, <1>5, <1>6
        DEF ScreenerNext, ProcessMessage, IgnoreMessage, NoBaseline

(* After every history of changes, reported or computed, a stock is in the *)
(* screened set exactly when the hysteresis rule says so.                  *)
THEOREM HysteresisCorrect == ScreenerSpec => []ScreenedIffCrossed
<1>1. ScreenerInit => ScreenedIffCrossed
  <2> SUFFICES ASSUME ScreenerInit, NEW s \in Stocks
               PROVE  screened[s] # None <=> ShouldBeScreened(s)
    BY DEF ScreenedIffCrossed
  <2>1. changes[s] = <<>> /\ (s \in restored <=> screened[s] # None)
    BY ScreenerInitLemma
  <2>2. Len(changes[s]) = 0
    BY <2>1
  <2> QED BY <2>1, <2>2 DEF ShouldBeScreened, NeverBack
<1> QED BY <1>1, HysteresisStep, ScreenerTypeCorrect, PTL DEF ScreenerSpec

(* Every message that is judged while its stock is screened refreshes what *)
(* is shown.                                                               *)
LEMMA LatestStep ==
  ScreenerTypeOK /\ ScreenedShowsLatest /\ [ScreenerNext]_screenerVars
    => ScreenedShowsLatest'
<1> SUFFICES ASSUME ScreenerTypeOK, ScreenedShowsLatest,
                    [ScreenerNext]_screenerVars
             PROVE  ScreenedShowsLatest'
  OBVIOUS
<1>1. ASSUME NEW m \in Message, Judge(m),
             \A s \in Stocks \ {m.symbol} : screened'[s] = screened[s],
             screened'[m.symbol] \in {None, StateFor(m, ChangeOf(m))}
      PROVE  ScreenedShowsLatest'
  <2>1. ASSUME NEW s \in Stocks, s # m.symbol,
               screened'[s] # None, changes'[s] # <<>>
        PROVE  screened'[s].percentage_change = changes'[s][Len(changes'[s])]
    <3>1. changes'[s] = changes[s] /\ screened'[s] = screened[s]
      BY <1>1, <2>1, JudgeLemma
    <3> QED BY <2>1, <3>1 DEF ScreenedShowsLatest
  <2>2. ASSUME NEW s \in Stocks, s = m.symbol, screened'[s] # None
        PROVE  screened'[s].percentage_change = changes'[s][Len(changes'[s])]
    <3>1. /\ changes'[s] = Append(changes[s], ChangeOf(m))
          /\ ChangeOf(m) \in Percentage
      BY <1>1, <2>2, JudgeLemma
    <3>2. changes[s] \in Seq(Percentage)
      BY DEF ScreenerTypeOK
    <3>3. changes'[s][Len(changes'[s])] = ChangeOf(m)
      BY <3>1, <3>2
    <3>4. screened'[s].percentage_change = ChangeOf(m)
      BY <1>1, <2>2 DEF StateFor
    <3> QED BY <3>3, <3>4
  <2> QED BY <2>1, <2>2 DEF ScreenedShowsLatest
<1>2. ASSUME NEW m \in Message, Judge(m), NEW x,
             screened' = [screened EXCEPT ![m.symbol] = x]
      PROVE  /\ \A s \in Stocks \ {m.symbol} : screened'[s] = screened[s]
             /\ screened'[m.symbol] = x
  BY <1>2, JudgeLemma DEF ScreenerTypeOK
<1>3. ASSUME NEW m \in Message, EnterScreened(m) PROVE ScreenedShowsLatest'
  BY <1>1, <1>2, <1>3 DEF EnterScreened
<1>4. ASSUME NEW m \in Message, StayOut(m) PROVE ScreenedShowsLatest'
  BY <1>1, <1>4 DEF StayOut
<1>5. ASSUME NEW m \in Message, LeaveScreened(m) PROVE ScreenedShowsLatest'
  BY <1>1, <1>2, <1>5 DEF LeaveScreened
<1>6. ASSUME NEW m \in Message, StayScreened(m) PROVE ScreenedShowsLatest'
  BY <1>1, <1>2, <1>6 DEF StayScreened
<1>7. CASE UNCHANGED screenerVars
  BY <1>7 DEF screenerVars, ScreenedShowsLatest
<1> QED BY <1>3, <1>4, <1>5, <1>6, <1>7
        DEF ScreenerNext, ProcessMessage, IgnoreMessage, NoBaseline

(* A screened stock shows the newest change computed for it. *)
THEOREM LatestShown == ScreenerSpec => []ScreenedShowsLatest
<1>1. ScreenerInit => ScreenedShowsLatest
  BY ScreenerInitLemma DEF ScreenedShowsLatest
<1> QED BY <1>1, LatestStep, ScreenerTypeCorrect, PTL DEF ScreenerSpec
-----------------------------------------------------------------------------
(* What a restart loads is typed.                                          *)
LEMMA RowsOnLemma ==
  ASSUME rows \in [Stocks \X Days -> Seq(ScreenedState)], NEW date \in Days
  PROVE  RowsOn(date) \in [Stocks -> ScreenedState \cup {None}]
<1>1. ASSUME NEW s \in Stocks, rows[<<s, date>>] # <<>>
      PROVE  rows[<<s, date>>][Len(rows[<<s, date>>])] \in ScreenedState
  <2>1. rows[<<s, date>>] \in Seq(ScreenedState)
    OBVIOUS
  <2> QED BY <1>1, <2>1
<1> QED BY <1>1 DEF RowsOn

(* A startup brings the screener into a typed state. *)
LEMMA StartupLemma ==
  ASSUME NEW r \in [Stocks -> ScreenedState \cup {None}],
         Startup(r, previous_closes', screened', event_queue', restored', changes')
  PROVE  ScreenerTypeOK'
<1>1. previous_closes' \in [Stocks -> (Nat \ {0}) \cup {None}]
  BY DEF Startup
<1>2. /\ screened' \in [Stocks -> ScreenedState \cup {None}]
      /\ event_queue' \in Seq(ScreenerEvent)
      /\ restored' \subseteq Stocks
      /\ changes' \in [Stocks -> Seq(Percentage)]
  <2>1. screened' = r /\ event_queue' = <<>>
    BY DEF Startup
  <2>2. restored' \subseteq Stocks /\ changes' = [s \in Stocks |-> <<>>]
    BY DEF Startup
  <2>3. [s \in Stocks |-> <<>>] \in [Stocks -> Seq(Percentage)]
    OBVIOUS
  <2> QED BY <2>1, <2>2, <2>3
<1> QED BY <1>1, <1>2 DEF ScreenerTypeOK

(* The first start: empty tables, and a typed screener.                    *)
LEMMA PipelineInitLemma == PipelineInit => PipelineTypeOK /\ RowIffLastLogged
<1> SUFFICES ASSUME PipelineInit PROVE PipelineTypeOK /\ RowIffLastLogged
  OBVIOUS
<1>1. 1 \in Days
  BY DEF Days
<1>2. ScreenerTypeOK
  <2>1. previous_closes \in [Stocks -> (Nat \ {0}) \cup {None}]
    BY DEF PipelineInit, Startup
  <2>2. /\ screened \in [Stocks -> ScreenedState \cup {None}]
        /\ event_queue \in Seq(ScreenerEvent)
        /\ restored \subseteq Stocks
        /\ changes \in [Stocks -> Seq(Percentage)]
    <3>1. screened = NoRows /\ event_queue = <<>>
      BY DEF PipelineInit, Startup
    <3>2. restored \subseteq Stocks /\ changes = [s \in Stocks |-> <<>>]
      BY DEF PipelineInit, Startup
    <3>3. NoRows \in [Stocks -> ScreenedState \cup {None}]
          /\ [s \in Stocks |-> <<>>] \in [Stocks -> Seq(Percentage)]
      BY DEF NoRows
    <3> QED BY <3>1, <3>2, <3>3
  <2> QED BY <2>1, <2>2 DEF ScreenerTypeOK
<1>3. PipelineTypeOK
  BY <1>1, <1>2 DEF PipelineInit, PipelineTypeOK
<1>4. RowIffLastLogged
  <2>1. ASSUME NEW s \in Stocks, NEW date \in Days
        PROVE  rows[<<s, date>>] = <<>> /\ Positions(s, date) = {}
    BY DEF PipelineInit, Positions
  <2> QED BY <2>1 DEF RowIffLastLogged, TablesAgreeOn
<1> QED BY <1>3, <1>4

(* Every step of feed, worker, failure and calendar keeps the types.       *)
LEMMA PipelineTypeStep ==
  PipelineTypeOK /\ [PipelineNext]_pipelineVars => PipelineTypeOK'
<1> SUFFICES ASSUME PipelineTypeOK, [PipelineNext]_pipelineVars
             PROVE  PipelineTypeOK'
  OBVIOUS
<1>1. ASSUME NEW m \in Message, Feed(m) PROVE PipelineTypeOK'
  <2>1. ScreenerTypeOK'
    BY <1>1, ScreenerTypeStep DEF Feed, ScreenerNext, PipelineTypeOK
  <2>2. entered' \in [Stocks -> Days \cup {0}]
    BY <1>1 DEF Feed, PipelineTypeOK
  <2> QED BY <1>1, <2>1, <2>2 DEF Feed, PipelineTypeOK, workerVars, tables
<1>2. CASE Dequeue
  <2>1. event_queue \in Seq(ScreenerEvent) /\ event_queue # <<>>
    BY <1>2 DEF Dequeue, PipelineTypeOK, ScreenerTypeOK
  <2>2. Head(event_queue) \in ScreenerEvent
        /\ Tail(event_queue) \in Seq(ScreenerEvent)
    BY <2>1
  <2>3. ScreenerTypeOK'
    BY <1>2, <2>2 DEF Dequeue, PipelineTypeOK, ScreenerTypeOK
  <2>4. inflight' \in ScreenerEvent /\ inflight' # None
    BY <1>2, <2>2 DEF Dequeue
  <2> QED BY <1>2, <2>3, <2>4 DEF Dequeue, PipelineTypeOK, tables, world
<1>3. ASSUME worker # "idle" PROVE InFlight \in Stored
  <2>1. inflight \in ScreenerEvent /\ trading_date \in Days
    BY <1>3 DEF PipelineTypeOK
  <2> QED BY <2>1 DEF InFlight, Stored
<1>4. CASE PushStream
  <2>1. ScreenerTypeOK'
    BY <1>4 DEF PushStream, PipelineTypeOK, ScreenerTypeOK, screenerVars
  <2>2. worker = "pushing"
    BY <1>4 DEF PushStream
  <2>3. stream' \in Seq(Stored)
    <3>1. InFlight \in Stored /\ stream \in Seq(Stored)
      BY <1>3, <2>2 DEF PipelineTypeOK
    <3> QED BY <1>4, <3>1 DEF PushStream
  <2>4. inflight' # None /\ inflight' \in ScreenerEvent
    BY <1>4, <2>2 DEF PushStream, PipelineTypeOK
  <2> QED BY <1>4, <2>1, <2>3, <2>4 DEF PushStream, PipelineTypeOK, world
<1>5. CASE Record
  <2>1. ScreenerTypeOK'
    BY <1>5 DEF Record, PipelineTypeOK, ScreenerTypeOK, screenerVars
  <2>2. inflight \in ScreenerEvent /\ trading_date \in Days
        /\ worker = "recording"
    BY <1>5 DEF Record, PipelineTypeOK
  <2>3. events' \in Seq(Stored)
    BY <1>3, <1>5, <2>2 DEF Record, PipelineTypeOK
  <2>4. StoredState(inflight) \in ScreenedState
        /\ inflight.stock_id \in Stocks
    BY <2>2 DEF StoredState, ScreenerEvent, ScreenedState
  <2>5. ASSUME NEW r \in Seq(ScreenedState)
        PROVE  Upsert(r, inflight) \in Seq(ScreenedState)
    <3>1. CASE r = <<>>
      BY <2>4, <3>1 DEF Upsert
    <3>2. CASE r # <<>>
      <4>1. Upsert(r, inflight) = [r EXCEPT ![1] = StoredState(inflight)]
        BY <3>2 DEF Upsert
      <4>2. Len(r) \in Nat /\ r \in [1 .. Len(r) -> ScreenedState]
        OBVIOUS
      <4>3. [r EXCEPT ![1] = StoredState(inflight)]
              \in [1 .. Len(r) -> ScreenedState]
        BY <2>4, <4>2
      <4> QED BY <4>1, <4>2, <4>3, SeqDef
    <3> QED BY <3>1, <3>2
  <2>6. rows' \in [Stocks \X Days -> Seq(ScreenedState)]
    BY <1>5, <2>2, <2>4, <2>5 DEF Record, RowsAfter, PipelineTypeOK
  <2> QED BY <1>5, <2>1, <2>3, <2>6 DEF Record, PipelineTypeOK, world
<1>6. CASE RecordFails
  <2>1. ScreenerTypeOK'
    BY <1>6 DEF RecordFails, PipelineTypeOK, ScreenerTypeOK, screenerVars
  <2> QED BY <1>6, <2>1 DEF RecordFails, PipelineTypeOK, tables, world
<1>7. CASE Crash
  <2>1. ScreenerTypeOK'
    BY <1>7 DEF Crash, NoRows, ScreenerTypeOK
  <2> QED BY <1>7, <2>1 DEF Crash, PipelineTypeOK, tables, world
<1>8. CASE Restart
  <2>1. RowsOn(today) \in [Stocks -> ScreenedState \cup {None}]
    BY RowsOnLemma DEF PipelineTypeOK
  <2>2. ScreenerTypeOK'
    BY <1>8, <2>1, StartupLemma DEF Restart
  <2> QED BY <1>8, <2>2 DEF Restart, PipelineTypeOK, workerVars, tables, world
<1>9. CASE Midnight
  <2>1. ScreenerTypeOK'
    BY <1>9 DEF Midnight, PipelineTypeOK, ScreenerTypeOK, screenerVars
  <2>2. today' \in Days
    BY <1>9 DEF Midnight, PipelineTypeOK, Days
  <2> QED BY <1>9, <2>1, <2>2 DEF Midnight, PipelineTypeOK, workerVars, tables
<1>10. CASE UNCHANGED pipelineVars
  <2>1. ScreenerTypeOK'
    BY <1>10 DEF pipelineVars, PipelineTypeOK, ScreenerTypeOK, screenerVars
  <2> QED BY <1>10, <2>1
          DEF pipelineVars, PipelineTypeOK, workerVars, tables, world
<1> QED BY <1>1, <1>2, <1>4, <1>5, <1>6, <1>7, <1>8, <1>9, <1>10
        DEF PipelineNext, ReliableNext

(* The server keeps its types through every failure; the worker holds an   *)
(* event exactly while it is at work on it.                                *)
THEOREM PipelineTypeCorrect == PipelineSpec => []PipelineTypeOK
<1> QED BY PipelineInitLemma, PipelineTypeStep, PTL DEF PipelineSpec

(* A commit is the newest event of its stock on its date ... *)
LEMMA NewestLemma ==
  ASSUME events \in Seq(Stored), NEW e \in Stored,
         events' = Append(events, e), NEW last, last = Len(events) + 1
  PROVE  /\ events'[last] = e
         /\ IsLastOf(last, e.event.stock_id, e.trading_date)'
         /\ \A i : IsLastOf(i, e.event.stock_id, e.trading_date)' => i = last
<1>1. /\ Len(events) \in Nat /\ Len(events') = last /\ events'[last] = e
      /\ last \in 1 .. Len(events')
  OBVIOUS
<1>2. last \in Positions(e.event.stock_id, e.trading_date)'
  BY <1>1 DEF Positions
<1>3. ASSUME NEW i \in Positions(e.event.stock_id, e.trading_date)'
      PROVE  i \in Int /\ i <= last
  BY <1>1 DEF Positions
<1>4. IsLastOf(last, e.event.stock_id, e.trading_date)'
  BY <1>2, <1>3 DEF IsLastOf
<1>5. ASSUME NEW i, IsLastOf(i, e.event.stock_id, e.trading_date)'
      PROVE  i = last
  <2>1. i \in Positions(e.event.stock_id, e.trading_date)' /\ last <= i
    BY <1>2, <1>5 DEF IsLastOf
  <2> QED BY <1>1, <1>3, <2>1
<1> QED BY <1>1, <1>4, <1>5

(* ... and no event of any other stock or date. *)
LEMMA OthersKeepLemma ==
  ASSUME events \in Seq(Stored), NEW e \in Stored,
         events' = Append(events, e), NEW s \in Stocks, NEW date \in Days,
         ~(e.event.stock_id = s /\ e.trading_date = date)
  PROVE  /\ Positions(s, date)' = Positions(s, date)
         /\ \A i \in Positions(s, date) : events'[i] = events[i]
<1>1. /\ Len(events) \in Nat /\ Len(events') = Len(events) + 1
      /\ events'[Len(events) + 1] = e
      /\ \A i \in 1 .. Len(events) : events'[i] = events[i]
  OBVIOUS
<1>2. \A i : i \in 1 .. Len(events')
               <=> i \in 1 .. Len(events) \/ i = Len(events) + 1
  BY <1>1
<1>3. \A i \in Positions(s, date) : i \in 1 .. Len(events)
  BY DEF Positions
<1>4. \A i : i \in Positions(s, date)' <=> i \in Positions(s, date)
  BY <1>1, <1>2 DEF Positions
<1>5. Positions(s, date)' = Positions(s, date)
  BY <1>4
<1> QED BY <1>1, <1>3, <1>5

(* A commit keeps the two tables in agreement on every stock and date ...   *)
LEMMA RecordAgrees ==
  ASSUME Record, inflight \in ScreenerEvent, trading_date \in Days,
         events \in Seq(Stored), DOMAIN rows = Stocks \X Days,
         NEW s \in Stocks, NEW date \in Days, TablesAgreeOn(s, date)
  PROVE  TablesAgreeOn(s, date)'
<1> PICK last : last = Len(events) + 1
  OBVIOUS
<1>1. /\ InFlight \in Stored
      /\ events' = Append(events, InFlight)
      /\ rows' = RowsAfter(inflight, trading_date)
  BY DEF Record, InFlight, Stored
<1>2. /\ inflight.stock_id \in Stocks
      /\ inflight.event_type \in {"SCREENED", "REMOVED"}
      /\ InFlight.event = inflight /\ InFlight.trading_date = trading_date
  BY DEF ScreenerEvent, InFlight
<1>3. CASE inflight.stock_id = s /\ trading_date = date
  <2>1. /\ IsLastOf(last, s, date)' /\ events'[last] = InFlight
        /\ \A i \in Positions(s, date)' :
             IsLastOf(i, s, date)' => i = last
    BY <1>1, <1>2, <1>3, NewestLemma
  <2>2. last \in Positions(s, date)'
    BY <2>1 DEF IsLastOf
  <2>3. rows'[<<s, date>>] =
          IF inflight.event_type = "SCREENED"
          THEN Upsert(rows[<<s, date>>], inflight) ELSE <<>>
    BY <1>1, <1>2, <1>3 DEF RowsAfter
  <2>4. CASE inflight.event_type = "REMOVED"
    BY <1>2, <2>1, <2>3, <2>4 DEF TablesAgreeOn
  <2>5. CASE inflight.event_type = "SCREENED"
    <3>1. rows[<<s, date>>] = <<>> \/ \E x : rows[<<s, date>>] = <<x>>
      BY DEF TablesAgreeOn
    <3>2. Upsert(rows[<<s, date>>], inflight) = <<StoredState(inflight)>>
      BY <3>1 DEF Upsert
    <3> QED BY <1>2, <2>1, <2>2, <2>3, <2>5, <3>2 DEF TablesAgreeOn
  <2> QED BY <1>2, <2>4, <2>5
<1>4. CASE ~(inflight.stock_id = s /\ trading_date = date)
  <2>1. /\ Positions(s, date)' = Positions(s, date)
        /\ \A i \in Positions(s, date) : events'[i] = events[i]
    <3>1. ~(InFlight.event.stock_id = s /\ InFlight.trading_date = date)
      BY <1>2, <1>4
    <3> QED BY <1>1, <3>1, OthersKeepLemma
  <2>2. \A i : IsLastOf(i, s, date)' <=> IsLastOf(i, s, date)
    BY <2>1 DEF IsLastOf
  <2>3. rows'[<<s, date>>] = rows[<<s, date>>]
    BY <1>1, <1>2, <1>4 DEF RowsAfter
  <2> QED BY <2>1, <2>2, <2>3 DEF TablesAgreeOn
<1> QED BY <1>3, <1>4

(* ... and nothing else touches them.                                      *)
LEMMA OthersAgree ==
  ASSUME NEW s \in Stocks, NEW date \in Days, TablesAgreeOn(s, date),
         rows'[<<s, date>>] = rows[<<s, date>>], events' = events
  PROVE  TablesAgreeOn(s, date)'
<1>1. /\ Positions(s, date)' = Positions(s, date)
      /\ \A i : IsLastOf(i, s, date)' <=> IsLastOf(i, s, date)
  BY DEF Positions, IsLastOf
<1> QED BY <1>1 DEF TablesAgreeOn

(* Every step but a commit leaves both tables alone.                       *)
LEMMA TablesStep ==
  ASSUME [PipelineNext]_pipelineVars, ~Record
  PROVE  UNCHANGED <<rows, events>>
BY DEF PipelineNext, ReliableNext, Feed, Dequeue, PushStream, RecordFails, Crash,
       Restart, Midnight, pipelineVars, tables

(* So they agree after every step.                                         *)
LEMMA RowIffLastStep ==
  PipelineTypeOK /\ RowIffLastLogged /\ [PipelineNext]_pipelineVars
    => RowIffLastLogged'
<1> SUFFICES ASSUME PipelineTypeOK, RowIffLastLogged, [PipelineNext]_pipelineVars,
                    NEW s \in Stocks, NEW date \in Days
             PROVE  TablesAgreeOn(s, date)'
  BY DEF RowIffLastLogged
<1>1. TablesAgreeOn(s, date)
  BY DEF RowIffLastLogged
<1>2. CASE Record
  <2>1. /\ inflight \in ScreenerEvent /\ trading_date \in Days
        /\ events \in Seq(Stored) /\ DOMAIN rows = Stocks \X Days
    BY <1>2 DEF Record, PipelineTypeOK
  <2> QED BY <1>1, <1>2, <2>1, RecordAgrees
<1>3. CASE ~Record
  BY <1>1, <1>3, TablesStep, OthersAgree
<1> QED BY <1>2, <1>3

(* Whatever crashes, restarts and transactions that fail: a stock has one  *)
(* row for a date when its last event of the date is an entry, and it is   *)
(* that entry, and otherwise none.                                         *)
THEOREM TablesAgree == PipelineSpec => []RowIffLastLogged
<1>1. PipelineInit => RowIffLastLogged
  BY PipelineInitLemma
<1> QED BY <1>1, RowIffLastStep, PipelineTypeCorrect, PTL DEF PipelineSpec

(* What the table and the queue make of a ledger. *)
LEMMA EntriesLemma ==
  ASSUME NEW log \in Seq(Stored), NEW from \in 0 .. Len(log),
         NEW p \in Seq(ScreenerEvent)
  PROVE  /\ Len(log) - from \in Nat
         /\ EntriesOf(log, from, p) \in Seq(Ledger!Entry)
         /\ Len(EntriesOf(log, from, p)) = (Len(log) - from) + Len(p)
         /\ \A i \in 1 .. (Len(log) - from) :
              EntriesOf(log, from, p)[i] = AsEntry(log[from + i].event)
         /\ \A i \in 1 .. Len(p) :
              EntriesOf(log, from, p)[(Len(log) - from) + i] = AsEntry(p[i])
<1> DEFINE d == Len(log) - from
           n == d + Len(p)
           t == EntriesOf(log, from, p)
<1>1. d \in Nat /\ Len(p) \in Nat /\ n \in Nat /\ Len(log) \in Nat /\ from \in Nat
  OBVIOUS
<1>2. \A i \in 1 .. d : from + i \in 1 .. Len(log)
  BY <1>1
<1>3. ASSUME NEW e \in ScreenerEvent PROVE AsEntry(e) \in Ledger!Entry
  BY DEF ScreenerEvent, AsEntry, Ledger!Entry
<1>4. t = [i \in 1 .. n |-> AsEntry(IF i <= d THEN log[from + i].event
                                    ELSE p[i - d])]
  BY DEF EntriesOf
<1>5. ASSUME NEW i \in 1 .. d
      PROVE  /\ i \in 1 .. n /\ log[from + i].event \in ScreenerEvent
             /\ t[i] = AsEntry(log[from + i].event)
  <2>1. i \in 1 .. n /\ i <= d
    BY <1>1
  <2>2. log[from + i] \in Stored
    BY <1>2
  <2>3. log[from + i].event \in ScreenerEvent
    BY <2>2 DEF Stored
  <2> HIDE DEF n, d, t
  <2> QED BY <1>4, <2>1, <2>3
<1>6. ASSUME NEW i \in 1 .. Len(p)
      PROVE  d + i \in 1 .. n /\ t[d + i] = AsEntry(p[i])
  <2>1. d + i \in 1 .. n /\ ~(d + i <= d) /\ (d + i) - d = i
    BY <1>1
  <2> HIDE DEF n, d, t
  <2> QED BY <1>4, <2>1
<1>7. ASSUME NEW i \in 1 .. n PROVE t[i] \in Ledger!Entry
  <2>1. CASE i \in 1 .. d
    BY <1>3, <1>5, <2>1
  <2>2. CASE i \notin 1 .. d
    <3>1. i - d \in 1 .. Len(p) /\ d + (i - d) = i
      BY <1>1, <2>2
    <3>2. p[i - d] \in ScreenerEvent
      BY <3>1
    <3>3. t[d + (i - d)] = AsEntry(p[i - d])
      BY <1>6, <3>1
    <3> HIDE DEF t, d, n
    <3> QED BY <1>3, <3>1, <3>2, <3>3
  <2> QED BY <2>1, <2>2
<1>8. t \in [1 .. n -> Ledger!Entry]
  <2> HIDE DEF t, d
  <2>1. DOMAIN t = 1 .. n
    BY <1>4
  <2> QED BY <1>4, <1>7, <2>1
<1>9. t \in Seq(Ledger!Entry) /\ Len(t) = n
  <2> HIDE DEF t, n
  <2> QED BY <1>1, <1>8
<1> QED BY <1>1, <1>5, <1>6, <1>9

(* An event that is queued is the next entry of the ledger.                *)
LEMMA EntryQueued ==
  ASSUME NEW log \in Seq(Stored), NEW from \in 0 .. Len(log),
         NEW p \in Seq(ScreenerEvent), NEW e \in ScreenerEvent
  PROVE  EntriesOf(log, from, Append(p, e)) =
           Append(EntriesOf(log, from, p), AsEntry(e))
<1>0. ASSUME NEW q \in Seq(ScreenerEvent)
      PROVE  /\ Len(log) - from \in Nat
             /\ EntriesOf(log, from, q) \in Seq(Ledger!Entry)
             /\ Len(EntriesOf(log, from, q)) = (Len(log) - from) + Len(q)
             /\ \A i \in 1 .. (Len(log) - from) :
                  EntriesOf(log, from, q)[i] = AsEntry(log[from + i].event)
             /\ \A i \in 1 .. Len(q) :
                  EntriesOf(log, from, q)[(Len(log) - from) + i] = AsEntry(q[i])
  BY EntriesLemma
<1> DEFINE d == Len(log) - from
           s == EntriesOf(log, from, p)
           t == EntriesOf(log, from, Append(p, e))
<1>1. /\ Append(p, e) \in Seq(ScreenerEvent) /\ Len(Append(p, e)) = Len(p) + 1
      /\ Append(p, e)[Len(p) + 1] = e
      /\ \A i \in 1 .. Len(p) : Append(p, e)[i] = p[i]
      /\ Len(p) \in Nat
  OBVIOUS
<1>2. /\ d \in Nat /\ s \in Seq(Ledger!Entry) /\ Len(s) = d + Len(p)
      /\ \A i \in 1 .. d : s[i] = AsEntry(log[from + i].event)
      /\ \A i \in 1 .. Len(p) : s[d + i] = AsEntry(p[i])
  BY EntriesLemma
<1>3. /\ t \in Seq(Ledger!Entry) /\ Len(t) = d + (Len(p) + 1)
      /\ \A i \in 1 .. d : t[i] = AsEntry(log[from + i].event)
      /\ \A i \in 1 .. (Len(p) + 1) : t[d + i] = AsEntry(Append(p, e)[i])
  <2> DEFINE q == Append(p, e)
  <2>1. q \in Seq(ScreenerEvent) /\ Len(q) = Len(p) + 1
    BY <1>1
  <2> HIDE DEF q
  <2>2. /\ EntriesOf(log, from, q) \in Seq(Ledger!Entry)
        /\ Len(EntriesOf(log, from, q)) = d + Len(q)
        /\ \A i \in 1 .. d : EntriesOf(log, from, q)[i] = AsEntry(log[from + i].event)
        /\ \A i \in 1 .. Len(q) : EntriesOf(log, from, q)[d + i] = AsEntry(q[i])
    BY <1>0, <2>1
  <2> QED BY <2>1, <2>2 DEF q
<1>4. AsEntry(e) \in Ledger!Entry
  BY DEF ScreenerEvent, AsEntry, Ledger!Entry
<1> DEFINE u == Append(s, AsEntry(e))
<1>5. /\ u \in Seq(Ledger!Entry) /\ Len(u) = Len(s) + 1
      /\ u[Len(s) + 1] = AsEntry(e) /\ \A i \in 1 .. Len(s) : u[i] = s[i]
  <2> HIDE DEF s
  <2> QED BY <1>2, <1>4
<1> HIDE DEF s, t, u, d
<1>6. ASSUME NEW i \in 1 .. Len(t) PROVE t[i] = u[i]
  <2>1. CASE i \in 1 .. d
    <3>1. i \in 1 .. Len(s)
      BY <1>1, <1>2, <2>1
    <3> QED BY <1>2, <1>3, <1>5, <2>1, <3>1
  <2>2. CASE i = d + (Len(p) + 1)
    <3>1. Len(p) + 1 \in 1 .. (Len(p) + 1)
      BY <1>1
    <3>2. t[d + (Len(p) + 1)] = AsEntry(e)
      BY <1>1, <1>3, <3>1
    <3>3. i = Len(s) + 1
      BY <1>1, <1>2, <2>2
    <3> QED BY <1>5, <2>2, <3>2, <3>3
  <2>3. CASE i \notin 1 .. d /\ i # d + (Len(p) + 1)
    <3>0. d \in Nat /\ Len(p) \in Nat /\ Len(s) = d + Len(p)
          /\ Len(t) = d + (Len(p) + 1)
      BY <1>1, <1>2, <1>3
    <3>1. i - d \in 1 .. Len(p) /\ d + (i - d) = i /\ i \in 1 .. Len(s)
          /\ i - d \in 1 .. (Len(p) + 1)
      BY <3>0, <2>3
    <3>2. t[i] = AsEntry(p[i - d])
      BY <1>1, <1>3, <3>1
    <3>3. u[i] = AsEntry(p[i - d])
      BY <1>2, <1>5, <3>1
    <3> QED BY <3>2, <3>3
  <2> QED BY <2>1, <2>2, <2>3
<1>7. t = u
  <2>1. Len(t) = Len(u)
    BY <1>1, <1>2, <1>3, <1>5
  <2> QED BY <1>3, <1>5, <1>6, <2>1, SeqEqual, Zenon
<1> QED BY <1>7 DEF t, u, s

(* What a crash leaves is what was recorded.                               *)
LEMMA EntriesRecorded ==
  ASSUME NEW log \in Seq(Stored), NEW from \in 0 .. Len(log),
         NEW p \in Seq(ScreenerEvent)
  PROVE  EntriesOf(log, from, <<>>) =
           SubSeq(EntriesOf(log, from, p), 1, Len(log) - from)
<1>0. ASSUME NEW q \in Seq(ScreenerEvent)
      PROVE  /\ EntriesOf(log, from, q) \in Seq(Ledger!Entry)
             /\ Len(EntriesOf(log, from, q)) = (Len(log) - from) + Len(q)
             /\ \A i \in 1 .. (Len(log) - from) :
                  EntriesOf(log, from, q)[i] = AsEntry(log[from + i].event)
             /\ \A i \in 1 .. Len(q) :
                  EntriesOf(log, from, q)[(Len(log) - from) + i] = AsEntry(q[i])
  BY EntriesLemma
<1> DEFINE d == Len(log) - from
           s == EntriesOf(log, from, p)
           t == EntriesOf(log, from, <<>>)
<1>1. /\ d \in Nat /\ s \in Seq(Ledger!Entry) /\ Len(s) = d + Len(p)
      /\ \A i \in 1 .. d : s[i] = AsEntry(log[from + i].event)
  BY EntriesLemma
<1>2. <<>> \in Seq(ScreenerEvent) /\ Len(<<>>) = 0 /\ Len(p) \in Nat
  OBVIOUS
<1>3. /\ t \in Seq(Ledger!Entry) /\ Len(t) = d
      /\ \A i \in 1 .. d : t[i] = AsEntry(log[from + i].event)
  <2> DEFINE q == <<>>
  <2>1. q \in Seq(ScreenerEvent) /\ Len(q) = 0
    BY <1>2
  <2> HIDE DEF q
  <2>2. /\ EntriesOf(log, from, q) \in Seq(Ledger!Entry)
        /\ Len(EntriesOf(log, from, q)) = d + Len(q)
        /\ \A i \in 1 .. d : EntriesOf(log, from, q)[i] = AsEntry(log[from + i].event)
    BY <1>0, <2>1
  <2> QED BY <1>1, <2>1, <2>2 DEF q
<1> DEFINE u == SubSeq(s, 1, d)
<1> HIDE DEF s, t, d
<1>4. u = [i \in 1 .. d |-> s[i]]
  <2>1. 1 \in Int /\ d \in Int /\ \A i \in 1 .. d : s[i] \in Ledger!Entry
    BY <1>1, <1>2
  <2> QED BY <2>1, SubSeqProperties
<1>5. t = [i \in 1 .. d |-> t[i]]
  BY <1>3
<1> QED BY <1>1, <1>3, <1>4, <1>5 DEF t, s, d

(* Recording the oldest event in hand leaves the ledger as it is.          *)
LEMMA EntryRecorded ==
  ASSUME NEW log \in Seq(Stored), NEW from \in 0 .. Len(log),
         NEW p \in Seq(ScreenerEvent), NEW r \in Stored
  PROVE  EntriesOf(Append(log, r), from, p) =
           EntriesOf(log, from, <<r.event>> \o p)
<1>0. ASSUME NEW g \in Seq(Stored), from \in 0 .. Len(g),
             NEW q \in Seq(ScreenerEvent)
      PROVE  /\ EntriesOf(g, from, q) \in Seq(Ledger!Entry)
             /\ Len(EntriesOf(g, from, q)) = (Len(g) - from) + Len(q)
             /\ \A i \in 1 .. (Len(g) - from) :
                  EntriesOf(g, from, q)[i] = AsEntry(g[from + i].event)
             /\ \A i \in 1 .. Len(q) :
                  EntriesOf(g, from, q)[(Len(g) - from) + i] = AsEntry(q[i])
  BY <1>0, EntriesLemma
<1>1. r.event \in ScreenerEvent
  BY DEF Stored
<1> DEFINE q == <<r.event>> \o p
           g == Append(log, r)
           d == Len(log) - from
           s == EntriesOf(log, from, q)
           t == EntriesOf(g, from, p)
<1>2. /\ q \in Seq(ScreenerEvent) /\ Len(q) = Len(p) + 1
      /\ q[1] = r.event /\ \A i \in 1 .. Len(p) : q[1 + i] = p[i]
      /\ Len(p) \in Nat
  BY <1>1
<1>3. /\ g \in Seq(Stored) /\ Len(g) = Len(log) + 1 /\ g[Len(log) + 1] = r
      /\ \A i \in 1 .. Len(log) : g[i] = log[i]
      /\ Len(log) \in Nat /\ from \in 0 .. Len(g) /\ d \in Nat
      /\ Len(g) - from = d + 1 /\ from \in Nat
  OBVIOUS
<1> HIDE DEF q, g
<1>4. /\ s \in Seq(Ledger!Entry) /\ Len(s) = d + Len(q)
      /\ \A i \in 1 .. d : s[i] = AsEntry(log[from + i].event)
      /\ \A i \in 1 .. Len(q) : s[d + i] = AsEntry(q[i])
  BY <1>0, <1>2
<1>5. /\ t \in Seq(Ledger!Entry) /\ Len(t) = (Len(g) - from) + Len(p)
      /\ \A i \in 1 .. (Len(g) - from) : t[i] = AsEntry(g[from + i].event)
      /\ \A i \in 1 .. Len(p) : t[(Len(g) - from) + i] = AsEntry(p[i])
  BY <1>0, <1>3
<1>6. \A i \in 1 .. d : g[from + i] = log[from + i]
  <2>1. \A i \in 1 .. d : from + i \in 1 .. Len(log)
    BY <1>3 DEF d
  <2> QED BY <1>3, <2>1
<1>7. from + (d + 1) = Len(log) + 1
  BY <1>3
<1> HIDE DEF s, t, d
<1>8. Len(s) = Len(t) /\ Len(s) = d + (Len(p) + 1)
  <2>1. Len(s) = d + Len(q) /\ Len(q) = Len(p) + 1 /\ d \in Nat /\ Len(p) \in Nat
    BY <1>2, <1>3, <1>4
  <2>2. Len(t) = (Len(g) - from) + Len(p) /\ Len(g) - from = d + 1
    BY <1>3, <1>5
  <2>3. Len(t) = (d + 1) + Len(p)
    BY <2>2
  <2> QED BY <2>1, <2>3
<1>9. ASSUME NEW i \in 1 .. Len(s) PROVE s[i] = t[i]
  <2>1. CASE i \in 1 .. d
    <3>1. i \in 1 .. (d + 1) /\ i \in 1 .. (Len(g) - from)
      <4>1. d \in Nat /\ Len(g) - from = d + 1
        BY <1>3
      <4> QED BY <2>1, <4>1
    <3>2. s[i] = AsEntry(log[from + i].event)
      BY <1>4, <2>1
    <3>3. t[i] = AsEntry(g[from + i].event)
      BY <1>5, <3>1
    <3> QED BY <1>6, <2>1, <3>2, <3>3
  <2>2. CASE i = d + 1
    <3>1. 1 \in 1 .. Len(q) /\ d + 1 \in 1 .. (d + 1)
      BY <1>2, <1>3
    <3>2. s[d + 1] = AsEntry(r.event)
      BY <1>2, <1>4, <3>1
    <3>3. t[d + 1] = AsEntry(r.event)
      BY <1>3, <1>5, <1>7, <3>1
    <3> QED BY <2>2, <3>2, <3>3
  <2>3. CASE i \notin 1 .. d /\ i # d + 1
    <3> DEFINE j == i - (d + 1)
    <3>1. /\ j \in 1 .. Len(p) /\ (d + 1) + j = i
          /\ 1 + j \in 1 .. Len(q) /\ d + (1 + j) = i
      <4>1. d \in Nat /\ Len(p) \in Nat /\ i \in 1 .. (d + (Len(p) + 1))
        BY <1>2, <1>3, <1>8
      <4>2. Len(q) = Len(p) + 1
        BY <1>2
      <4> QED BY <2>3, <4>1, <4>2
    <3> HIDE DEF j
    <3>2. s[d + (1 + j)] = AsEntry(q[1 + j]) /\ q[1 + j] = p[j]
      BY <1>2, <1>4, <3>1
    <3>3. t[(d + 1) + j] = AsEntry(p[j])
      BY <1>3, <1>5, <3>1
    <3> QED BY <3>1, <3>2, <3>3
  <2> QED BY <2>1, <2>2, <2>3
<1>10. s = t
  BY <1>4, <1>5, <1>8, <1>9, SeqEqual, Zenon
<1> QED BY <1>10 DEF s, t, q, g

(* Nothing recorded on the date and nothing in hand is an empty ledger.    *)
LEMMA EntriesEmpty ==
  ASSUME NEW log \in Seq(Stored)
  PROVE  EntriesOf(log, Len(log), <<>>) = <<>>
<1>0. ASSUME NEW from \in 0 .. Len(log), NEW q \in Seq(ScreenerEvent)
      PROVE  /\ EntriesOf(log, from, q) \in Seq(Ledger!Entry)
             /\ Len(EntriesOf(log, from, q)) = (Len(log) - from) + Len(q)
  BY EntriesLemma
<1>1. Len(log) \in 0 .. Len(log) /\ Len(log) - Len(log) = 0
  OBVIOUS
<1>2. <<>> \in Seq(ScreenerEvent) /\ Len(<<>>) = 0
  OBVIOUS
<1> DEFINE t == EntriesOf(log, Len(log), <<>>)
<1>3. t \in Seq(Ledger!Entry) /\ Len(t) = (Len(log) - Len(log)) + Len(<<>>)
  BY <1>0, <1>1, <1>2, Zenon
<1> HIDE DEF t
<1>4. t = <<>>
  BY <1>1, <1>2, <1>3
<1> QED BY <1>4 DEF t

(* The number of events of earlier dates is the one that splits the table. *)
LEMMA BeforeLemma ==
  ASSUME NEW log \in Seq(Stored), NEW date, NEW n \in 0 .. Len(log),
         \A i \in 1 .. Len(log) : log[i].trading_date # date <=> i <= n
  PROVE  EventsBefore(date, log) = n
<1> DEFINE Fits(k) == \A i \in 1 .. Len(log) : log[i].trading_date # date <=> i <= k
           m == CHOOSE k \in 0 .. Len(log) : Fits(k)
<1>1. m \in 0 .. Len(log) /\ Fits(m)
  <2>1. \E k \in 0 .. Len(log) : Fits(k)
    OBVIOUS
  <2> HIDE DEF Fits
  <2> QED BY <2>1
<1>2. Len(log) \in Nat
  OBVIOUS
<1> HIDE DEF m
<1>3. ~(m < n)
  <2> SUFFICES ASSUME m < n PROVE FALSE
    OBVIOUS
  <2>1. m + 1 \in 1 .. Len(log) /\ m + 1 <= n /\ ~(m + 1 <= m)
    BY <1>1, <1>2
  <2> QED BY <1>1, <2>1
<1>4. ~(n < m)
  <2> SUFFICES ASSUME n < m PROVE FALSE
    OBVIOUS
  <2>1. n + 1 \in 1 .. Len(log) /\ n + 1 <= m /\ ~(n + 1 <= n)
    BY <1>1, <1>2
  <2> QED BY <1>1, <2>1
<1>5. m = n
  BY <1>1, <1>2, <1>3, <1>4
<1>6. EventsBefore(date, log) = m
  BY DEF m, EventsBefore
<1> QED BY <1>5, <1>6

(* The events of the trading date are the last ones of the table, and a    *)
(* stopped server has nothing in hand.                                     *)
Splits(log, date, n) ==
  \A i \in 1 .. Len(log) : log[i].trading_date # date <=> i <= n

DatesInv ==
  /\ trading_date <= today
  /\ \A i \in 1 .. Len(events) : events[i].trading_date <= trading_date
  /\ \E n \in 0 .. Len(events) : Splits(events, trading_date, n)
  /\ ~up => worker = "idle" /\ event_queue = <<>>

(* The same of any table and calendar. *)
LEMMA DatesKept ==
  ASSUME PipelineTypeOK, DatesInv, UNCHANGED <<events, trading_date>>,
         today' >= today, ~up' => worker' = "idle" /\ event_queue' = <<>>,
         today' \in Nat
  PROVE  DatesInv'
<1>1. trading_date \in Nat /\ today \in Nat
  BY DEF PipelineTypeOK, Days
<1> QED BY <1>1 DEF DatesInv, Splits

(* Records carry the trading date, and a restart takes a later one.         *)
LEMMA DatesStep ==
  ASSUME PipelineTypeOK, DatesInv, [PipelineNext]_pipelineVars
  PROVE  DatesInv'
<1>0. /\ trading_date \in Nat /\ today \in Nat /\ today' \in Nat
      /\ events \in Seq(Stored)
  BY PipelineTypeStep DEF PipelineTypeOK, Days
<1>1. ASSUME NEW m \in Message, Feed(m) PROVE DatesInv'
  BY <1>0, <1>1, DatesKept DEF Feed, tables, workerVars
<1>2. CASE Dequeue
  BY <1>0, <1>2, DatesKept DEF Dequeue, tables, world
<1>3. CASE PushStream
  BY <1>0, <1>3, DatesKept DEF PushStream, world
<1>4. CASE Record
  <2>1. /\ events' = Append(events, InFlight) /\ up /\ up' = up
        /\ UNCHANGED <<trading_date, today>>
        /\ InFlight.trading_date = trading_date
    BY <1>4 DEF Record, world, InFlight
  <2>2. /\ Len(events') = Len(events) + 1 /\ events'[Len(events) + 1] = InFlight
        /\ \A i \in 1 .. Len(events) : events'[i] = events[i]
        /\ Len(events) \in Nat
    BY <1>0, <2>1
  <2>3. \A i \in 1 .. Len(events') : i \in 1 .. Len(events) \/ i = Len(events) + 1
    BY <2>2
  <2>4. PICK n \in 0 .. Len(events) : Splits(events, trading_date, n)
    BY DEF DatesInv
  <2>5. n \in 0 .. Len(events') /\ ~(Len(events) + 1 <= n)
    BY <2>2
  <2>6. Splits(events', trading_date', n)
    BY <2>1, <2>2, <2>3, <2>4, <2>5 DEF Splits
  <2>7. \A i \in 1 .. Len(events') : events'[i].trading_date <= trading_date'
    BY <1>0, <2>1, <2>2, <2>3 DEF DatesInv
  <2> QED BY <2>1, <2>5, <2>6, <2>7 DEF DatesInv
<1>5. CASE RecordFails
  BY <1>0, <1>5, DatesKept DEF RecordFails, tables, world
<1>6. CASE Crash
  BY <1>0, <1>6, DatesKept DEF Crash, tables, world
<1>7. CASE Restart
  <2>1. /\ trading_date' = today /\ up' /\ UNCHANGED <<events, today>>
    BY <1>7 DEF Restart, tables, world
  <2>2. \A i \in 1 .. Len(events) :
          events[i].trading_date \in Nat /\ events[i].trading_date <= trading_date
    <3>1. \A i \in 1 .. Len(events) : events[i] \in Stored
      BY <1>0
    <3> QED BY <3>1 DEF DatesInv, Stored, Days
  <2>3. trading_date <= today
    BY DEF DatesInv
  <2>4. \E n \in 0 .. Len(events) : Splits(events, today, n)
    <3>1. CASE today = trading_date
      BY <3>1 DEF DatesInv
    <3>2. CASE today # trading_date
      <4>1. Splits(events, today, Len(events))
        BY <1>0, <2>2, <2>3, <3>2 DEF Splits
      <4>2. Len(events) \in 0 .. Len(events)
        BY <1>0
      <4> QED BY <4>1, <4>2
    <3> QED BY <3>1, <3>2
  <2>5. \A i \in 1 .. Len(events) : events[i].trading_date <= today
    BY <1>0, <2>2, <2>3
  <2> QED BY <1>0, <2>1, <2>4, <2>5 DEF DatesInv
<1>8. CASE Midnight
  BY <1>0, <1>8, DatesKept DEF Midnight, tables, workerVars, screenerVars, DatesInv
<1>9. CASE UNCHANGED pipelineVars
  BY <1>0, <1>9, DatesKept
     DEF pipelineVars, tables, workerVars, screenerVars, world, DatesInv
<1> QED BY <1>1, <1>2, <1>3, <1>4, <1>5, <1>6, <1>7, <1>8, <1>9
        DEF PipelineNext, ReliableNext

(* The rows of the trading date are those a replay of the recorded events  *)
(* gives.                                                                  *)
LEMMA RowsReplay ==
  ASSUME PipelineTypeOK, RowIffLastLogged, NEW n \in 0 .. Len(events),
         Splits(events, trading_date, n)
  PROVE  {s \in Stocks : rows[<<s, trading_date>>] # <<>>} =
           Ledger!Replay(EntriesOf(events, n, <<>>))
<1>0. events \in Seq(Stored) /\ Len(events) \in Nat /\ trading_date \in Days
      /\ n \in Nat /\ n <= Len(events)
  BY DEF PipelineTypeOK
<1> DEFINE d == Len(events) - n
           t == EntriesOf(events, n, <<>>)
<1>1. /\ d \in Nat /\ Len(t) = d
      /\ \A i \in 1 .. d : t[i] = AsEntry(events[n + i].event)
  <2>1. ASSUME NEW q \in Seq(ScreenerEvent)
        PROVE  /\ Len(EntriesOf(events, n, q)) = d + Len(q) /\ d \in Nat
               /\ \A i \in 1 .. d : EntriesOf(events, n, q)[i]
                                       = AsEntry(events[n + i].event)
    BY <1>0, EntriesLemma
  <2>2. <<>> \in Seq(ScreenerEvent) /\ Len(<<>>) = 0
    OBVIOUS
  <2>3. Len(t) = d + Len(<<>>) /\ d \in Nat
    BY <2>1, <2>2, Zenon
  <2>4. \A i \in 1 .. d : t[i] = AsEntry(events[n + i].event)
    BY <2>1, <2>2, Zenon
  <2> QED BY <2>2, <2>3, <2>4
<1> HIDE DEF t
<1>2. ASSUME NEW s \in Stocks
      PROVE  \A i : i \in Positions(s, trading_date) <=>
               /\ i \in (n + 1) .. Len(events) /\ events[i].event.stock_id = s
  <2>1. \A i \in 1 .. Len(events) :
          events[i].trading_date = trading_date <=> i \in (n + 1) .. Len(events)
    BY <1>0 DEF Splits
  <2>2. \A i \in (n + 1) .. Len(events) : i \in 1 .. Len(events)
    BY <1>0
  <2> QED BY <2>1, <2>2 DEF Positions
<1>3. ASSUME NEW i \in (n + 1) .. Len(events)
      PROVE  /\ i - n \in 1 .. d /\ n + (i - n) = i
             /\ t[i - n] = AsEntry(events[i].event)
  <2>1. i - n \in 1 .. d /\ n + (i - n) = i
    BY <1>0
  <2> QED BY <1>1, <2>1
<1>4. ASSUME NEW i \in 1 .. d
      PROVE  /\ n + i \in (n + 1) .. Len(events) /\ (n + i) - n = i
             /\ t[i] = AsEntry(events[n + i].event)
  <2>1. n + i \in (n + 1) .. Len(events) /\ (n + i) - n = i
    BY <1>0
  <2> QED BY <1>1, <2>1
<1>5. ASSUME NEW s \in Stocks
      PROVE  rows[<<s, trading_date>>] # <<>> <=> s \in Ledger!Replay(t)
  <2>0. TablesAgreeOn(s, trading_date)
    BY <1>0 DEF RowIffLastLogged
  <2>1. ASSUME rows[<<s, trading_date>>] # <<>> PROVE s \in Ledger!Replay(t)
    <3>1. PICK k \in Positions(s, trading_date) :
            /\ IsLastOf(k, s, trading_date)
            /\ events[k].event.event_type = "SCREENED"
      BY <2>0, <2>1 DEF TablesAgreeOn
    <3>2. k \in (n + 1) .. Len(events) /\ events[k].event.stock_id = s
      BY <1>2
    <3>3. /\ k - n \in 1 .. Len(t)
          /\ t[k - n] = [stock |-> s, type |-> "SCREENED"]
      <4>1. k - n \in 1 .. d /\ t[k - n] = AsEntry(events[k].event)
        BY <1>3, <3>2
      <4> QED BY <1>1, <3>1, <3>2, <4>1 DEF AsEntry
    <3>4. ASSUME NEW j \in ((k - n) + 1) .. Len(t) PROVE t[j].stock # s
      <4>1. j \in 1 .. d /\ ~(n + j <= k)
        <5>1. Len(t) = d /\ d \in Nat /\ n \in Nat /\ k \in Int /\ k >= n + 1
          BY <1>0, <1>1, <3>2
        <5> HIDE DEF d
        <5> QED BY <3>4, <5>1
      <4>2. n + j \in (n + 1) .. Len(events) /\ t[j] = AsEntry(events[n + j].event)
        BY <1>4, <4>1
      <4>3. n + j \notin Positions(s, trading_date)
        BY <3>1, <4>1 DEF IsLastOf
      <4> QED BY <1>2, <4>2, <4>3 DEF AsEntry
    <3> QED BY <3>3, <3>4 DEF Ledger!Replay
  <2>2. ASSUME s \in Ledger!Replay(t) PROVE rows[<<s, trading_date>>] # <<>>
    <3>1. PICK k \in 1 .. Len(t) :
            /\ t[k] = [stock |-> s, type |-> "SCREENED"]
            /\ \A j \in (k + 1) .. Len(t) : t[j].stock # s
      BY <2>2 DEF Ledger!Replay
    <3>2. /\ n + k \in (n + 1) .. Len(events)
          /\ events[n + k].event.stock_id = s
          /\ events[n + k].event.event_type = "SCREENED"
      <4>1. k \in 1 .. d
        BY <1>1, <3>1
      <4>2. /\ n + k \in (n + 1) .. Len(events)
            /\ t[k] = AsEntry(events[n + k].event)
        BY <1>4, <4>1
      <4>3. /\ AsEntry(events[n + k].event).stock = s
            /\ AsEntry(events[n + k].event).type = "SCREENED"
        BY <3>1, <4>2
      <4> QED BY <4>2, <4>3 DEF AsEntry
    <3>3. n + k \in Positions(s, trading_date)
      BY <1>2, <3>2
    <3>4. ASSUME NEW j \in Positions(s, trading_date) PROVE j <= n + k
      <4>1. j \in (n + 1) .. Len(events) /\ events[j].event.stock_id = s
        BY <1>2
      <4>2. j - n \in 1 .. d /\ t[j - n].stock = s
        <5>1. j - n \in 1 .. d /\ t[j - n] = AsEntry(events[j].event)
          BY <1>3, <4>1
        <5> QED BY <4>1, <5>1 DEF AsEntry
      <4>3. j - n \notin (k + 1) .. Len(t)
        BY <3>1, <4>2
      <4> QED BY <1>0, <1>1, <3>1, <4>1, <4>2, <4>3
    <3>5. IsLastOf(n + k, s, trading_date)
      BY <3>3, <3>4 DEF IsLastOf
    <3>6. CASE rows[<<s, trading_date>>] = <<>>
      BY <2>0, <3>2, <3>3, <3>5, <3>6 DEF TablesAgreeOn
    <3> QED BY <3>6
  <2> QED BY <2>1, <2>2
<1>6. Ledger!Replay(t) \subseteq Stocks
  BY DEF Ledger!Replay
<1> QED BY <1>5, <1>6 DEF t

(* What the worker has in hand, and what one more event adds to it.        *)
LEMMA PendingLemma ==
  ASSUME PipelineTypeOK
  PROVE  /\ Pending \in Seq(ScreenerEvent)
         /\ \A e \in ScreenerEvent :
              (inflight' = inflight /\ event_queue' = Append(event_queue, e))
                => Pending' = Append(Pending, e)
<1>1. event_queue \in Seq(ScreenerEvent)
  BY DEF PipelineTypeOK, ScreenerTypeOK
<1>2. CASE inflight = None
  <2>1. Pending = event_queue
    BY <1>1, <1>2 DEF Pending
  <2>2. inflight' = inflight => Pending' = <<>> \o event_queue'
    BY <1>2 DEF Pending
  <2>3. \A e \in ScreenerEvent : <<>> \o Append(event_queue, e) = Append(event_queue, e)
    BY <1>1
  <2> QED BY <1>1, <2>1, <2>2, <2>3
<1>3. CASE inflight # None
  <2>1. inflight \in ScreenerEvent
    BY <1>3 DEF PipelineTypeOK
  <2>2. Pending = <<inflight>> \o event_queue
    BY <1>3 DEF Pending
  <2>3. inflight' = inflight => Pending' = <<inflight>> \o event_queue'
    BY <1>3 DEF Pending
  <2>4. ASSUME NEW e \in ScreenerEvent
        PROVE  <<inflight>> \o Append(event_queue, e)
                 = Append(<<inflight>> \o event_queue, e)
    <3> DEFINE q == event_queue
               a == <<inflight>> \o Append(q, e)
               b == Append(<<inflight>> \o q, e)
    <3>1. q \in Seq(ScreenerEvent) /\ Len(q) \in Nat
      BY <1>1
    <3>2. /\ a \in Seq(ScreenerEvent) /\ b \in Seq(ScreenerEvent)
          /\ Len(a) = Len(q) + 2 /\ Len(b) = Len(q) + 2
      BY <2>1, <3>1
    <3>3. \A i \in 1 .. Len(a) : a[i] = b[i]
      BY <2>1, <3>1, <3>2
    <3> HIDE DEF a, b
    <3>4. a = b
      BY <3>2, <3>3, SeqEqual
    <3> QED BY <3>4 DEF a, b
  <2>5. Pending \in Seq(ScreenerEvent)
    BY <1>1, <2>1, <2>2
  <2> QED BY <2>2, <2>3, <2>4, <2>5
<1> QED BY <1>2, <1>3

(* Every step of the pipeline is a step of the ledger, or leaves it alone. *)
LEMMA LedgerStep ==
  ASSUME PipelineTypeOK, RowIffLastLogged, DatesInv,
         [ReliableNext]_pipelineVars
  PROVE  [Ledger!LedgerNext]_(Ledger!ledgerVars)
<1>1. PICK n \in 0 .. Len(events) : Splits(events, trading_date, n)
  BY DEF DatesInv
<1>2. /\ events \in Seq(Stored) /\ Pending \in Seq(ScreenerEvent)
      /\ Len(events) \in Nat /\ <<>> \in Seq(ScreenerEvent)
  BY PendingLemma DEF PipelineTypeOK
<1>3. Earlier = n
  BY <1>1, <1>2, BeforeLemma DEF Splits, Earlier
<1>4. LedgerEntries = EntriesOf(events, n, Pending)
  BY <1>3 DEF LedgerEntries
<1>5. ASSUME UNCHANGED <<events, trading_date>>, Pending' = Pending, Active' = Active
      PROVE  UNCHANGED Ledger!ledgerVars
  <2>1. Earlier' = Earlier
    BY <1>5 DEF Earlier
  <2> QED BY <1>5, <2>1 DEF Ledger!ledgerVars, LedgerEntries
<1>6. ASSUME NEW m \in Message, Feed(m) PROVE [Ledger!LedgerNext]_(Ledger!ledgerVars)
  <2>1. /\ ProcessMessage(m) /\ up /\ up' = up
        /\ UNCHANGED <<events, trading_date, inflight>>
    BY <1>6 DEF Feed, tables, workerVars
  <2>2. Earlier' = Earlier /\ Earlier' = n
    BY <1>3, <2>1 DEF Earlier
  <2>3. ASSUME Judge(m), NEW type \in {"SCREENED", "REMOVED"},
               event_queue' = Append(event_queue, EventFor(type, m, ChangeOf(m)))
        PROVE  /\ LedgerEntries' =
                     Append(LedgerEntries, [stock |-> m.symbol, type |-> type])
               /\ m.symbol \in Stocks
    <3> DEFINE e == EventFor(type, m, ChangeOf(m))
    <3>1. e \in ScreenerEvent /\ m.symbol \in Stocks
      BY <2>3, JudgeLemma DEF PipelineTypeOK
    <3>2. AsEntry(e) = [stock |-> m.symbol, type |-> type]
      BY DEF EventFor, AsEntry
    <3> HIDE DEF e
    <3>3. Pending' = Append(Pending, e)
      BY <2>1, <2>3, <3>1, PendingLemma DEF e
    <3>4. LedgerEntries' = EntriesOf(events, n, Append(Pending, e))
      BY <2>1, <2>2, <3>3 DEF LedgerEntries
    <3> QED BY <1>2, <1>4, <3>1, <3>2, <3>4, EntryQueued
  <2>4. screened \in [Stocks -> ScreenedState \cup {None}]
    BY DEF PipelineTypeOK, ScreenerTypeOK
  <2>5. CASE EnterScreened(m)
    <3>1. /\ Judge(m) /\ screened[m.symbol] = None
          /\ screened' = [screened EXCEPT ![m.symbol] = StateFor(m, ChangeOf(m))]
          /\ event_queue' = Append(event_queue, EventFor("SCREENED", m, ChangeOf(m)))
      BY <2>5 DEF EnterScreened
    <3>2. StateFor(m, ChangeOf(m)) # None /\ m.symbol \in Stocks
      BY <3>1, JudgeLemma DEF PipelineTypeOK
    <3>3. m.symbol \notin Active /\ Active' = Active \cup {m.symbol}
      BY <2>1, <2>4, <3>1, <3>2 DEF Active
    <3>4. LedgerEntries' =
            Append(LedgerEntries, [stock |-> m.symbol, type |-> "SCREENED"])
      BY <2>3, <3>1
    <3>5. Ledger!Cross(m.symbol)
      BY <2>1, <2>2, <3>3, <3>4 DEF Ledger!Cross
    <3> QED BY <3>2, <3>5 DEF Ledger!LedgerNext
  <2>6. CASE LeaveScreened(m)
    <3>1. /\ Judge(m) /\ screened[m.symbol] # None
          /\ screened' = [screened EXCEPT ![m.symbol] = None]
          /\ event_queue' = Append(event_queue, EventFor("REMOVED", m, ChangeOf(m)))
      BY <2>6 DEF LeaveScreened
    <3>2. m.symbol \in Stocks
      BY <3>1, JudgeLemma DEF PipelineTypeOK
    <3>3. m.symbol \in Active /\ Active' = Active \ {m.symbol}
      BY <2>1, <2>4, <3>1, <3>2 DEF Active
    <3>4. LedgerEntries' =
            Append(LedgerEntries, [stock |-> m.symbol, type |-> "REMOVED"])
      BY <2>3, <3>1
    <3>5. Ledger!Cross(m.symbol)
      BY <2>1, <2>2, <3>3, <3>4 DEF Ledger!Cross
    <3> QED BY <3>2, <3>5 DEF Ledger!LedgerNext
  <2>7. ASSUME event_queue' = event_queue, Active' = Active
        PROVE  UNCHANGED Ledger!ledgerVars
    <3>1. Pending' = Pending
      BY <2>1, <2>7 DEF Pending
    <3> QED BY <1>5, <2>1, <2>7, <3>1
  <2>8. CASE StayScreened(m)
    <3>1. /\ Judge(m) /\ screened[m.symbol] # None
          /\ screened' = [screened EXCEPT ![m.symbol] = StateFor(m, ChangeOf(m))]
          /\ event_queue' = event_queue
      BY <2>8 DEF StayScreened
    <3>2. StateFor(m, ChangeOf(m)) # None
      BY <3>1, JudgeLemma DEF PipelineTypeOK
    <3>3. Active' = Active
      BY <2>1, <2>4, <3>1, <3>2 DEF Active
    <3> QED BY <2>7, <3>1, <3>3
  <2>9. CASE StayOut(m) \/ IgnoreMessage(m) \/ NoBaseline(m)
    <3>1. screened' = screened /\ event_queue' = event_queue
      BY <2>9 DEF StayOut, IgnoreMessage, NoBaseline, screenerVars
    <3>2. Active' = Active
      BY <2>1, <3>1 DEF Active
    <3> QED BY <2>7, <3>1, <3>2
  <2> QED BY <2>1, <2>5, <2>6, <2>8, <2>9 DEF ProcessMessage
<1>7. CASE Dequeue
  <2>1. /\ up /\ up' = up /\ worker = "idle" /\ screened' = screened
        /\ inflight' = Head(event_queue) /\ event_queue' = Tail(event_queue)
        /\ event_queue # <<>> /\ UNCHANGED <<events, trading_date, rows>>
    BY <1>7 DEF Dequeue, tables
  <2>2. event_queue \in Seq(ScreenerEvent) /\ inflight = None
    BY <2>1 DEF PipelineTypeOK, ScreenerTypeOK
  <2>3. /\ Head(event_queue) \in ScreenerEvent
        /\ Tail(event_queue) \in Seq(ScreenerEvent)
        /\ event_queue = <<Head(event_queue)>> \o Tail(event_queue)
    BY <2>1, <2>2
  <2>4. Pending = event_queue
    BY <2>2 DEF Pending
  <2>5. inflight' # None
    BY <2>1, <2>3
  <2>6. Pending' = Pending
    BY <2>1, <2>3, <2>4, <2>5 DEF Pending
  <2>7. Active' = Active
    BY <2>1 DEF Active
  <2> QED BY <1>5, <2>1, <2>6, <2>7
<1>8. CASE PushStream
  <2>1. UNCHANGED <<up, screened, rows, events, trading_date, inflight, event_queue>>
    BY <1>8 DEF PushStream, screenerVars
  <2> QED BY <1>5, <2>1 DEF Pending, Active
<1>9. CASE Record
  <2>1. /\ up /\ up' = up /\ screened' = screened /\ event_queue' = event_queue
        /\ worker = "recording" /\ inflight' = None
        /\ events' = Append(events, InFlight) /\ trading_date' = trading_date
    BY <1>9 DEF Record, screenerVars
  <2>2. inflight \in ScreenerEvent /\ inflight # None /\ trading_date \in Days
    BY <2>1 DEF PipelineTypeOK
  <2>3. InFlight \in Stored /\ InFlight.event = inflight
        /\ InFlight.trading_date = trading_date
    BY <2>2 DEF InFlight, Stored
  <2>4. event_queue \in Seq(ScreenerEvent)
    BY DEF PipelineTypeOK, ScreenerTypeOK
  <2>5. Pending = <<InFlight.event>> \o event_queue /\ Pending' = event_queue
    BY <2>1, <2>2, <2>3, <2>4 DEF Pending
  <2>6. /\ events' \in Seq(Stored) /\ Len(events') = Len(events) + 1
        /\ events'[Len(events) + 1] = InFlight
        /\ \A i \in 1 .. Len(events) : events'[i] = events[i]
    BY <1>2, <2>1, <2>3
  <2>7. Splits(events', trading_date', n) /\ n \in 0 .. Len(events')
    <3>1. \A i \in 1 .. Len(events') :
            i \in 1 .. Len(events) \/ (i = Len(events) + 1 /\ ~(i <= n))
      BY <1>2, <2>6
    <3>2. Splits(events', trading_date', n)
      BY <1>1, <2>1, <2>3, <2>6, <3>1 DEF Splits
    <3> QED BY <1>2, <2>6, <3>2
  <2>8. Earlier' = n
    BY <2>6, <2>7, BeforeLemma DEF Splits, Earlier
  <2>9. LedgerEntries' = EntriesOf(Append(events, InFlight), n, event_queue)
    BY <2>1, <2>5, <2>8 DEF LedgerEntries
  <2>10. LedgerEntries' = LedgerEntries
    BY <1>2, <1>4, <2>3, <2>4, <2>5, <2>9, EntryRecorded
  <2>11. Len(events') - Earlier' = (Len(events) - Earlier) + 1
    BY <1>2, <1>3, <2>6, <2>8
  <2>12. Len(events) - Earlier < Len(LedgerEntries)
    <3>1. Len(LedgerEntries) = (Len(events) - n) + Len(Pending)
      BY <1>2, <1>4, EntriesLemma
    <3>2. Len(Pending) \in Nat /\ Len(Pending) >= 1
      <4>1. Len(<<inflight>> \o event_queue) = 1 + Len(event_queue)
            /\ Len(event_queue) \in Nat
        BY <2>2, <2>4
      <4> QED BY <2>3, <2>5, <4>1
    <3> QED BY <1>2, <1>3, <3>1, <3>2
  <2>13. Active' = Active
    BY <2>1 DEF Active
  <2>14. Ledger!Persist
    BY <2>10, <2>11, <2>12, <2>13 DEF Ledger!Persist
  <2> QED BY <2>14 DEF Ledger!LedgerNext
<1>10. CASE Crash
  <2>1. /\ up' = FALSE /\ event_queue' = <<>> /\ inflight' = None
        /\ UNCHANGED <<rows, events, trading_date>>
    BY <1>10 DEF Crash, tables
  <2>2. Pending' = <<>>
    BY <2>1 DEF Pending
  <2>3. Earlier' = Earlier
    BY <2>1 DEF Earlier
  <2>4. LedgerEntries' = EntriesOf(events, n, <<>>)
    BY <1>3, <2>1, <2>2, <2>3 DEF LedgerEntries
  <2>5. LedgerEntries' = SubSeq(LedgerEntries, 1, Len(events) - Earlier)
    BY <1>2, <1>3, <1>4, <2>4, EntriesRecorded
  <2>6. Active' = {s \in Stocks : rows[<<s, trading_date>>] # <<>>}
    BY <2>1 DEF Active
  <2>7. Active' = Ledger!Replay(LedgerEntries')
    BY <1>1, <2>4, <2>6, RowsReplay
  <2>8. Ledger!Forget
    BY <2>1, <2>3, <2>5, <2>7 DEF Ledger!Forget
  <2> QED BY <2>8 DEF Ledger!LedgerNext
<1>11. CASE Restart
  <2>1. /\ ~up /\ up' /\ trading_date' = today /\ event_queue' = <<>>
        /\ screened' = RowsOn(today) /\ UNCHANGED <<inflight, rows, events>>
    BY <1>11 DEF Restart, Startup, workerVars, tables
  <2>2. inflight = None /\ event_queue = <<>>
    BY <2>1 DEF DatesInv, PipelineTypeOK
  <2>3. Pending = <<>> /\ Pending' = <<>>
    BY <2>1, <2>2 DEF Pending
  <2>4. ASSUME NEW s \in Stocks
        PROVE  RowsOn(today)[s] # None <=> rows[<<s, today>>] # <<>>
    <3>1. rows[<<s, today>>] \in Seq(ScreenedState)
      BY DEF PipelineTypeOK
    <3>2. CASE rows[<<s, today>>] # <<>>
      <4>1. rows[<<s, today>>][Len(rows[<<s, today>>])] \in ScreenedState
        BY <3>1, <3>2
      <4> QED BY <3>2, <4>1 DEF RowsOn
    <3> QED BY <3>2 DEF RowsOn
  <2>5. Active' = {s \in Stocks : rows[<<s, today>>] # <<>>}
    BY <2>1, <2>4 DEF Active
  <2>6. CASE today = trading_date
    <3>1. Active' = Active
      BY <2>1, <2>5, <2>6 DEF Active
    <3> QED BY <1>5, <2>1, <2>3, <2>6, <3>1
  <2>7. CASE today # trading_date
    <3>1. \A i \in 1 .. Len(events) :
            /\ events[i].trading_date \in Nat
            /\ events[i].trading_date <= trading_date
      <4>1. \A i \in 1 .. Len(events) : events[i] \in Stored
        BY <1>2
      <4> QED BY <4>1 DEF DatesInv, Stored, Days
    <3>2. trading_date \in Nat /\ today \in Nat /\ trading_date <= today
      BY DEF PipelineTypeOK, Days, DatesInv
    <3>3. \A i \in 1 .. Len(events) : events[i].trading_date # today
      BY <2>7, <3>1, <3>2
    <3>4. Earlier' = Len(events)
      <4>1. \A i \in 1 .. Len(events) :
              events[i].trading_date # today <=> i <= Len(events)
        BY <1>2, <3>3
      <4>2. EventsBefore(today, events) = Len(events)
        BY <1>2, <4>1, BeforeLemma
      <4> QED BY <2>1, <4>2 DEF Earlier
    <3>5. LedgerEntries' = <<>>
      BY <1>2, <2>1, <2>3, <3>4, EntriesEmpty DEF LedgerEntries
    <3>6. Len(events') - Earlier' = 0
      BY <1>2, <2>1, <3>4
    <3>7. ASSUME NEW s \in Stocks PROVE rows[<<s, today>>] = <<>>
      <4>1. Positions(s, today) = {}
        BY <3>3 DEF Positions
      <4>2. TablesAgreeOn(s, today)
        BY DEF PipelineTypeOK, RowIffLastLogged
      <4> QED BY <4>1, <4>2 DEF TablesAgreeOn
    <3>8. Active' = {}
      BY <2>5, <3>7
    <3>9. Ledger!NewDate
      BY <3>5, <3>6, <3>8 DEF Ledger!NewDate
    <3> QED BY <3>9 DEF Ledger!LedgerNext
  <2> QED BY <2>6, <2>7
<1>12. CASE Midnight
  <2>1. UNCHANGED <<up, screened, rows, events, trading_date, inflight, event_queue>>
    BY <1>12 DEF Midnight, screenerVars, workerVars, tables
  <2> QED BY <1>5, <2>1 DEF Pending, Active
<1>13. CASE UNCHANGED pipelineVars
  <2>1. UNCHANGED <<up, screened, rows, events, trading_date, inflight, event_queue>>
    BY <1>13 DEF pipelineVars, screenerVars, workerVars, tables
  <2> QED BY <1>5, <2>1 DEF Pending, Active
<1> QED BY <1>6, <1>7, <1>8, <1>9, <1>10, <1>11, <1>12, <1>13 DEF ReliableNext

(* Without failing transactions, and whatever crashes, restarts and days    *)
(* pass, the pipeline implements the ledger of its trading date.           *)
THEOREM LedgerImplemented ==
  PipelineInit /\ [][ReliableNext]_pipelineVars => ImplementsLedger
<1>1. PipelineInit => PipelineTypeOK /\ RowIffLastLogged /\ DatesInv
  <2>1. PipelineInit => DatesInv
    BY DEF PipelineInit, DatesInv, Splits
  <2> QED BY <2>1, PipelineInitLemma
<1>2. PipelineInit => Ledger!LedgerInit
  <2> SUFFICES ASSUME PipelineInit PROVE Ledger!LedgerInit
    OBVIOUS
  <2>1. /\ events = <<>> /\ inflight = None /\ event_queue = <<>> /\ up
        /\ screened = NoRows
    BY DEF PipelineInit, Startup
  <2>2. Earlier = 0 /\ events \in Seq(Stored) /\ Len(events) = 0
    <3>1. events \in Seq(Stored) /\ Len(events) = 0 /\ 0 \in 0 .. Len(events)
      BY <2>1
    <3>2. \A i \in 1 .. Len(events) : events[i].trading_date # trading_date <=> i <= 0
      BY <3>1
    <3> QED BY <3>1, <3>2, BeforeLemma DEF Earlier
  <2>3. Pending = <<>>
    BY <2>1 DEF Pending
  <2>4. LedgerEntries = <<>>
    BY <2>2, <2>3, EntriesEmpty DEF LedgerEntries
  <2>5. Active = {}
    BY <2>1 DEF Active, NoRows
  <2> QED BY <2>2, <2>4, <2>5 DEF Ledger!LedgerInit
<1>3. [ReliableNext]_pipelineVars => [PipelineNext]_pipelineVars
  BY DEF PipelineNext
<1>4. PipelineTypeOK /\ RowIffLastLogged /\ DatesInv /\ [PipelineNext]_pipelineVars
        => (PipelineTypeOK /\ RowIffLastLogged /\ DatesInv)'
  BY PipelineTypeStep, RowIffLastStep, DatesStep
<1> QED BY <1>1, <1>2, <1>3, <1>4, LedgerStep, PTL
        DEF ImplementsLedger, Ledger!LedgerSpec

LedgerTheorems == INSTANCE ScreenedLedgerProofs WITH
  ledger  <- LedgerEntries,
  durable <- Len(events) - Earlier,
  active  <- Active

(* What the replay of the ledger says of one stock, by the last event in   *)
(* hand or, when there is none, by the rows.                               *)
LEMMA ReplayPending ==
  ASSUME PipelineTypeOK, RowIffLastLogged, DatesInv,
         up => Active = Ledger!Replay(LedgerEntries)
  PROVE  PendingReplay
<1> SUFFICES ASSUME up, NEW s \in Stocks
             PROVE  IF \E i \in 1 .. Len(Pending) : Pending[i].stock_id = s
                    THEN \A i \in 1 .. Len(Pending) : LastPending(s, i) =>
                           (screened[s] # None <=> Pending[i].event_type = "SCREENED")
                    ELSE screened[s] # None <=> rows[<<s, trading_date>>] # <<>>
  BY DEF PendingReplay
<1>1. PICK n \in 0 .. Len(events) : Splits(events, trading_date, n)
  BY DEF DatesInv
<1>2. /\ events \in Seq(Stored) /\ Pending \in Seq(ScreenerEvent)
      /\ Len(events) \in Nat /\ <<>> \in Seq(ScreenerEvent) /\ Len(<<>>) = 0
      /\ Len(Pending) \in Nat
  BY PendingLemma DEF PipelineTypeOK
<1>3. Earlier = n
  BY <1>1, <1>2, BeforeLemma DEF Splits, Earlier
<1> DEFINE d == Len(events) - n
           t == EntriesOf(events, n, Pending)
           r == EntriesOf(events, n, <<>>)
<1>4. ASSUME NEW q \in Seq(ScreenerEvent)
      PROVE  /\ d \in Nat
             /\ Len(EntriesOf(events, n, q)) = d + Len(q)
             /\ \A i \in 1 .. d :
                  EntriesOf(events, n, q)[i] = AsEntry(events[n + i].event)
             /\ \A i \in 1 .. Len(q) : EntriesOf(events, n, q)[d + i] = AsEntry(q[i])
  BY <1>2, EntriesLemma
<1>5. /\ d \in Nat /\ Len(t) = d + Len(Pending)
      /\ \A i \in 1 .. d : t[i] = AsEntry(events[n + i].event)
      /\ \A i \in 1 .. Len(Pending) : t[d + i] = AsEntry(Pending[i])
  BY <1>2, <1>4, Zenon
<1>6. Len(r) = d /\ \A i \in 1 .. d : r[i] = AsEntry(events[n + i].event)
  <2>1. Len(r) = d + Len(<<>>) /\ \A i \in 1 .. d : r[i] = AsEntry(events[n + i].event)
    BY <1>2, <1>4, Zenon
  <2> QED BY <1>2, <1>5, <2>1
<1>7. screened[s] # None <=> s \in Ledger!Replay(t)
  BY <1>3 DEF LedgerEntries, Active
<1>8. rows[<<s, trading_date>>] # <<>> <=> s \in Ledger!Replay(r)
  BY <1>1, RowsReplay
<1> HIDE DEF t, r
<1> HIDE DEF d
<1>9. ASSUME NEW i \in 1 .. Len(Pending), LastPending(s, i)
      PROVE  s \in Ledger!Replay(t) <=> Pending[i].event_type = "SCREENED"
  <2>1. /\ d + i \in 1 .. Len(t) /\ t[d + i] = AsEntry(Pending[i])
        /\ t[d + i].stock = s
    BY <1>2, <1>5, <1>9 DEF LastPending, AsEntry
  <2>2. ASSUME NEW j \in ((d + i) + 1) .. Len(t) PROVE t[j].stock # s
    <3>1. j - d \in (i + 1) .. Len(Pending) /\ j - d \in 1 .. Len(Pending)
          /\ d + (j - d) = j
      BY <1>2, <1>5
    <3>2. t[j] = AsEntry(Pending[j - d]) /\ Pending[j - d].stock_id # s
      BY <1>5, <1>9, <3>1 DEF LastPending
    <3> QED BY <3>2 DEF AsEntry
  <2>3. ASSUME Pending[i].event_type = "SCREENED" PROVE s \in Ledger!Replay(t)
    <3>1. t[d + i] = [stock |-> s, type |-> "SCREENED"]
      BY <1>9, <2>1, <2>3 DEF AsEntry, LastPending
    <3> QED BY <2>1, <2>2, <3>1 DEF Ledger!Replay
  <2>4. ASSUME s \in Ledger!Replay(t) PROVE Pending[i].event_type = "SCREENED"
    <3>1. PICK k \in 1 .. Len(t) :
            /\ t[k] = [stock |-> s, type |-> "SCREENED"]
            /\ \A j \in (k + 1) .. Len(t) : t[j].stock # s
      BY <2>4 DEF Ledger!Replay
    <3>2. k \notin ((d + i) + 1) .. Len(t) /\ d + i \notin (k + 1) .. Len(t)
      BY <2>1, <2>2, <3>1
    <3>3. k = d + i
      BY <1>5, <2>1, <3>2
    <3> QED BY <2>1, <3>1, <3>3 DEF AsEntry
  <2> QED BY <2>3, <2>4
<1>10. ASSUME \A i \in 1 .. Len(Pending) : Pending[i].stock_id # s
       PROVE  s \in Ledger!Replay(t) <=> s \in Ledger!Replay(r)
  <2>1. ASSUME NEW j \in (d + 1) .. Len(t) PROVE t[j].stock # s
    <3>1. j - d \in 1 .. Len(Pending) /\ d + (j - d) = j
      BY <1>2, <1>5
    <3>2. t[j] = AsEntry(Pending[j - d]) /\ Pending[j - d].stock_id # s
      BY <1>5, <1>10, <3>1
    <3> QED BY <3>2 DEF AsEntry
  <2>2. \A i \in 1 .. d : t[i] = r[i] /\ i \in 1 .. Len(t) /\ i \in 1 .. Len(r)
    BY <1>2, <1>5, <1>6
  <2>3. ASSUME s \in Ledger!Replay(t) PROVE s \in Ledger!Replay(r)
    <3>1. PICK k \in 1 .. Len(t) :
            /\ t[k] = [stock |-> s, type |-> "SCREENED"]
            /\ \A j \in (k + 1) .. Len(t) : t[j].stock # s
      BY <2>3 DEF Ledger!Replay
    <3>2. k \in 1 .. d
      <4>1. k \notin (d + 1) .. Len(t)
        BY <2>1, <3>1
      <4> QED BY <1>5, <4>1
    <3>3. \A j \in (k + 1) .. Len(r) : j \in 1 .. d /\ j \in (k + 1) .. Len(t)
      BY <1>2, <1>5, <1>6, <3>2
    <3>4. r[k] = [stock |-> s, type |-> "SCREENED"] /\ k \in 1 .. Len(r)
          /\ \A j \in (k + 1) .. Len(r) : r[j].stock # s
      BY <2>2, <3>1, <3>2, <3>3
    <3> QED BY <3>4 DEF Ledger!Replay
  <2>4. ASSUME s \in Ledger!Replay(r) PROVE s \in Ledger!Replay(t)
    <3>1. PICK k \in 1 .. Len(r) :
            /\ r[k] = [stock |-> s, type |-> "SCREENED"]
            /\ \A j \in (k + 1) .. Len(r) : r[j].stock # s
      BY <2>4 DEF Ledger!Replay
    <3>2. k \in 1 .. d /\ k \in 1 .. Len(t) /\ t[k] = r[k]
      BY <1>6, <2>2
    <3>3. ASSUME NEW j \in (k + 1) .. Len(t) PROVE t[j].stock # s
      <4>1. CASE j \in (d + 1) .. Len(t)
        BY <2>1, <4>1
      <4>2. CASE j \notin (d + 1) .. Len(t)
        <5>1. j \in 1 .. d /\ j \in (k + 1) .. Len(r)
          BY <1>5, <1>6, <3>2, <4>2
        <5> QED BY <2>2, <3>1, <5>1
      <4> QED BY <4>1, <4>2
    <3> QED BY <3>1, <3>2, <3>3 DEF Ledger!Replay
  <2> QED BY <2>3, <2>4
<1> QED BY <1>7, <1>8, <1>9, <1>10

(* When no transaction fails, the rows of the trading date, replayed with  *)
(* the events in hand, are the screened set of the process.                *)
THEOREM RowsReplayToScreened ==
  PipelineInit /\ [][ReliableNext]_pipelineVars => []PendingReplay
<1>1. Ledger!LedgerSpec => []LedgerTheorems!ActiveIsReplay
  <2>1. Ledger!LedgerInit => LedgerTheorems!LedgerInit
    BY DEF Ledger!LedgerInit, LedgerTheorems!LedgerInit
  <2>2. [Ledger!LedgerNext]_(Ledger!ledgerVars)
          => [LedgerTheorems!LedgerNext]_(LedgerTheorems!ledgerVars)
    BY DEF Ledger!LedgerNext, Ledger!Cross, Ledger!Persist, Ledger!Forget,
           Ledger!NewDate, Ledger!Replay, Ledger!ledgerVars,
           LedgerTheorems!LedgerNext, LedgerTheorems!Cross, LedgerTheorems!Persist,
           LedgerTheorems!Forget, LedgerTheorems!NewDate, LedgerTheorems!Replay,
           LedgerTheorems!ledgerVars
  <2> QED BY <2>1, <2>2, LedgerTheorems!ReplayCorrect, PTL
          DEF Ledger!LedgerSpec, LedgerTheorems!LedgerSpec
<1>2. PipelineInit => PipelineTypeOK /\ RowIffLastLogged /\ DatesInv
  <2>1. PipelineInit => DatesInv
    BY DEF PipelineInit, DatesInv, Splits
  <2> QED BY <2>1, PipelineInitLemma
<1>3. [ReliableNext]_pipelineVars => [PipelineNext]_pipelineVars
  BY DEF PipelineNext
<1>4. PipelineTypeOK /\ RowIffLastLogged /\ DatesInv /\ [PipelineNext]_pipelineVars
        => (PipelineTypeOK /\ RowIffLastLogged /\ DatesInv)'
  BY PipelineTypeStep, RowIffLastStep, DatesStep
<1>5. PipelineTypeOK /\ RowIffLastLogged /\ DatesInv /\ LedgerTheorems!ActiveIsReplay
        => PendingReplay
  BY ReplayPending DEF LedgerTheorems!ActiveIsReplay, LedgerTheorems!Replay, Ledger!Replay
<1> QED BY <1>1, <1>2, <1>3, <1>4, <1>5, LedgerImplemented, PTL DEF ImplementsLedger

(* The entry of the stream that holds each recorded event; the event that   *)
(* is being recorded is the last entry, and not one of those.              *)
CoveredBy(at) ==
  /\ at \in [1 .. Len(events) -> 1 .. Len(stream)]
  /\ \A i, j \in 1 .. Len(events) : i < j => at[i] < at[j]
  /\ \A i \in 1 .. Len(events) : stream[at[i]] = events[i]
  /\ worker = "recording" => \A i \in 1 .. Len(events) : at[i] < Len(stream)

StreamInv ==
  /\ \E at : CoveredBy(at)
  /\ worker = "recording" => Len(stream) > 0 /\ stream[Len(stream)] = InFlight
  /\ ~up => worker = "idle"

(* The push comes before the commit: every commit finds its entry.         *)
LEMMA StreamStep ==
  ASSUME ~RedisMayFail, PipelineTypeOK, StreamInv, [PipelineNext]_pipelineVars
  PROVE  StreamInv'
<1>0. /\ events \in Seq(Stored) /\ stream \in Seq(Stored)
      /\ Len(events) \in Nat /\ Len(stream) \in Nat
  BY DEF PipelineTypeOK
<1>1. PICK at : CoveredBy(at)
  BY DEF StreamInv
<1>2. ASSUME UNCHANGED <<events, stream>>,
             worker' = "recording" =>
               worker = "recording" /\ UNCHANGED <<inflight, trading_date>>,
             ~up' => worker' = "idle"
      PROVE  StreamInv'
  <2>1. CoveredBy(at)'
    BY <1>1, <1>2 DEF CoveredBy
  <2>2. worker' = "recording" => InFlight' = InFlight
    BY <1>2 DEF InFlight
  <2> QED BY <1>2, <2>1, <2>2 DEF StreamInv
<1>3. ASSUME NEW m \in Message, Feed(m) PROVE StreamInv'
  BY <1>2, <1>3 DEF Feed, tables, workerVars
<1>4. CASE Dequeue
  BY <1>2, <1>4 DEF Dequeue, tables
<1>5. CASE PushStream
  <2>1. /\ stream' = Append(stream, InFlight) /\ worker' = "recording" /\ up /\ up' = up
        /\ UNCHANGED <<events, inflight, trading_date>> /\ worker = "pushing"
    BY <1>5 DEF PushStream
  <2>2. InFlight \in Stored /\ InFlight' = InFlight
    BY <2>1 DEF InFlight, Stored, PipelineTypeOK
  <2>3. /\ Len(stream') = Len(stream) + 1 /\ stream'[Len(stream) + 1] = InFlight
        /\ \A k \in 1 .. Len(stream) : stream'[k] = stream[k]
    BY <1>0, <2>1, <2>2
  <2>4. at \in [1 .. Len(events) -> 1 .. Len(stream')]
    <3>1. 1 .. Len(stream) \subseteq 1 .. Len(stream')
      BY <1>0, <2>3
    <3> QED BY <1>1, <3>1 DEF CoveredBy
  <2>5. ASSUME NEW i \in 1 .. Len(events)
        PROVE  stream'[at[i]] = events[i] /\ at[i] < Len(stream')
    <3>1. at[i] \in 1 .. Len(stream) /\ stream[at[i]] = events[i]
      BY <1>1 DEF CoveredBy
    <3> QED BY <1>0, <2>3, <3>1
  <2>6. \A i, j \in 1 .. Len(events) : i < j => at[i] < at[j]
    BY <1>1 DEF CoveredBy
  <2>7. CoveredBy(at)'
    BY <2>1, <2>4, <2>5, <2>6 DEF CoveredBy
  <2> QED BY <1>0, <2>1, <2>2, <2>3, <2>7 DEF StreamInv
<1>6. CASE Record
  <2>1. /\ events' = Append(events, InFlight) /\ worker' = "idle" /\ up /\ up' = up
        /\ stream' = stream /\ worker = "recording"
    BY <1>6 DEF Record
  <2>2. InFlight \in Stored
    BY <2>1 DEF InFlight, Stored, PipelineTypeOK
  <2>3. /\ Len(events') = Len(events) + 1 /\ events'[Len(events) + 1] = InFlight
        /\ \A k \in 1 .. Len(events) : events'[k] = events[k]
    BY <1>0, <2>1, <2>2
  <2> DEFINE n == Len(events) + 1
  <2> PICK to : to = [i \in 1 .. n |-> IF i = n THEN Len(stream) ELSE at[i]]
    OBVIOUS
  <2>4. /\ at \in [1 .. Len(events) -> 1 .. Len(stream)]
        /\ \A i, j \in 1 .. Len(events) : i < j => at[i] < at[j]
        /\ \A i \in 1 .. Len(events) : stream[at[i]] = events[i] /\ at[i] < Len(stream)
        /\ Len(stream) > 0 /\ stream[Len(stream)] = InFlight
    BY <1>1, <2>1 DEF CoveredBy, StreamInv
  <2>5. \A i \in 1 .. n : i \in 1 .. Len(events) \/ i = n
    BY <1>0
  <2>6. /\ \A i \in 1 .. Len(events) : to[i] = at[i] /\ i \in 1 .. n /\ i < n
        /\ to[n] = Len(stream) /\ n \in 1 .. n /\ n \in Nat
    BY <1>0
  <2>7. Len(stream) \in 1 .. Len(stream)
    BY <1>0, <2>4
  <2>8. to \in [1 .. n -> 1 .. Len(stream)]
    <3>1. \A i \in 1 .. n : to[i] \in 1 .. Len(stream)
      BY <2>4, <2>5, <2>6, <2>7
    <3> QED BY <3>1
  <2>9. ASSUME NEW i \in 1 .. n, NEW j \in 1 .. n, i < j PROVE to[i] < to[j]
    <3>1. CASE j = n
      <4>1. i \in 1 .. Len(events)
        BY <1>0, <2>9, <3>1
      <4> QED BY <2>4, <2>6, <3>1, <4>1
    <3>2. CASE j # n
      <4>1. i \in 1 .. Len(events) /\ j \in 1 .. Len(events)
        BY <1>0, <2>9, <3>2
      <4> QED BY <2>4, <2>6, <2>9, <4>1
    <3> QED BY <3>1, <3>2
  <2>10. ASSUME NEW i \in 1 .. n PROVE stream[to[i]] = events'[i]
    <3>1. CASE i \in 1 .. Len(events)
      BY <2>3, <2>4, <2>6, <3>1
    <3>2. CASE i = n
      BY <2>3, <2>4, <2>6, <3>2
    <3> QED BY <2>5, <3>1, <3>2
  <2>11. CoveredBy(to)'
    BY <2>1, <2>3, <2>8, <2>9, <2>10 DEF CoveredBy
  <2> QED BY <2>1, <2>11 DEF StreamInv
<1>7. CASE RecordFails
  BY <1>2, <1>7 DEF RecordFails, tables
<1>8. CASE Crash
  BY <1>2, <1>8 DEF Crash, tables
<1>9. CASE Restart
  <2>1. worker' = worker /\ UNCHANGED <<events, stream>>
    BY <1>9 DEF Restart, tables, workerVars
  <2>2. worker = "idle"
    BY <1>9 DEF Restart, StreamInv
  <2> QED BY <1>2, <2>1, <2>2
<1>10. CASE Midnight
  BY <1>2, <1>10 DEF Midnight, tables, workerVars, StreamInv
<1>11. CASE UNCHANGED pipelineVars
  BY <1>2, <1>11 DEF pipelineVars, tables, workerVars, StreamInv
<1> QED BY <1>3, <1>4, <1>5, <1>6, <1>7, <1>8, <1>9, <1>10, <1>11
        DEF PipelineNext, ReliableNext

(* While Redis works the stream holds every recorded event, in order.      *)
THEOREM StreamMissesNothing ==
  ASSUME ~RedisMayFail PROVE PipelineSpec => []StreamCoversLog
<1>1. PipelineInit => StreamInv
  <2> SUFFICES ASSUME PipelineInit PROVE StreamInv
    OBVIOUS
  <2>1. Len(events) = 0 /\ worker = "idle" /\ up
    BY DEF PipelineInit
  <2>2. CoveredBy([i \in 1 .. 0 |-> 1])
    BY <2>1 DEF CoveredBy
  <2> QED BY <2>1, <2>2 DEF StreamInv
<1>2. PipelineTypeOK /\ StreamInv /\ [PipelineNext]_pipelineVars => StreamInv'
  BY StreamStep
<1>3. StreamInv => StreamCoversLog
  <2> SUFFICES ASSUME StreamInv PROVE StreamCoversLog
    OBVIOUS
  <2>1. PICK at : CoveredBy(at)
    BY DEF StreamInv
  <2> QED BY <2>1 DEF CoveredBy, StreamCoversLog
<1> QED BY <1>1, <1>2, <1>3, PipelineTypeCorrect, PTL DEF PipelineSpec
-----------------------------------------------------------------------------
(* A sequence stays one when it grows.                                     *)
LEMMA AppendRange ==
  ASSUME NEW s, s \in Seq({s[i] : i \in DOMAIN s}), NEW e
  PROVE  /\ Append(s, e) \in Seq({Append(s, e)[i] : i \in DOMAIN Append(s, e)})
         /\ Len(Append(s, e)) = Len(s) + 1
<1> DEFINE S == {s[i] : i \in DOMAIN s} \cup {e}
           t == Append(s, e)
<1>1. s \in Seq(S)
  OBVIOUS
<1>2. t \in Seq(S) /\ Len(t) = Len(s) + 1 /\ Len(s) \in Nat
  BY <1>1
<1> HIDE DEF t, S
<1>4. DOMAIN t = 1 .. Len(t) /\ Len(t) \in Nat
  BY <1>2
<1>5. t \in [1 .. Len(t) -> {t[i] : i \in DOMAIN t}]
  BY <1>2, <1>4
<1>6. t \in Seq({t[i] : i \in DOMAIN t})
  BY <1>4, <1>5
<1> QED BY <1>2, <1>6 DEF t

(* A new counter starts at zero, and the others keep their values.         *)
LEMMA AppendCounter ==
  ASSUME NEW s \in Seq(Nat)
  PROVE  /\ Append(s, 0) \in Seq(Nat) /\ Len(Append(s, 0)) = Len(s) + 1
         /\ Append(s, 0)[Len(s) + 1] = 0
         /\ \A p \in 1 .. Len(s) : Append(s, 0)[p] = s[p]
OBVIOUS

(* A function on 1 .. n is a sequence of length n.                         *)
LEMMA CounterSeq ==
  ASSUME NEW n \in Nat, NEW f \in [1 .. n -> Nat]
  PROVE  f \in Seq(Nat) /\ Len(f) = n
OBVIOUS

(* The flush holds the whole stream while nothing can be appended to it,   *)
(* and between its commit and its trim all of it has been inserted.        *)
FlushInv ==
  /\ stream \in Seq({stream[i] : i \in DOMAIN stream})
  /\ inserted \in Seq(Nat) /\ trimmed \in Nat
  /\ flushing \in {"off", "insert", "trim"}
  /\ flushing # "off" => worker = "idle" /\ event_queue = <<>>
  /\ flushing = "insert" => batch = stream
  /\ flushing = "trim" => \A p \in DOMAIN inserted : inserted[p] >= 1
  /\ FlushedOnce

LEMMA FlushInitLemma == FlushInit => FlushInv
BY DEF FlushInit, PipelineInit, FlushInv, FlushedOnce

(* A step of the server that leaves the stream alone.                      *)
LEMMA BesideLemma ==
  ASSUME ~FlushInSession, FlushInv, BesideFlush, stream' = stream,
         flushing # "off" => worker' = "idle"
  PROVE  FlushInv'
BY DEF FlushInv, BesideFlush, FlushedOnce

(* The commit inserts each entry of the stream once more.                  *)
LEMMA CommitLemma ==
  ASSUME FlushInv, FlushCommit
  PROVE  FlushInv'
<1>1. /\ flushing = "insert" /\ flushing' = "trim" /\ batch = stream
      /\ worker = "idle" /\ event_queue = <<>>
      /\ inserted \in Seq(Nat) /\ trimmed \in Nat
      /\ stream \in Seq({stream[i] : i \in DOMAIN stream})
      /\ Len(inserted) = trimmed + Len(stream)
  BY DEF FlushCommit, FlushInv, FlushedOnce
<1>2. UNCHANGED <<stream, worker, event_queue, trimmed, died>>
  BY DEF FlushCommit, screenerVars, workerVars
<1>3. inserted' = [p \in DOMAIN inserted |->
                     IF p - trimmed \in DOMAIN batch THEN inserted[p] + 1
                     ELSE inserted[p]]
  BY DEF FlushCommit
<1>4. DOMAIN batch = 1 .. Len(stream) /\ Len(stream) \in Nat
  BY <1>1
<1>5. inserted' \in Seq(Nat) /\ Len(inserted') = Len(inserted)
  <2>1. DOMAIN inserted = 1 .. Len(inserted)
    BY <1>1
  <2>2. \A p \in DOMAIN inserted : inserted[p] \in Nat /\ inserted[p] + 1 \in Nat
    BY <1>1
  <2>3. inserted' \in [1 .. Len(inserted) -> Nat]
    <3>1. \A p \in DOMAIN inserted :
            (IF p - trimmed \in DOMAIN batch THEN inserted[p] + 1
             ELSE inserted[p]) \in Nat
      BY <2>2, Zenon
    <3> QED BY <1>3, <2>1, <3>1, Zenon
  <2>4. Len(inserted) \in Nat
    BY <1>1
  <2> QED BY <2>3, <2>4, CounterSeq, Zenon
<1>6. /\ \A p \in 1 .. trimmed : inserted'[p] = inserted[p]
      /\ \A p \in (trimmed + 1) .. Len(inserted) : inserted'[p] = inserted[p] + 1
  BY <1>1, <1>3, <1>4
<1>7. /\ \A p \in 1 .. Len(inserted) : inserted[p] \in Nat
      /\ \A p \in 1 .. trimmed : inserted[p] >= 1 /\ (~died => inserted[p] = 1)
      /\ ~died => \A p \in (trimmed + 1) .. Len(inserted) : inserted[p] = 0
  BY <1>1 DEF FlushInv, FlushedOnce
<1>8. \A p \in 1 .. Len(inserted) :
        p \in 1 .. trimmed \/ p \in (trimmed + 1) .. Len(inserted)
  BY <1>1
<1>9. \A p \in DOMAIN inserted' : inserted'[p] >= 1
  <2> SUFFICES ASSUME NEW p \in 1 .. Len(inserted)
               PROVE  inserted'[p] >= 1
    BY <1>1, <1>3
  <2>1. CASE p \in 1 .. trimmed
    BY <2>1, <1>6, <1>7
  <2>2. CASE p \in (trimmed + 1) .. Len(inserted)
    BY <2>2, <1>6, <1>7
  <2> QED BY <2>1, <2>2, <1>8
<1>10. FlushedOnce'
  <2>1. Len(inserted') = trimmed' + Len(stream')
    BY <1>1, <1>2, <1>5
  <2>2. \A p \in 1 .. trimmed' :
          inserted'[p] >= 1 /\ (~died' => inserted'[p] = 1)
    BY <1>2, <1>6, <1>7
  <2>3. ~died' => \A p \in (trimmed' + 1) .. Len(inserted') : inserted'[p] = 1
    BY <1>2, <1>5, <1>6, <1>7
  <2> QED BY <1>1, <2>1, <2>2, <2>3 DEF FlushedOnce
<1>11. stream' \in Seq({stream'[i] : i \in DOMAIN stream'})
  BY <1>1, <1>2, Zenon
<1> QED BY <1>1, <1>2, <1>5, <1>9, <1>10, <1>11, Zenon DEF FlushInv

LEMMA FlushStep ==
  ASSUME ~FlushInSession, FlushInv, [FlushNext]_<<pipelineVars, flushVars>>
  PROVE  FlushInv'
<1> USE DEF screenerVars, workerVars, tables, world
<1>1. ASSUME NEW m \in Message, Feed(m), BesideFlush PROVE FlushInv'
  BY <1>1, BesideLemma DEF Feed, FlushInv
<1>2. ASSUME Dequeue, BesideFlush PROVE FlushInv'
  BY <1>2, BesideLemma DEF Dequeue, FlushInv
<1>3. ASSUME PushStream, BesideFlush PROVE FlushInv'
  <2>1. CASE stream' = stream
    BY <1>3, <2>1, BesideLemma DEF PushStream, FlushInv
  <2>2. CASE stream' # stream
    <3>1. /\ stream' = Append(stream, InFlight) /\ flushing = "off"
          /\ inserted' = Append(inserted, 0)
          /\ UNCHANGED <<flushing, trimmed, died>>
      BY <1>3, <2>2 DEF PushStream, BesideFlush, FlushInv
    <3>2. /\ stream' \in Seq({stream'[i] : i \in DOMAIN stream'})
          /\ Len(stream') = Len(stream) + 1
      <4>1. stream \in Seq({stream[i] : i \in DOMAIN stream})
        BY DEF FlushInv
      <4> DEFINE t == Append(stream, InFlight)
      <4>2. t \in Seq({t[i] : i \in DOMAIN t}) /\ Len(t) = Len(stream) + 1
        BY <4>1, AppendRange, Zenon
      <4>3. stream' = t
        BY <3>1
      <4> HIDE DEF t
      <4> QED BY <4>2, <4>3, Zenon
    <3>3. inserted \in Seq(Nat) /\ trimmed \in Nat /\ Len(stream) \in Nat
          /\ Len(inserted) = trimmed + Len(stream)
      <4>1. stream \in Seq({stream[i] : i \in DOMAIN stream})
        BY DEF FlushInv
      <4>2. Len(stream) \in Nat
        <5> DEFINE S == {stream[i] : i \in DOMAIN stream}
        <5>1. stream \in Seq(S)
          BY <4>1
        <5> HIDE DEF S
        <5> QED BY <5>1
      <4> QED BY <4>2 DEF FlushInv, FlushedOnce
    <3>4. /\ inserted' \in Seq(Nat) /\ Len(inserted') = Len(inserted) + 1
          /\ inserted'[Len(inserted) + 1] = 0
          /\ \A p \in 1 .. Len(inserted) : inserted'[p] = inserted[p]
      BY <3>1, <3>3, AppendCounter, Zenon
    <3>5. FlushedOnce'
      <4>1. \A p \in 1 .. trimmed :
              inserted'[p] >= 1 /\ (~died => inserted'[p] = 1)
        BY <3>3, <3>4 DEF FlushInv, FlushedOnce
      <4>2. ~died => \A p \in (trimmed + 1) .. Len(inserted') : inserted'[p] = 0
        <5> SUFFICES ASSUME ~died, NEW p \in (trimmed + 1) .. (Len(inserted) + 1)
                     PROVE  inserted'[p] = 0
          BY <3>4
        <5>1. CASE p = Len(inserted) + 1
          BY <5>1, <3>4
        <5>2. CASE p \in (trimmed + 1) .. Len(inserted)
          BY <5>2, <3>1, <3>3, <3>4 DEF FlushInv, FlushedOnce
        <5> QED BY <5>1, <5>2, <3>3
      <4> QED BY <3>1, <3>2, <3>3, <3>4, <4>1, <4>2 DEF FlushedOnce
    <3> QED BY <3>1, <3>2, <3>3, <3>4, <3>5 DEF FlushInv
  <2> QED BY <2>1, <2>2
<1>4. ASSUME Record \/ RecordFails, BesideFlush PROVE FlushInv'
  BY <1>4, BesideLemma DEF Record, RecordFails, FlushInv
<1>5. ASSUME Crash \/ Restart \/ Midnight, BesideFlush PROVE FlushInv'
  BY <1>5, BesideLemma DEF Crash, Restart, Midnight, FlushInv
<1>6. CASE FlushRead
  BY <1>6 DEF FlushRead, pipelineVars, FlushInv, FlushedOnce
<1>7. CASE FlushCommit
  BY <1>7, CommitLemma
<1>8. CASE FlushRollback
  BY <1>8 DEF FlushRollback, pipelineVars, FlushInv, FlushedOnce
<1>9. CASE FlushTrim
  <2>1. /\ flushing = "trim" /\ flushing' = "off" /\ stream' = <<>>
        /\ trimmed' = trimmed + Len(stream)
        /\ UNCHANGED <<worker, event_queue, inserted, died>>
    BY <1>9 DEF FlushTrim
  <2>2. /\ inserted \in Seq(Nat) /\ trimmed \in Nat /\ Len(stream) \in Nat
        /\ Len(inserted) = trimmed + Len(stream)
        /\ \A p \in 1 .. Len(inserted) : inserted[p] >= 1
    BY <2>1 DEF FlushInv, FlushedOnce
  <2>3. ~died => \A p \in 1 .. Len(inserted) : inserted[p] = 1
    BY <2>1, <2>2 DEF FlushInv, FlushedOnce
  <2>4. FlushedOnce'
    BY <2>1, <2>2, <2>3 DEF FlushedOnce
  <2> QED BY <2>1, <2>2, <2>4 DEF FlushInv
<1>10. CASE FlushDies
  BY <1>10 DEF FlushDies, pipelineVars, FlushInv, FlushedOnce
<1>11. CASE UNCHANGED <<pipelineVars, flushVars>>
  BY <1>11 DEF pipelineVars, flushVars, FlushInv, FlushedOnce
<1> QED BY <1>1, <1>2, <1>3, <1>4, <1>5, <1>6, <1>7, <1>8, <1>9, <1>10, <1>11
        DEF FlushNext

(* What has left the stream was inserted, exactly once unless a flush was  *)
(* killed between its commit and its trim, when the flush runs while no    *)
(* stock crosses a threshold.                                              *)
THEOREM FlushedOnceAlways ==
  ASSUME ~FlushInSession PROVE FlushSpec => []FlushedOnce
<1>1. FlushInv /\ [FlushNext]_<<pipelineVars, flushVars>> => FlushInv'
  BY FlushStep
<1>2. FlushInv => FlushedOnce
  BY DEF FlushInv
<1> QED BY FlushInitLemma, <1>1, <1>2, PTL DEF FlushSpec


(* What the argument about the tables needs of the types.  It says nothing *)
(* of the contents of a row the flush inserted, nor of what a restart      *)
(* makes of it.                                                            *)
ServerTypes ==
  /\ previous_closes \in [Stocks -> (Nat \ {0}) \cup {None}]
  /\ event_queue \in Seq(ScreenerEvent)
  /\ worker \in {"idle", "pushing", "recording"}
  /\ worker # "idle" => inflight \in ScreenerEvent
  /\ trading_date \in Days /\ today \in Days
  /\ DOMAIN rows = Stocks \X Days
  /\ events \in Seq(Stored)

RowsInv == ServerTypes /\ OnlyFlushAddsRows

(* A tick that is judged puts events on the queue, whatever the screener   *)
(* shows.                                                                  *)
LEMMA FeedTypes ==
  ASSUME ServerTypes, NEW m \in Message, Feed(m)
  PROVE  ServerTypes'
<1>1. ProcessMessage(m)
  BY DEF Feed
<1>2. ASSUME Judge(m), NEW type \in {"SCREENED", "REMOVED"}
      PROVE  Append(event_queue, EventFor(type, m, ChangeOf(m)))
               \in Seq(ScreenerEvent)
  <2>1. m.symbol \in Stocks /\ m.ltp \in Prices /\ ChangeOf(m) # None
    BY <1>2 DEF Judge, Message
  <2>2. ChangeOf(m) \in Percentage
    BY <1>2, <2>1, ChangeLemma DEF ServerTypes, Judge
  <2>3. EventFor(type, m, ChangeOf(m)) \in ScreenerEvent
    BY <2>1, <2>2 DEF EventFor, ScreenerEvent
  <2> QED BY <2>3 DEF ServerTypes
<1>3. event_queue' \in Seq(ScreenerEvent)
  BY <1>1, <1>2 DEF ProcessMessage, IgnoreMessage, NoBaseline, EnterScreened, StayOut,
                    LeaveScreened, StayScreened, screenerVars, ServerTypes
<1>4. previous_closes' \in [Stocks -> (Nat \ {0}) \cup {None}]
  <2>1. CASE Judge(m)
    BY <2>1, ClosesLemma DEF Judge, ServerTypes
  <2>2. CASE UNCHANGED screenerVars
    BY <2>2 DEF screenerVars, ServerTypes
  <2> QED BY <1>1, <2>1, <2>2 DEF ProcessMessage, IgnoreMessage, NoBaseline,
               EnterScreened, StayOut, LeaveScreened, StayScreened
<1> QED BY <1>3, <1>4 DEF Feed, ServerTypes, tables, workerVars

(* The server keeps what is needed of the types, beside the flush.         *)
LEMMA ServerTypesStep ==
  ASSUME ServerTypes, [PipelineNext]_pipelineVars
  PROVE  ServerTypes'
<1>1. CASE Dequeue
  <2>1. /\ Head(event_queue) \in ScreenerEvent
        /\ Tail(event_queue) \in Seq(ScreenerEvent)
    <3>1. event_queue \in Seq(ScreenerEvent) /\ event_queue # <<>>
      BY <1>1 DEF Dequeue, ServerTypes
    <3> QED BY <3>1
  <2> QED BY <1>1, <2>1 DEF Dequeue, ServerTypes, tables, world
<1>2. CASE PushStream
  BY <1>2 DEF PushStream, ServerTypes, screenerVars, world
<1>3. CASE Record
  <2>1. InFlight \in Stored /\ events \in Seq(Stored)
    BY <1>3 DEF Record, ServerTypes, InFlight, Stored
  <2>2. events' \in Seq(Stored)
    BY <1>3, <2>1 DEF Record
  <2>3. DOMAIN rows' = Stocks \X Days
    BY <1>3 DEF Record, RowsAfter, ServerTypes
  <2>4. UNCHANGED <<previous_closes, event_queue, trading_date, today>> /\ worker' = "idle"
    BY <1>3 DEF Record, screenerVars, world
  <2> QED BY <2>2, <2>3, <2>4 DEF ServerTypes
<1>4. CASE RecordFails
  <2>1. /\ UNCHANGED <<previous_closes, event_queue, trading_date, today, rows, events>>
        /\ worker' = "idle"
    BY <1>4 DEF RecordFails, screenerVars, tables, world
  <2> QED BY <2>1 DEF ServerTypes
<1>5. CASE Crash
  BY <1>5 DEF Crash, NoRows, ServerTypes, tables, world
<1>6. CASE Restart
  <2>1. previous_closes' \in [Stocks -> (Nat \ {0}) \cup {None}]
        /\ event_queue' = <<>>
    BY <1>6 DEF Restart, Startup
  <2>2. /\ UNCHANGED <<worker, inflight, today, rows, events>>
        /\ trading_date' = today
    BY <1>6 DEF Restart, workerVars, tables, world
  <2> QED BY <2>1, <2>2 DEF ServerTypes
<1>7. CASE Midnight
  <2>1. today' \in Days
    BY <1>7 DEF Midnight, ServerTypes, Days
  <2>2. UNCHANGED <<previous_closes, event_queue, worker, inflight, trading_date,
                    rows, events>>
    BY <1>7 DEF Midnight, screenerVars, workerVars, tables
  <2> QED BY <2>1, <2>2 DEF ServerTypes
<1>8. CASE UNCHANGED pipelineVars
  BY <1>8 DEF pipelineVars, ServerTypes, screenerVars, workerVars, tables, world
<1> QED BY FeedTypes, <1>1, <1>2, <1>3, <1>4, <1>5, <1>6, <1>7, <1>8
        DEF PipelineNext, ReliableNext

(* A step is one of the server, one commit of the flush, or leaves the     *)
(* tables and the server alone.                                            *)
LEMMA FlushCases ==
  ASSUME [FlushNext]_<<pipelineVars, flushVars>>
  PROVE  \/ [PipelineNext]_pipelineVars /\ UNCHANGED flushed
         \/ FlushCommit
         \/ FlushTrim
BY DEF FlushNext, BesideFlush, FlushRead, FlushRollback, FlushDies, PipelineNext,
       ReliableNext, flushVars

(* The tables keep agreeing where the flush adds nothing.                  *)
LEMMA RowsStep ==
  ASSUME RowsInv, [FlushNext]_<<pipelineVars, flushVars>>
  PROVE  RowsInv'
<1>1. CASE [PipelineNext]_pipelineVars /\ UNCHANGED flushed
  <2>1. ServerTypes'
    BY <1>1, ServerTypesStep DEF RowsInv
  <2>2. ASSUME NEW s \in Stocks, NEW date \in Days, <<s, date>> \notin flushed
        PROVE  TablesAgreeOn(s, date)'
    <3>1. TablesAgreeOn(s, date)
      BY <2>2 DEF RowsInv, OnlyFlushAddsRows
    <3>2. CASE Record
      <4>1. /\ inflight \in ScreenerEvent /\ trading_date \in Days
            /\ events \in Seq(Stored) /\ DOMAIN rows = Stocks \X Days
        BY <3>2 DEF Record, RowsInv, ServerTypes
      <4> QED BY <3>1, <3>2, <4>1, RecordAgrees
    <3>3. CASE ~Record
      BY <1>1, <3>1, <3>3, TablesStep, OthersAgree
    <3> QED BY <3>2, <3>3
  <2> QED BY <1>1, <2>1, <2>2 DEF RowsInv, OnlyFlushAddsRows
<1>2. CASE FlushCommit
  <2>1. /\ UNCHANGED <<previous_closes, event_queue, worker, inflight, trading_date,
                       today, events>>
        /\ flushed' = flushed \cup KeysRead
    BY <1>2 DEF FlushCommit, screenerVars, workerVars, world
  <2>2. /\ DOMAIN rows' = DOMAIN rows
        /\ \A key \in DOMAIN rows : key \notin KeysRead => rows'[key] = rows[key]
    BY <1>2 DEF FlushCommit
  <2>3. ServerTypes'
    BY <2>1, <2>2 DEF RowsInv, ServerTypes
  <2>4. ASSUME NEW s \in Stocks, NEW date \in Days, <<s, date>> \notin flushed'
        PROVE  TablesAgreeOn(s, date)'
    <3>1. TablesAgreeOn(s, date) /\ rows'[<<s, date>>] = rows[<<s, date>>]
      BY <2>1, <2>2, <2>4 DEF RowsInv, ServerTypes, OnlyFlushAddsRows
    <3> QED BY <2>1, <3>1, OthersAgree
  <2> QED BY <2>3, <2>4 DEF RowsInv, OnlyFlushAddsRows
<1>3. CASE FlushTrim
  <2>1. UNCHANGED <<previous_closes, event_queue, worker, inflight, trading_date,
                    today, events, rows, flushed>>
    BY <1>3 DEF FlushTrim, screenerVars, workerVars, world
  <2>2. ServerTypes'
    BY <2>1 DEF RowsInv, ServerTypes
  <2>3. ASSUME NEW s \in Stocks, NEW date \in Days, <<s, date>> \notin flushed'
        PROVE  TablesAgreeOn(s, date)'
    BY <2>1, <2>3, OthersAgree DEF RowsInv, OnlyFlushAddsRows
  <2> QED BY <2>2, <2>3 DEF RowsInv, OnlyFlushAddsRows
<1> QED BY FlushCases, <1>1, <1>2, <1>3

(* Empty tables agree.                                                     *)
LEMMA RowsInitLemma == FlushInit => RowsInv
<1> SUFFICES ASSUME FlushInit PROVE RowsInv
  OBVIOUS
<1>1. RowIffLastLogged /\ PipelineTypeOK
  BY PipelineInitLemma DEF FlushInit
<1> QED BY <1>1 DEF RowIffLastLogged, PipelineTypeOK, ScreenerTypeOK, RowsInv,
                    ServerTypes, OnlyFlushAddsRows

(* The tables agree on every stock and date the flush has not touched.     *)
THEOREM OnlyFlushAdds == FlushSpec => []OnlyFlushAddsRows
<1>1. RowsInv => OnlyFlushAddsRows
  BY DEF RowsInv
<1> QED BY <1>1, RowsInitLemma, RowsStep, PTL DEF FlushSpec

(* What a restart loads of such a stock is its last event of the day.      *)
LEMMA RestartLemma ==
  ASSUME RowsInv, [FlushNext]_<<pipelineVars, flushVars>>, ~up, up',
         NEW s \in Stocks, <<s, today>> \notin flushed
  PROVE  screened'[s] # None <=>
           \E i \in Positions(s, today) :
             /\ IsLastOf(i, s, today)
             /\ events[i].event.event_type = "SCREENED"
<1>1. Restart
  BY DEF FlushNext, Feed, Dequeue, PushStream, Record, RecordFails, Crash, Midnight,
         FlushRead, FlushCommit, FlushRollback, FlushTrim, FlushDies, pipelineVars
<1>2. screened'[s] = RowsOn(today)[s]
  BY <1>1 DEF Restart, Startup
<1>3. TablesAgreeOn(s, today)
  BY DEF RowsInv, ServerTypes, OnlyFlushAddsRows
<1>4. \A i, j : IsLastOf(i, s, today) /\ IsLastOf(j, s, today) => i = j
  <2>1. Positions(s, today) \subseteq Int
    BY DEF Positions
  <2> QED BY <2>1 DEF IsLastOf
<1>5. CASE rows[<<s, today>>] = <<>>
  BY <1>2, <1>3, <1>5 DEF RowsOn, TablesAgreeOn
<1>6. ASSUME NEW i \in Positions(s, today), IsLastOf(i, s, today),
             events[i].event.event_type = "SCREENED",
             rows[<<s, today>>] = <<StoredState(events[i].event)>>
      PROVE  screened'[s] # None
  <2>1. events[i] \in Stored
    BY <1>6 DEF Positions, RowsInv, ServerTypes
  <2>2. StoredState(events[i].event) \in ScreenedState
    BY <2>1 DEF Stored, ScreenerEvent, StoredState, ScreenedState
  <2>3. screened'[s] = StoredState(events[i].event)
    BY <1>2, <1>6 DEF RowsOn
  <2>4. None \notin ScreenedState
    BY ScreenerNone
  <2> QED BY <2>2, <2>3, <2>4
<1> QED BY <1>3, <1>5, <1>6 DEF TablesAgreeOn

(* After a restart a stock is screened exactly when its last recorded      *)
(* event of the day is an entry, unless a flush added rows of it that day. *)
THEOREM RestartIsLastEvent == FlushSpec => RestartFollowsEvents
<1>1. RowsInv /\ [FlushNext]_<<pipelineVars, flushVars>> =>
        [ (~up /\ up') =>
            \A s \in Stocks : <<s, today>> \notin flushed =>
              (screened'[s] # None <=>
                 \E i \in Positions(s, today) :
                   /\ IsLastOf(i, s, today)
                   /\ events[i].event.event_type = "SCREENED")
        ]_<<pipelineVars, flushVars>>
  BY RestartLemma
<1> QED BY <1>1, RowsInitLemma, RowsStep, PTL DEF FlushSpec, RestartFollowsEvents
=============================================================================
