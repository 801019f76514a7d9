------------------------ MODULE ScreenedLedgerProofs ------------------------
(***************************************************************************)
(* Proofs about ScreenedLedger, for every set of stocks and ledgers of any *)
(* length.                                                                 *)
(***************************************************************************)
EXTENDS ScreenedLedger, SequenceTheorems, TLAPS

(* What a prefix of a ledger is. *)
LEMMA PrefixLemma ==
  ASSUME NEW s \in Seq(Entry), NEW n \in 0 .. Len(s)
  PROVE  /\ SubSeq(s, 1, n) \in Seq(Entry)
         /\ Len(SubSeq(s, 1, n)) = n
         /\ \A i \in 1 .. n : SubSeq(s, 1, n)[i] = s[i]
<1>1. n \in Int /\ \A i \in 1 .. n : s[i] \in Entry
  OBVIOUS
<1>2. SubSeq(s, 1, n) = [i \in 1 .. n |-> s[i]]
  BY SubSeqProperties, <1>1
<1> QED BY <1>1, <1>2, SubSeqProperties

(* Replaying one more entry adds its stock or takes it out.                *)
LEMMA ReplayAppendLemma ==
  ASSUME NEW s \in Seq(Entry), NEW e \in Entry
  PROVE  Replay(Append(s, e)) =
           IF e.type = "SCREENED" THEN Replay(s) \cup {e.stock}
           ELSE Replay(s) \ {e.stock}
<1> DEFINE t == Append(s, e)
<1>1. /\ t \in Seq(Entry) /\ Len(t) = Len(s) + 1 /\ t[Len(s) + 1] = e
      /\ Len(s) \in Nat
      /\ \A i \in 1 .. Len(s) : t[i] = s[i]
  OBVIOUS
<1> HIDE DEF t
<1>2. ASSUME NEW x \in Stocks, x # e.stock
      PROVE  x \in Replay(t) <=> x \in Replay(s)
  <2>1. ASSUME x \in Replay(t) PROVE x \in Replay(s)
    <3>1. PICK i \in 1 .. Len(t) :
            /\ t[i] = [stock |-> x, type |-> "SCREENED"]
            /\ \A j \in (i + 1) .. Len(t) : t[j].stock # x
      BY <2>1 DEF Replay
    <3>2. i \in 1 .. Len(s)
      BY <1>1, <1>2, <3>1
    <3>3. \A j \in (i + 1) .. Len(s) : j \in (i + 1) .. Len(t) /\ t[j] = s[j]
      BY <1>1, <3>2
    <3> QED BY <1>1, <3>1, <3>2, <3>3 DEF Replay
  <2>2. ASSUME x \in Replay(s) PROVE x \in Replay(t)
    <3>1. PICK i \in 1 .. Len(s) :
            /\ s[i] = [stock |-> x, type |-> "SCREENED"]
            /\ \A j \in (i + 1) .. Len(s) : s[j].stock # x
      BY <2>2 DEF Replay
    <3>2. \A j \in (i + 1) .. Len(t) : t[j].stock # x
      BY <1>1, <1>2, <3>1
    <3>3. i \in 1 .. Len(t) /\ t[i] = s[i]
      BY <1>1
    <3> QED BY <3>1, <3>2, <3>3 DEF Replay
  <2> QED BY <2>1, <2>2
<1>3. e.stock \in Stocks /\ e.type \in {"SCREENED", "REMOVED"}
      /\ e = [stock |-> e.stock, type |-> e.type]
  BY DEF Entry
<1>4. ASSUME e.type = "SCREENED" PROVE e.stock \in Replay(t)
  <2>1. Len(s) + 1 \in 1 .. Len(t) /\ (Len(s) + 2) .. Len(t) = {}
    BY <1>1
  <2>2. t[Len(s) + 1] = [stock |-> e.stock, type |-> "SCREENED"]
    BY <1>1, <1>3, <1>4
  <2>3. \A j \in (Len(s) + 1 + 1) .. Len(t) : t[j].stock # e.stock
    BY <1>1
  <2> QED BY <1>3, <2>1, <2>2, <2>3 DEF Replay
<1>5. ASSUME e.type # "SCREENED" PROVE e.stock \notin Replay(t)
  <2>1. SUFFICES ASSUME e.stock \in Replay(t) PROVE FALSE
    OBVIOUS
  <2>2. PICK i \in 1 .. Len(t) :
          /\ t[i] = [stock |-> e.stock, type |-> "SCREENED"]
          /\ \A j \in (i + 1) .. Len(t) : t[j].stock # e.stock
    BY <2>1 DEF Replay
  <2>3. i # Len(s) + 1
    BY <1>1, <1>5, <2>2
  <2>4. Len(s) + 1 \in (i + 1) .. Len(t)
    BY <1>1, <2>2, <2>3
  <2> QED BY <1>1, <2>2, <2>4
<1>6. Replay(t) \subseteq Stocks /\ Replay(s) \subseteq Stocks
  BY DEF Replay
<1> QED BY <1>2, <1>3, <1>4, <1>5, <1>6 DEF t

(* The replay of an empty ledger. *)
LEMMA ReplayEmptyLemma == Replay(<<>>) = {}
BY DEF Replay

(* Every step of the ledger keeps its types.                               *)
LEMMA LedgerTypeStep ==
  LedgerTypeOK /\ [LedgerNext]_ledgerVars => LedgerTypeOK'
<1> SUFFICES ASSUME LedgerTypeOK, [LedgerNext]_ledgerVars PROVE LedgerTypeOK'
  OBVIOUS
<1> USE DEF LedgerTypeOK
<1>1. ASSUME NEW s \in Stocks, Cross(s) PROVE LedgerTypeOK'
  <2>1. \A t \in {"SCREENED", "REMOVED"} :
          /\ [stock |-> s, type |-> t] \in Entry
          /\ Append(ledger, [stock |-> s, type |-> t]) \in Seq(Entry)
          /\ Len(Append(ledger, [stock |-> s, type |-> t])) = Len(ledger) + 1
    BY DEF Entry
  <2>2. \E t \in {"SCREENED", "REMOVED"} :
          ledger' = Append(ledger, [stock |-> s, type |-> t])
    BY <1>1 DEF Cross
  <2>3. ledger' \in Seq(Entry) /\ Len(ledger') = Len(ledger) + 1
    BY <2>1, <2>2
  <2>4. active' \subseteq Stocks
    BY <1>1 DEF Cross
  <2>5. durable' \in 0 .. Len(ledger')
    <3>1. durable' = durable /\ Len(ledger) \in Nat
      BY <1>1 DEF Cross
    <3> QED BY <2>3, <3>1
  <2> QED BY <2>3, <2>4, <2>5
<1>2. CASE Persist
  BY <1>2 DEF Persist
<1>3. CASE Forget
  <2>1. ledger' \in Seq(Entry) /\ Len(ledger') = durable
    BY <1>3, PrefixLemma DEF Forget
  <2>2. active' \subseteq Stocks
    BY <1>3 DEF Forget, Replay
  <2> QED BY <1>3, <2>1, <2>2 DEF Forget
<1>4. CASE NewDate
  BY <1>4 DEF NewDate
<1>5. CASE UNCHANGED ledgerVars
  BY <1>5 DEF ledgerVars
<1> QED BY <1>1, <1>2, <1>3, <1>4, <1>5 DEF LedgerNext

(* The ledger keeps its types: no more is durable than was entered. *)
THEOREM LedgerTypeCorrect == LedgerSpec => []LedgerTypeOK
<1>1. LedgerInit => LedgerTypeOK
  BY DEF LedgerInit, LedgerTypeOK
<1> QED BY <1>1, LedgerTypeStep, PTL DEF LedgerSpec

(* Every step changes the active stocks as it changes the replay of the    *)
(* ledger.                                                                 *)
LEMMA ReplayStep ==
  LedgerTypeOK /\ ActiveIsReplay /\ [LedgerNext]_ledgerVars => ActiveIsReplay'
<1> SUFFICES ASSUME LedgerTypeOK, ActiveIsReplay, [LedgerNext]_ledgerVars
             PROVE  ActiveIsReplay'
  OBVIOUS
<1> USE DEF ActiveIsReplay
<1>1. ASSUME NEW s \in Stocks, Cross(s) PROVE ActiveIsReplay'
  <2> DEFINE in  == [stock |-> s, type |-> "SCREENED"]
             out == [stock |-> s, type |-> "REMOVED"]
  <2>1. in \in Entry /\ out \in Entry /\ in.type = "SCREENED"
        /\ out.type # "SCREENED" /\ in.stock = s /\ out.stock = s
    BY DEF Entry
  <2>2. ledger \in Seq(Entry)
    BY DEF LedgerTypeOK
  <2>3. Replay(Append(ledger, in)) = Replay(ledger) \cup {s}
    BY <2>1, <2>2, ReplayAppendLemma
  <2>4. Replay(Append(ledger, out)) = Replay(ledger) \ {s}
    BY <2>1, <2>2, ReplayAppendLemma
  <2> QED BY <1>1, <2>3, <2>4 DEF Cross
<1>2. CASE Persist
  BY <1>2 DEF Persist
<1>3. CASE Forget
  BY <1>3 DEF Forget
<1>4. CASE NewDate
  BY <1>4, ReplayEmptyLemma DEF NewDate
<1>5. CASE UNCHANGED ledgerVars
  BY <1>5 DEF ledgerVars
<1> QED BY <1>1, <1>2, <1>3, <1>4, <1>5 DEF LedgerNext

(* The active stocks are always those the ledger tells of. *)
THEOREM ReplayCorrect == LedgerSpec => []ActiveIsReplay
<1>1. LedgerInit => ActiveIsReplay
  BY ReplayEmptyLemma DEF LedgerInit, ActiveIsReplay
<1> QED BY <1>1, ReplayStep, LedgerTypeCorrect, PTL DEF LedgerSpec

(* Two ledgers that agree on their first n entries have the same prefix.   *)
LEMMA SamePrefixLemma ==
  ASSUME NEW s \in Seq(Entry), NEW t \in Seq(Entry), NEW n \in Nat,
         n <= Len(s), n <= Len(t), \A i \in 1 .. n : s[i] = t[i]
  PROVE  SubSeq(s, 1, n) = SubSeq(t, 1, n)
<1>1. n \in Int /\ \A i \in 1 .. n : s[i] \in Entry /\ t[i] \in Entry
  OBVIOUS
<1>2. SubSeq(s, 1, n) = [i \in 1 .. n |-> s[i]]
  BY SubSeqProperties, <1>1
<1>3. SubSeq(t, 1, n) = [i \in 1 .. n |-> t[i]]
  BY SubSeqProperties, <1>1
<1> QED BY <1>2, <1>3

(* Every step but the one to another date leaves the durable entries.      *)
LEMMA DurableStep ==
  ASSUME LedgerTypeOK, [LedgerNext]_ledgerVars
  PROVE  \/ ledger' = <<>>
         \/ SubSeq(ledger', 1, durable) = SubSeq(ledger, 1, durable)
<1>1. durable \in Nat /\ durable <= Len(ledger) /\ ledger \in Seq(Entry)
      /\ Len(ledger) \in Nat /\ durable \in 0 .. Len(ledger)
  BY DEF LedgerTypeOK
<1>2. ASSUME NEW s \in Stocks, Cross(s)
      PROVE  SubSeq(ledger', 1, durable) = SubSeq(ledger, 1, durable)
  <2>1. PICK t \in {"SCREENED", "REMOVED"} :
          ledger' = Append(ledger, [stock |-> s, type |-> t])
    BY <1>2 DEF Cross
  <2>2. [stock |-> s, type |-> t] \in Entry
    BY DEF Entry
  <2>3. /\ ledger' \in Seq(Entry) /\ Len(ledger') = Len(ledger) + 1
        /\ \A i \in 1 .. Len(ledger) : ledger'[i] = ledger[i]
    BY <1>1, <2>1, <2>2
  <2>4. /\ durable <= Len(ledger')
        /\ \A i \in 1 .. durable : ledger'[i] = ledger[i]
    BY <1>1, <2>3
  <2> QED BY <1>1, <2>3, <2>4, SamePrefixLemma
<1>3. CASE Persist
  BY <1>3 DEF Persist
<1>4. CASE Forget
  <2>1. ledger' = SubSeq(ledger, 1, durable)
    BY <1>4 DEF Forget
  <2>2. /\ ledger' \in Seq(Entry) /\ Len(ledger') = durable
        /\ \A i \in 1 .. durable : ledger'[i] = ledger[i]
    BY <1>1, <2>1, PrefixLemma
  <2> QED BY <1>1, <2>2, SamePrefixLemma
<1>5. CASE NewDate
  BY <1>5 DEF NewDate
<1>6. CASE UNCHANGED ledgerVars
  BY <1>6 DEF ledgerVars
<1> QED BY <1>2, <1>3, <1>4, <1>5, <1>6 DEF LedgerNext

(* What is durable stays as it is until the next date. *)
THEOREM DurableForever == LedgerSpec => DurableKept
<1>1. LedgerTypeOK /\ [LedgerNext]_ledgerVars =>
        [ \/ ledger' = <<>>
          \/ SubSeq(ledger', 1, durable) = SubSeq(ledger, 1, durable) ]_ledgerVars
  BY DurableStep
<1> QED BY <1>1, LedgerTypeCorrect, PTL DEF LedgerSpec, DurableKept

(* A new entry fits the replay of those before it, and a prefix keeps its  *)
(* own alternation.                                                        *)
LEMMA AlternatesStep ==
  LedgerTypeOK /\ ActiveIsReplay /\ LedgerAlternates /\ [LedgerNext]_ledgerVars
    => LedgerAlternates'
<1> SUFFICES ASSUME LedgerTypeOK, ActiveIsReplay, LedgerAlternates,
                    [LedgerNext]_ledgerVars
             PROVE  LedgerAlternates'
  OBVIOUS
<1>1. durable \in Nat /\ durable <= Len(ledger) /\ ledger \in Seq(Entry)
      /\ Len(ledger) \in Nat /\ durable \in 0 .. Len(ledger)
  BY DEF LedgerTypeOK
<1>2. LedgerTypeOK'
  BY LedgerTypeStep
<1>3. ledger' \in Seq(Entry) /\ Len(ledger') \in Nat
  BY <1>2 DEF LedgerTypeOK
<1>4. ASSUME NEW n \in Nat, n <= Len(ledger), n <= Len(ledger'),
             \A i \in 1 .. n : ledger'[i] = ledger[i], NEW i \in 1 .. n
      PROVE  ledger'[i].type = "SCREENED"
               <=> ledger'[i].stock \notin Replay(SubSeq(ledger', 1, i - 1))
  <2>1. /\ i - 1 \in Nat /\ i - 1 <= Len(ledger) /\ i - 1 <= Len(ledger')
        /\ \A j \in 1 .. (i - 1) : ledger'[j] = ledger[j]
        /\ i \in 1 .. Len(ledger) /\ ledger'[i] = ledger[i]
    BY <1>1, <1>3, <1>4
  <2>2. SubSeq(ledger', 1, i - 1) = SubSeq(ledger, 1, i - 1)
    BY <1>1, <1>3, <2>1, SamePrefixLemma
  <2>3. ledger[i].type = "SCREENED"
          <=> ledger[i].stock \notin Replay(SubSeq(ledger, 1, i - 1))
    BY <2>1 DEF LedgerAlternates
  <2> QED BY <2>1, <2>2, <2>3
<1>5. ASSUME NEW s \in Stocks, Cross(s) PROVE LedgerAlternates'
  <2>1. PICK t \in {"SCREENED", "REMOVED"} :
          /\ ledger' = Append(ledger, [stock |-> s, type |-> t])
          /\ t = "SCREENED" <=> s \notin active
    BY <1>5 DEF Cross
  <2>2. [stock |-> s, type |-> t] \in Entry
    BY DEF Entry
  <2>3. /\ Len(ledger') = Len(ledger) + 1
        /\ \A i \in 1 .. Len(ledger) : ledger'[i] = ledger[i]
        /\ ledger'[Len(ledger) + 1] = [stock |-> s, type |-> t]
    BY <1>1, <2>1, <2>2
  <2>4. SubSeq(ledger', 1, Len(ledger)) = ledger
    <3>1. SubSeq(ledger', 1, Len(ledger)) = SubSeq(ledger, 1, Len(ledger))
      BY <1>1, <1>3, <2>3, SamePrefixLemma
    <3>2. SubSeq(ledger, 1, Len(ledger)) = ledger
      BY <1>1, SubSeqFull
    <3> QED BY <3>1, <3>2
  <2>5. s \in active <=> s \in Replay(SubSeq(ledger', 1, Len(ledger)))
    BY <2>4 DEF ActiveIsReplay
  <2>6. ASSUME NEW i \in 1 .. Len(ledger')
        PROVE  ledger'[i].type = "SCREENED"
                 <=> ledger'[i].stock \notin Replay(SubSeq(ledger', 1, i - 1))
    <3>1. CASE i \in 1 .. Len(ledger)
      BY <1>1, <1>4, <2>3, <3>1
    <3>2. CASE i = Len(ledger) + 1
      <4>1. i - 1 = Len(ledger)
        BY <1>1, <3>2
      <4>2. ledger'[i].type = t /\ ledger'[i].stock = s
        BY <2>3, <3>2
      <4> QED BY <2>1, <2>5, <4>1, <4>2
    <3> QED BY <1>1, <2>3, <2>6, <3>1, <3>2
  <2> QED BY <2>6 DEF LedgerAlternates
<1>6. CASE Persist
  BY <1>6 DEF Persist, LedgerAlternates
<1>7. CASE Forget
  <2>1. /\ Len(ledger') = durable
        /\ \A i \in 1 .. durable : ledger'[i] = ledger[i]
    BY <1>1, <1>7, PrefixLemma DEF Forget
  <2>2. \A i \in 1 .. durable :
          ledger'[i].type = "SCREENED"
            <=> ledger'[i].stock \notin Replay(SubSeq(ledger', 1, i - 1))
    BY <1>1, <1>4, <2>1
  <2> QED BY <2>1, <2>2 DEF LedgerAlternates
<1>8. CASE NewDate
  BY <1>8 DEF NewDate, LedgerAlternates
<1>9. CASE UNCHANGED ledgerVars
  BY <1>9 DEF ledgerVars, LedgerAlternates
<1> QED BY <1>5, <1>6, <1>7, <1>8, <1>9 DEF LedgerNext

(* In the ledger the entries and exits of a stock alternate. *)
THEOREM AlternationCorrect == LedgerSpec => []LedgerAlternates
<1>1. LedgerInit => LedgerAlternates
  BY DEF LedgerInit, LedgerAlternates
<1> QED BY <1>1, AlternatesStep, LedgerTypeCorrect, ReplayCorrect, PTL
        DEF LedgerSpec
=============================================================================
