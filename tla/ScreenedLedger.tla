--------------------------- MODULE ScreenedLedger ---------------------------
(***************************************************************************)
(* What the screener and its persistence promise for one trading date: a   *)
(* ledger of entries and exits, a set of active stocks that is always the  *)
(* one the ledger tells of, and a prefix of the ledger that is durable.  A *)
(* crash forgets the entries that are not durable and nothing else.        *)
(***************************************************************************)
EXTENDS Naturals, Sequences

CONSTANT Stocks

VARIABLES ledger,   \* entries [stock, type] of the date, in order
          durable,  \* how many of them a crash cannot lose
          active    \* the stocks that are screened

ledgerVars == <<ledger, durable, active>>

Entry == [stock : Stocks, type : {"SCREENED", "REMOVED"}]

(* The stocks whose last entry is an entry into the set. *)
Replay(entries) ==
  {s \in Stocks :
     \E i \in 1 .. Len(entries) :
       /\ entries[i] = [stock |-> s, type |-> "SCREENED"]
       /\ \A j \in (i + 1) .. Len(entries) : entries[j].stock # s}

LedgerInit ==
  /\ ledger = <<>>
  /\ durable = 0
  /\ active = {}

(* The stock enters the set, or leaves it. *)
Cross(s) ==
  /\ IF s \in active
     THEN /\ active' = active \ {s}
          /\ ledger' = Append(ledger, [stock |-> s, type |-> "REMOVED"])
     ELSE /\ active' = active \cup {s}
          /\ ledger' = Append(ledger, [stock |-> s, type |-> "SCREENED"])
  /\ UNCHANGED durable

(* The next entry becomes durable. *)
Persist ==
  /\ durable < Len(ledger)
  /\ durable' = durable + 1
  /\ UNCHANGED <<ledger, active>>

(* A crash: what is not durable never happened. *)
Forget ==
  /\ ledger' = SubSeq(ledger, 1, durable)
  /\ active' = Replay(ledger')
  /\ UNCHANGED durable

(* The process starts on another date. *)
NewDate ==
  /\ ledger' = <<>>
  /\ durable' = 0
  /\ active' = {}

LedgerNext == (\E s \in Stocks : Cross(s)) \/ Persist \/ Forget \/ NewDate

LedgerSpec == LedgerInit /\ [][LedgerNext]_ledgerVars

(* The variables are what their declarations say; no more is durable than  *)
(* was entered.                                                            *)
LedgerTypeOK ==
  /\ ledger \in Seq(Entry)
  /\ durable \in 0 .. Len(ledger)
  /\ active \subseteq Stocks

(* The active stocks are those the ledger tells of, so whoever replays the *)
(* event table of screening_events knows the screened set.                 *)
ActiveIsReplay == active = Replay(ledger)

(* Entries and exits of a stock alternate, the first being an entry, also  *)
(* across crashes.                                                         *)
LedgerAlternates ==
  \A i \in 1 .. Len(ledger) :
    ledger[i].type = "SCREENED"
      <=> ledger[i].stock \notin Replay(SubSeq(ledger, 1, i - 1))

(* What is durable stays as it is until the next date. *)
DurableKept ==
  [][ \/ ledger' = <<>>
      \/ SubSeq(ledger', 1, durable) = SubSeq(ledger, 1, durable) ]_ledgerVars
=============================================================================
