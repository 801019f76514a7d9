-------------------------- MODULE FyersRateLimiter --------------------------
(***************************************************************************)
(* The limiter of app/services/fyers_rate_limiter.py that every history    *)
(* request of ClosingPriceService waits for: two sliding windows, each a   *)
(* deque of the stamps of the requests it let through.  One thread calls   *)
(* wait(), one call after the other.  Time passes between any two of its   *)
(* steps, also between the last check of the limits and the stamp.         *)
(***************************************************************************)
EXTENDS Integers, Sequences

CONSTANTS
  requests_per_second,
  requests_per_minute,
  SECOND, MINUTE,   \* the lengths of the windows
  NAP,              \* the least sleep, 0.1 s
  MaxTime,          \* bound: the clock
  MaxRequests       \* bound: requests let through

VARIABLES
  second_requests, minute_requests,
  clock,            \* time.monotonic()
  pc,               \* "idle", "looking", "pruning", "sleeping", "passed"
  now,              \* the local variable: the time last read
  wake,             \* when time.sleep returns
  naps,             \* history: sleeps of the current call
  sent              \* history: the stamps of all requests let through

deques == <<second_requests, minute_requests>>
limiterVars == <<deques, clock, pc, now, wake, naps, sent>>

ASSUME LimiterConstants ==
  /\ requests_per_second \in Nat \ {0} /\ requests_per_minute \in Nat \ {0}
  /\ SECOND \in Nat \ {0} /\ MINUTE \in Nat \ {0} /\ NAP \in Nat \ {0}
  /\ MaxTime \in Nat /\ MaxRequests \in Nat
-----------------------------------------------------------------------------
Expired(requests, window) ==
  requests # <<>> /\ now - Head(requests) >= window

Full(requests, limit) == Len(requests) >= limit

LongerOf(a, b) == IF a >= b THEN a ELSE b

(* Mutant of SleepTime: every sleep is the shortest one. *)
SleepTimeShort == NAP

(* At least NAP, and until the oldest request of each full window leaves it. *)
SleepTime ==
  LET untilSecond == IF Full(second_requests, requests_per_second)
                     THEN SECOND - (now - Head(second_requests)) ELSE 0
      untilMinute == IF Full(minute_requests, requests_per_minute)
                     THEN MINUTE - (now - Head(minute_requests)) ELSE 0
  IN  LongerOf(NAP, LongerOf(untilSecond, untilMinute))
-----------------------------------------------------------------------------
LimiterInit ==
  /\ second_requests = <<>> /\ minute_requests = <<>>
  /\ clock = 0 /\ now = 0 /\ wake = 0 /\ naps = 0
  /\ pc = "idle"
  /\ sent = <<>>

Pass ==
  /\ clock < MaxTime
  /\ clock' = clock + 1
  /\ UNCHANGED <<deques, pc, now, wake, naps, sent>>

Call ==
  /\ pc = "idle"
  /\ Len(sent) < MaxRequests
  /\ pc' = "looking" /\ naps' = 0
  /\ UNCHANGED <<deques, clock, now, wake, sent>>

ReadClock ==
  /\ pc = "looking"
  /\ now' = clock
  /\ pc' = "pruning"
  /\ UNCHANGED <<deques, clock, wake, naps, sent>>

PopSecond ==
  /\ pc = "pruning" /\ Expired(second_requests, SECOND)
  /\ second_requests' = Tail(second_requests)
  /\ UNCHANGED <<minute_requests, clock, pc, now, wake, naps, sent>>

PopMinute ==
  /\ pc = "pruning"
  /\ ~Expired(second_requests, SECOND) /\ Expired(minute_requests, MINUTE)
  /\ minute_requests' = Tail(minute_requests)
  /\ UNCHANGED <<second_requests, clock, pc, now, wake, naps, sent>>

Pruned ==
  /\ pc = "pruning"
  /\ ~Expired(second_requests, SECOND) /\ ~Expired(minute_requests, MINUTE)

Clear == /\ ~Full(second_requests, requests_per_second)
         /\ ~Full(minute_requests, requests_per_minute)

(* Neither limit is reached: leave the loop. *)
Break ==
  /\ Pruned /\ Clear
  /\ pc' = "passed"
  /\ UNCHANGED <<deques, clock, now, wake, naps, sent>>

Sleep ==
  /\ Pruned /\ ~Clear
  /\ pc' = "sleeping"
  /\ wake' = clock + SleepTime
  /\ naps' = naps + 1
  /\ UNCHANGED <<deques, clock, now, sent>>

(* time.sleep never returns early. *)
Wake ==
  /\ pc = "sleeping" /\ clock >= wake
  /\ pc' = "looking"
  /\ UNCHANGED <<deques, clock, now, wake, naps, sent>>

(* Mutant of Stamp: the stamp is the time of the check. *)
StampOld ==
  /\ pc = "passed"
  /\ second_requests' = Append(second_requests, now)
  /\ minute_requests' = Append(minute_requests, now)
  /\ sent' = Append(sent, clock)
  /\ now' = clock /\ pc' = "idle"
  /\ UNCHANGED <<clock, wake, naps>>

(* The clock is read again for the stamp of the request. *)
Stamp ==
  /\ pc = "passed"
  /\ now' = clock
  /\ second_requests' = Append(second_requests, clock)
  /\ minute_requests' = Append(minute_requests, clock)
  /\ sent' = Append(sent, clock)
  /\ pc' = "idle"
  /\ UNCHANGED <<clock, wake, naps>>

LimiterNext ==
  \/ Pass \/ Call
  \/ ReadClock \/ PopSecond \/ PopMinute
  \/ Break \/ Sleep \/ Wake \/ Stamp

LimiterSpec == LimiterInit /\ [][LimiterNext]_limiterVars
-----------------------------------------------------------------------------
(* The variables hold what the code stores in them. *)
LimiterTypeOK ==
  /\ second_requests \in Seq(Nat) /\ minute_requests \in Seq(Nat)
  /\ Len(second_requests) <= requests_per_second
  /\ Len(minute_requests) <= requests_per_minute
  /\ clock \in Nat /\ now \in Nat /\ wake \in Nat /\ naps \in Nat
  /\ now <= clock
  /\ pc \in {"idle", "looking", "pruning", "sleeping", "passed"}
  /\ sent \in Seq(Nat)

WithinLimit(limit, window) ==
  \A i \in 1 .. Len(sent) :
    i + limit <= Len(sent) => sent[i + limit] - sent[i] >= window

SecondLimit == WithinLimit(requests_per_second, SECOND)
MinuteLimit == WithinLimit(requests_per_minute, MINUTE)

(* No window of a second or of a minute, wherever it starts, holds more    *)
(* requests than allowed, although the deques forget old requests and the  *)
(* stamp is taken after the check.                                         *)
LimitsKept == SecondLimit /\ MinuteLimit

(* A call sleeps at most once, so that wait() returns: the sleep is long   *)
(* enough for both windows.                                                *)
OneNapSuffices == naps <= 1

(* What makes the limits inductive: each deque holds the newest requests,  *)
(* those it has forgotten are a window old, and no deque is full when the  *)
(* call has passed the check.                                              *)
Remembers(requests, window) ==
  LET forgotten == Len(sent) - Len(requests)
  IN  /\ forgotten >= 0
      /\ \A j \in 1 .. Len(requests) : requests[j] = sent[forgotten + j]
      /\ \A i \in 1 .. forgotten : clock - sent[i] >= window

WindowsRemembered ==
  /\ Remembers(second_requests, SECOND)
  /\ Remembers(minute_requests, MINUTE)
  /\ pc = "passed" => Clear

(* What makes one sleep enough: when the sleeper is done, the oldest       *)
(* request of a full window is due to leave it.                            *)
DueBy(requests, limit, window, time) ==
  Full(requests, limit) => Head(requests) + window <= time

NapCovers ==
  /\ pc # "idle" /\ pc # "sleeping" /\ naps = 1 =>
       LET time == IF pc = "looking" THEN clock ELSE now
       IN  /\ DueBy(second_requests, requests_per_second, SECOND, time)
           /\ DueBy(minute_requests, requests_per_minute, MINUTE, time)
  /\ pc = "sleeping" =>
       /\ DueBy(second_requests, requests_per_second, SECOND, wake)
       /\ DueBy(minute_requests, requests_per_minute, MINUTE, wake)
       /\ naps = 1
=============================================================================
