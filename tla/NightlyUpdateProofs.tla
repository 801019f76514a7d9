------------------------- MODULE NightlyUpdateProofs -------------------------
(***************************************************************************)
(* Proofs about the two parts of the nightly update of closing prices:     *)
(* FyersRateLimiter, for every pair of limits and windows, and             *)
(* ClosingPrices, for every set of stocks, checkpoint size, number of      *)
(* retries and dates.                                                      *)
(***************************************************************************)
EXTENDS FyersRateLimiter, ClosingPrices, FiniteSetTheorems, TLAPS

(* A sleep is at least NAP, and reaches the time at which the oldest stamp *)
(* of each full window leaves it.                                          *)
LEMMA SleepTimeLemma ==
  ASSUME LimiterTypeOK
  PROVE  /\ SleepTime \in Nat
         /\ Full(second_requests, requests_per_second)
              => SleepTime >= SECOND - (now - Head(second_requests))
         /\ Full(minute_requests, requests_per_minute)
              => SleepTime >= MINUTE - (now - Head(minute_requests))
<1> DEFINE s == IF Full(second_requests, requests_per_second)
                THEN SECOND - (now - Head(second_requests)) ELSE 0
           m == IF Full(minute_requests, requests_per_minute)
                THEN MINUTE - (now - Head(minute_requests)) ELSE 0
<1>1. Full(second_requests, requests_per_second) => Head(second_requests) \in Nat
  BY LimiterConstants DEF LimiterTypeOK, Full
<1>2. Full(minute_requests, requests_per_minute) => Head(minute_requests) \in Nat
  BY LimiterConstants DEF LimiterTypeOK, Full
<1>3. s \in Int /\ m \in Int
  BY <1>1, <1>2, LimiterConstants DEF LimiterTypeOK
<1>4. SleepTime = LongerOf(NAP, LongerOf(s, m))
  BY DEF SleepTime
<1> HIDE DEF s, m
<1>5. SleepTime \in Nat /\ SleepTime >= s /\ SleepTime >= m
  BY <1>3, <1>4, LimiterConstants DEF LongerOf
<1> QED BY <1>5 DEF s, m

(* Every step keeps the types and the bounds of the deques: a stamp is     *)
(* taken only when neither is full.                                        *)
LEMMA LimiterTypeStep ==
  LimiterTypeOK /\ WindowsRemembered /\ [LimiterNext]_limiterVars => LimiterTypeOK'
<1> SUFFICES ASSUME LimiterTypeOK, WindowsRemembered, [LimiterNext]_limiterVars
             PROVE  LimiterTypeOK'
  OBVIOUS
<1> USE LimiterConstants DEF LimiterTypeOK, deques
<1>1. CASE Pass  BY <1>1 DEF Pass
<1>2. CASE Call  BY <1>2 DEF Call
<1>3. CASE ReadClock  BY <1>3 DEF ReadClock
<1>4. CASE PopSecond
  <2>1. second_requests # <<>>
    BY <1>4 DEF PopSecond, Expired
  <2>2. second_requests' \in Seq(Nat) /\ Len(second_requests') <= requests_per_second
    BY <2>1, <1>4 DEF PopSecond
  <2> QED BY <2>2, <1>4 DEF PopSecond
<1>5. CASE PopMinute
  <2>1. minute_requests # <<>>
    BY <1>5 DEF PopMinute, Expired
  <2>2. minute_requests' \in Seq(Nat) /\ Len(minute_requests') <= requests_per_minute
    BY <2>1, <1>5 DEF PopMinute
  <2> QED BY <2>2, <1>5 DEF PopMinute
<1>6. CASE Break  BY <1>6 DEF Break
<1>7. CASE Sleep
  <2>1. SleepTime \in Nat
    BY SleepTimeLemma
  <2> QED BY <2>1, <1>7 DEF Sleep
<1>8. CASE Wake  BY <1>8 DEF Wake
<1>9. CASE Stamp
  <2>1. /\ Len(second_requests) < requests_per_second
        /\ Len(minute_requests) < requests_per_minute
    BY <1>9 DEF Stamp, WindowsRemembered, Clear, Full
  <2>2. second_requests' \in Seq(Nat) /\ Len(second_requests') <= requests_per_second
    BY <2>1, <1>9 DEF Stamp
  <2>3. minute_requests' \in Seq(Nat) /\ Len(minute_requests') <= requests_per_minute
    BY <2>1, <1>9 DEF Stamp
  <2> QED BY <2>2, <2>3, <1>9 DEF Stamp
<1>10. CASE UNCHANGED limiterVars  BY <1>10 DEF limiterVars
<1> QED BY <1>1, <1>2, <1>3, <1>4, <1>5, <1>6, <1>7, <1>8, <1>9, <1>10
        DEF LimiterNext

(* A deque that remembers the newest of the requests still does when it    *)
(* forgets a request that is a window old, ...                             *)
LEMMA RemembersTail ==
  ASSUME LimiterTypeOK, NEW q \in Seq(Nat), NEW w \in Nat, Remembers(q, w),
         Expired(q, w)
  PROVE  Remembers(Tail(q), w)
<1> DEFINE f == Len(sent) - Len(q)
<1>1. /\ q # <<>> /\ now - Head(q) >= w
      /\ now \in Nat /\ clock \in Nat /\ now <= clock /\ sent \in Seq(Nat)
  BY DEF Expired, LimiterTypeOK
<1>2. /\ Len(q) \in Nat \ {0} /\ Len(Tail(q)) = Len(q) - 1 /\ Head(q) = q[1]
      /\ \A j \in 1 .. Len(Tail(q)) : Tail(q)[j] = q[j + 1]
  BY <1>1
<1>3. /\ f \in Nat /\ f + 1 \in 1 .. Len(sent)
      /\ \A j \in 1 .. Len(q) : q[j] = sent[f + j]
      /\ \A i \in 1 .. f : clock - sent[i] >= w
  BY <1>1, <1>2 DEF Remembers
<1>4. sent[f + 1] = Head(q) /\ sent[f + 1] \in Nat
  BY <1>1, <1>2, <1>3
<1>5. clock - sent[f + 1] >= w
  BY <1>1, <1>4
<1>6. Len(sent) - Len(Tail(q)) = f + 1
  BY <1>1, <1>2
<1>7. ASSUME NEW j \in 1 .. Len(Tail(q))
      PROVE  Tail(q)[j] = sent[(Len(sent) - Len(Tail(q))) + j]
  <2>1. j + 1 \in 1 .. Len(q)
    BY <1>2
  <2>2. Tail(q)[j] = sent[f + (j + 1)]
    BY <2>1, <1>2, <1>3
  <2>3. (Len(sent) - Len(Tail(q))) + j = f + (j + 1)
    BY <1>1, <1>2
  <2> QED BY <2>2, <2>3
<1>8. ASSUME NEW i \in 1 .. (Len(sent) - Len(Tail(q)))
      PROVE  clock - sent[i] >= w
  <2>1. i \in 1 .. f \/ i = f + 1
    <3>1. i \in 1 .. (f + 1)
      BY <1>6
    <3>2. f \in Nat
      BY <1>3
    <3> HIDE DEF f
    <3> QED BY <3>1, <3>2
  <2> QED BY <2>1, <1>3, <1>5
<1>9. Len(sent) - Len(Tail(q)) >= 0
  BY <1>3, <1>6
<1> QED BY <1>7, <1>8, <1>9 DEF Remembers

(* ... and when a request is let through and stamped.                      *)
LEMMA RemembersStamp ==
  ASSUME LimiterTypeOK, NEW q \in Seq(Nat), NEW w \in Nat, Remembers(q, w),
         sent' = Append(sent, clock), clock' = clock
  PROVE  LET r == Append(q, clock)
             forgotten == Len(sent') - Len(r)
         IN  /\ forgotten >= 0
             /\ \A j \in 1 .. Len(r) : r[j] = sent'[forgotten + j]
             /\ \A i \in 1 .. forgotten : clock' - sent'[i] >= w
<1> DEFINE f == Len(sent) - Len(q)
           r == Append(q, clock)
<1>1. clock \in Nat /\ sent \in Seq(Nat)
  BY DEF LimiterTypeOK
<1>2. /\ f \in Nat /\ \A j \in 1 .. Len(q) : q[j] = sent[f + j]
      /\ \A i \in 1 .. f : clock - sent[i] >= w
  BY <1>1 DEF Remembers
<1>3. /\ Len(r) = Len(q) + 1 /\ r[Len(q) + 1] = clock
      /\ \A j \in 1 .. Len(q) : r[j] = q[j]
  BY <1>1
<1>4. /\ Len(sent') = Len(sent) + 1 /\ sent'[Len(sent) + 1] = clock
      /\ \A i \in 1 .. Len(sent) : sent'[i] = sent[i]
  BY <1>1
<1>5. Len(sent') - Len(r) = f
  BY <1>1, <1>3, <1>4
<1>6. ASSUME NEW j \in 1 .. Len(r)  PROVE r[j] = sent'[f + j]
  <2>1. CASE j = Len(q) + 1
    BY <2>1, <1>1, <1>3, <1>4
  <2>2. CASE j # Len(q) + 1
    <3>1. j \in 1 .. Len(q) /\ f + j \in 1 .. Len(sent)
      BY <2>2, <1>1, <1>2, <1>3
    <3> QED BY <3>1, <1>2, <1>3, <1>4
  <2> QED BY <2>1, <2>2
<1>7. \A i \in 1 .. f : clock' - sent'[i] >= w
  <2>1. \A i \in 1 .. f : i \in 1 .. Len(sent)
    BY <1>1, <1>2
  <2> QED BY <2>1, <1>2, <1>4
<1> HIDE DEF f
<1>8. \A j \in 1 .. Len(r) : r[j] = sent'[(Len(sent') - Len(r)) + j]
  BY <1>5, <1>6
<1>9. \A i \in 1 .. (Len(sent') - Len(r)) : clock' - sent'[i] >= w
  BY <1>5, <1>7
<1>10. Len(sent') - Len(r) >= 0
  BY <1>2, <1>5
<1> QED BY <1>8, <1>9, <1>10

(* Every step keeps what the deques remember of the requests.              *)
LEMMA WindowsStep ==
  LimiterTypeOK /\ WindowsRemembered /\ [LimiterNext]_limiterVars
    => WindowsRemembered'
<1> SUFFICES ASSUME LimiterTypeOK, WindowsRemembered, [LimiterNext]_limiterVars
             PROVE  WindowsRemembered'
  OBVIOUS
<1>1. /\ Remembers(second_requests, SECOND) /\ Remembers(minute_requests, MINUTE)
      /\ pc = "passed" => Clear
  BY DEF WindowsRemembered
<1>2. /\ second_requests \in Seq(Nat) /\ minute_requests \in Seq(Nat)
      /\ clock \in Nat /\ SECOND \in Nat /\ MINUTE \in Nat
  BY LimiterConstants DEF LimiterTypeOK
<1>3. CASE Pass
  <2>1. \A i \in 1 .. Len(sent) : sent[i] \in Nat
    BY DEF LimiterTypeOK
  <2>2. Remembers(second_requests, SECOND)' /\ Remembers(minute_requests, MINUTE)'
    <3>1. clock' = clock + 1 /\ sent' = sent /\ UNCHANGED deques
      BY <1>3 DEF Pass
    <3>2. ASSUME NEW q \in Seq(Nat), NEW w \in Nat, Remembers(q, w),
                 NEW i \in 1 .. (Len(sent) - Len(q))
          PROVE  clock' - sent[i] >= w
      <4>1. i \in 1 .. Len(sent) /\ clock - sent[i] >= w
        BY <3>2 DEF Remembers, LimiterTypeOK
      <4> QED BY <4>1, <3>1, <2>1, <1>2
    <3> QED BY <1>1, <1>2, <3>1, <3>2 DEF deques, Remembers
  <2> QED BY <1>1, <1>3, <2>2 DEF Pass, deques, WindowsRemembered, Clear, Full
<1>4. CASE Call \/ ReadClock \/ Sleep \/ Wake
  BY <1>1, <1>4 DEF Call, ReadClock, Sleep, Wake, deques, WindowsRemembered, Remembers
<1>5. CASE PopSecond
  <2>1. Remembers(Tail(second_requests), SECOND)
    BY <1>1, <1>2, <1>5, RemembersTail DEF PopSecond
  <2> QED BY <2>1, <1>1, <1>5 DEF PopSecond, WindowsRemembered, Remembers
<1>6. CASE PopMinute
  <2>1. Remembers(Tail(minute_requests), MINUTE)
    BY <1>1, <1>2, <1>6, RemembersTail DEF PopMinute
  <2> QED BY <2>1, <1>1, <1>6 DEF PopMinute, WindowsRemembered, Remembers
<1>7. CASE Break
  BY <1>1, <1>7 DEF Break, deques, WindowsRemembered, Remembers, Clear, Full
<1>8. CASE Stamp
  <2>1. /\ sent' = Append(sent, clock) /\ clock' = clock /\ pc' = "idle"
        /\ second_requests' = Append(second_requests, clock)
        /\ minute_requests' = Append(minute_requests, clock)
    BY <1>8 DEF Stamp
  <2>2. Remembers(second_requests, SECOND)'
    BY <1>1, <1>2, <2>1, RemembersStamp DEF Remembers
  <2>3. Remembers(minute_requests, MINUTE)'
    BY <1>1, <1>2, <2>1, RemembersStamp DEF Remembers
  <2> QED BY <2>1, <2>2, <2>3 DEF WindowsRemembered
<1>9. CASE UNCHANGED limiterVars
  BY <1>1, <1>9 DEF limiterVars, deques, WindowsRemembered, Remembers, Clear, Full
<1> QED BY <1>3, <1>4, <1>5, <1>6, <1>7, <1>8, <1>9 DEF LimiterNext

(* Stamping a request keeps a window within its limit: the request that    *)
(* many places earlier has been forgotten, and is a window old.            *)
LEMMA LimitStamp ==
  ASSUME LimiterTypeOK, NEW q \in Seq(Nat), NEW w \in Nat, NEW r \in Nat \ {0},
         Remembers(q, w), Len(q) < r, WithinLimit(r, w),
         sent' = Append(sent, clock)
  PROVE  WithinLimit(r, w)'
<1>1. clock \in Nat /\ sent \in Seq(Nat) /\ Len(sent) \in Nat /\ Len(q) \in Nat
  BY DEF LimiterTypeOK
<1>2. /\ Len(sent') = Len(sent) + 1 /\ sent'[Len(sent) + 1] = clock
      /\ \A i \in 1 .. Len(sent) : sent'[i] = sent[i]
  BY <1>1
<1>3. SUFFICES ASSUME NEW i \in 1 .. Len(sent'), i + r <= Len(sent')
               PROVE  sent'[i + r] - sent'[i] >= w
  BY DEF WithinLimit
<1>4. i \in 1 .. Len(sent)
  BY <1>1, <1>2, <1>3
<1>5. CASE i + r <= Len(sent)
  <2>1. i + r \in 1 .. Len(sent)
    BY <1>1, <1>4, <1>5
  <2> QED BY <2>1, <1>2, <1>4, <1>5 DEF WithinLimit
<1>6. CASE i + r = Len(sent) + 1
  <2>1. i \in 1 .. (Len(sent) - Len(q))
    BY <1>1, <1>4, <1>6
  <2>2. clock - sent[i] >= w
    BY <2>1 DEF Remembers
  <2> QED BY <2>2, <1>2, <1>4, <1>6
<1>7. i + r <= Len(sent) \/ i + r = Len(sent) + 1
  <2>1. i \in Int /\ r \in Int
    BY <1>1, <1>4
  <2>2. i + r <= Len(sent) + 1
    BY <1>2, <1>3
  <2>3. \A m \in Int, n \in Nat : m <= n + 1 => m <= n \/ m = n + 1
    OBVIOUS
  <2>4. i + r \in Int
    BY <2>1
  <2> QED BY <2>2, <2>3, <2>4, <1>1, Zenon
<1> QED BY <1>5, <1>6, <1>7

(* Every step keeps both limits: only a stamp adds a request.              *)
LEMMA LimitStep ==
  ASSUME LimiterTypeOK, WindowsRemembered, [LimiterNext]_limiterVars,
         SecondLimit, MinuteLimit
  PROVE  SecondLimit' /\ MinuteLimit'
<1>1. CASE Stamp
  <2>1. /\ Remembers(second_requests, SECOND) /\ Remembers(minute_requests, MINUTE)
        /\ sent' = Append(sent, clock)
        /\ ~Full(second_requests, requests_per_second)
        /\ ~Full(minute_requests, requests_per_minute)
    BY <1>1 DEF Stamp, WindowsRemembered, Clear
  <2>2. /\ second_requests \in Seq(Nat) /\ minute_requests \in Seq(Nat)
        /\ Len(second_requests) < requests_per_second
        /\ Len(minute_requests) < requests_per_minute
    BY <2>1, LimiterConstants DEF LimiterTypeOK, Full
  <2>3. WithinLimit(requests_per_second, SECOND)'
    BY <2>1, <2>2, LimitStamp, LimiterConstants DEF SecondLimit
  <2>4. WithinLimit(requests_per_minute, MINUTE)'
    BY <2>1, <2>2, LimitStamp, LimiterConstants DEF MinuteLimit
  <2> QED BY <2>3, <2>4 DEF SecondLimit, MinuteLimit
<1>2. CASE sent' = sent
  BY <1>2 DEF SecondLimit, MinuteLimit, WithinLimit
<1>3. Stamp \/ sent' = sent
  BY DEF LimiterNext, limiterVars, Pass, Call, ReadClock, PopSecond, PopMinute,
         Break, Sleep, Wake
<1> QED BY <1>1, <1>2, <1>3

(* The bounds on the deques and the types hold for ever. *)
THEOREM LimiterTypeCorrect == LimiterSpec => []LimiterTypeOK
<1>1. LimiterInit => LimiterTypeOK /\ WindowsRemembered
  BY LimiterConstants DEF LimiterInit, LimiterTypeOK, WindowsRemembered, Remembers
<1> QED BY <1>1, LimiterTypeStep, WindowsStep, PTL DEF LimiterSpec

(* For every limit and every window length, no window holds more requests  *)
(* than its limit.                                                         *)
THEOREM LimitsHold == LimiterSpec => []LimitsKept
<1>1. LimiterInit => /\ LimiterTypeOK /\ WindowsRemembered
                     /\ SecondLimit /\ MinuteLimit
  BY LimiterConstants DEF LimiterInit, LimiterTypeOK, WindowsRemembered, Remembers,
                          SecondLimit, MinuteLimit, WithinLimit
<1>2. LimitsKept <=> SecondLimit /\ MinuteLimit
  BY DEF LimitsKept
<1> QED BY <1>1, <1>2, LimiterTypeStep, WindowsStep, LimitStep, PTL DEF LimiterSpec
-----------------------------------------------------------------------------
(* A request that is due by some time is due by any later time.            *)
LEMMA DueLater ==
  ASSUME NEW q \in Seq(Nat), NEW r \in Nat \ {0}, NEW w \in Nat,
         NEW t \in Int, NEW u \in Int, DueBy(q, r, w, t), t <= u
  PROVE  DueBy(q, r, w, u)
<1>1. Full(q, r) => Head(q) \in Nat
  BY DEF Full
<1> QED BY <1>1 DEF DueBy

(* A full window whose oldest request is due has one to forget.            *)
LEMMA DueExpired ==
  ASSUME NEW q \in Seq(Nat), NEW r \in Nat \ {0}, NEW w \in Nat, now \in Nat,
         DueBy(q, r, w, now), ~Expired(q, w)
  PROVE  ~Full(q, r)
<1>1. Full(q, r) => q # <<>> /\ Head(q) \in Nat
  BY DEF Full
<1> QED BY <1>1 DEF DueBy, Expired

(* Every step keeps the promise of the sleep, so that a second one never   *)
(* starts.                                                                 *)
LEMMA NapStep ==
  ASSUME LimiterTypeOK, LimiterTypeOK', NapCovers, OneNapSuffices,
         [LimiterNext]_limiterVars
  PROVE  NapCovers' /\ OneNapSuffices'
<1> DEFINE Due(time) ==
             /\ DueBy(second_requests, requests_per_second, SECOND, time)
             /\ DueBy(minute_requests, requests_per_minute, MINUTE, time)
<1>1. /\ second_requests \in Seq(Nat) /\ minute_requests \in Seq(Nat)
      /\ Len(second_requests) <= requests_per_second
      /\ Len(minute_requests) <= requests_per_minute
      /\ clock \in Nat /\ now \in Nat /\ wake \in Nat /\ naps \in Nat
      /\ now <= clock
  BY DEF LimiterTypeOK
<1>2. /\ requests_per_second \in Nat \ {0} /\ requests_per_minute \in Nat \ {0}
      /\ SECOND \in Nat /\ MINUTE \in Nat
  BY LimiterConstants
<1>3. /\ pc = "looking" /\ naps = 1 => Due(clock)
      /\ pc \in {"pruning", "passed"} /\ naps = 1 => Due(now)
      /\ pc = "sleeping" => Due(wake) /\ naps = 1
      /\ naps <= 1
  BY DEF NapCovers, OneNapSuffices
<1>4. ASSUME NEW t \in Int, NEW u \in Int, Due(t), t <= u  PROVE Due(u)
  BY <1>1, <1>2, <1>4, DueLater
<1>5. CASE Pass
  <2>1. /\ clock' = clock + 1
        /\ UNCHANGED <<second_requests, minute_requests, pc, now, wake, naps>>
    BY <1>5 DEF Pass, deques
  <2>2. pc = "looking" /\ naps = 1 => Due(clock')
    BY <1>1, <1>3, <1>4, <2>1
  <2> QED BY <1>3, <2>1, <2>2 DEF NapCovers, OneNapSuffices
<1>6. CASE Call
  BY <1>6 DEF Call, NapCovers, OneNapSuffices
<1>7. CASE ReadClock
  BY <1>3, <1>7 DEF ReadClock, deques, NapCovers, OneNapSuffices
<1>8. CASE PopSecond
  <2>1. /\ second_requests' = Tail(second_requests) /\ pc = "pruning"
        /\ second_requests # <<>>
        /\ UNCHANGED <<minute_requests, pc, now, naps>>
    BY <1>8 DEF PopSecond, Expired
  <2>2. Len(Tail(second_requests)) < requests_per_second
    BY <1>1, <1>2, <2>1
  <2>3. ~Full(second_requests', requests_per_second)
    BY <1>1, <1>2, <2>1, <2>2 DEF Full
  <2> QED BY <1>3, <2>1, <2>3 DEF NapCovers, OneNapSuffices, DueBy
<1>9. CASE PopMinute
  <2>1. /\ minute_requests' = Tail(minute_requests) /\ pc = "pruning"
        /\ minute_requests # <<>>
        /\ UNCHANGED <<second_requests, pc, now, naps>>
    BY <1>9 DEF PopMinute, Expired
  <2>2. Len(Tail(minute_requests)) < requests_per_minute
    BY <1>1, <1>2, <2>1
  <2>3. ~Full(minute_requests', requests_per_minute)
    BY <1>1, <1>2, <2>1, <2>2 DEF Full
  <2> QED BY <1>3, <2>1, <2>3 DEF NapCovers, OneNapSuffices, DueBy
<1>10. CASE Break
  BY <1>3, <1>10 DEF Break, Pruned, deques, NapCovers, OneNapSuffices
<1>11. CASE Sleep
  <2>1. /\ pc = "pruning" /\ ~Clear /\ pc' = "sleeping" /\ naps' = naps + 1
        /\ ~Expired(second_requests, SECOND) /\ ~Expired(minute_requests, MINUTE)
        /\ wake' = clock + SleepTime
        /\ UNCHANGED <<second_requests, minute_requests>>
    BY <1>11 DEF Sleep, Pruned, deques
  <2>2. naps = 0
    <3>1. naps = 1 => Clear
      BY <1>1, <1>2, <1>3, <2>1, DueExpired DEF Clear
    <3> QED BY <3>1, <1>1, <1>3, <2>1
  <2>3. DueBy(second_requests, requests_per_second, SECOND, wake')
    <3>1. Full(second_requests, requests_per_second) =>
            /\ Head(second_requests) \in Nat
            /\ SleepTime >= SECOND - (now - Head(second_requests))
      BY <1>1, <1>2, SleepTimeLemma DEF Full
    <3> QED BY <3>1, <1>1, <1>2, <2>1, SleepTimeLemma DEF DueBy
  <2>4. DueBy(minute_requests, requests_per_minute, MINUTE, wake')
    <3>1. Full(minute_requests, requests_per_minute) =>
            /\ Head(minute_requests) \in Nat
            /\ SleepTime >= MINUTE - (now - Head(minute_requests))
      BY <1>1, <1>2, SleepTimeLemma DEF Full
    <3> QED BY <3>1, <1>1, <1>2, <2>1, SleepTimeLemma DEF DueBy
  <2> QED BY <2>1, <2>2, <2>3, <2>4 DEF NapCovers, OneNapSuffices
<1>12. CASE Wake
  <2>1. Due(clock)
    BY <1>1, <1>3, <1>4, <1>12 DEF Wake
  <2> QED BY <2>1, <1>3, <1>12 DEF Wake, deques, NapCovers, OneNapSuffices
<1>13. CASE Stamp
  BY <1>3, <1>13 DEF Stamp, NapCovers, OneNapSuffices
<1>14. CASE UNCHANGED limiterVars
  BY <1>14 DEF limiterVars, deques, NapCovers, OneNapSuffices, DueBy, Full
<1> QED BY <1>5, <1>6, <1>7, <1>8, <1>9, <1>10, <1>11, <1>12, <1>13, <1>14
        DEF LimiterNext

(* A call of wait() sleeps at most once, for every limit and every window. *)
THEOREM OneNap == LimiterSpec => []OneNapSuffices
<1>1. LimiterInit => /\ LimiterTypeOK /\ WindowsRemembered
                     /\ NapCovers /\ OneNapSuffices
  BY LimiterConstants DEF LimiterInit, LimiterTypeOK, WindowsRemembered, Remembers,
                          NapCovers, OneNapSuffices
<1>2. LimiterTypeOK /\ WindowsRemembered /\ [LimiterNext]_limiterVars
        /\ NapCovers /\ OneNapSuffices => NapCovers' /\ OneNapSuffices'
  BY NapStep, LimiterTypeStep
<1> QED BY <1>1, <1>2, LimiterTypeStep, WindowsStep, PTL DEF LimiterSpec
-----------------------------------------------------------------------------
USE ClosingConstants DEF DailyClosingPrice

(* The work list of a run: some stocks without a price, each once.         *)
LEMMA RemainingLemma ==
  ASSUME NEW date, NEW ids \in Remaining(date)
  PROVE  /\ ids \in Seq(Stocks)
         /\ Len(ids) \in Nat /\ DOMAIN ids = 1 .. Len(ids)
         /\ Ascending(ids)
         /\ \A i \in 1 .. Len(ids) : <<ids[i], date>> \notin daily_closing_prices
<1> DEFINE S == Stocks \ On(date)
<1>1. IsFiniteSet(S)
  BY FS_Difference
<1>2. PICK n : n = Cardinality(S)
  OBVIOUS
<1>3. n \in Nat
  BY <1>1, <1>2, FS_CardinalityType
<1>4. ids \in [1 .. n -> S] /\ Ascending(ids)
  BY <1>2 DEF Remaining, InOrder
<1>5. ids \in [1 .. n -> Stocks]
  BY <1>4
<1>6. ids \in Seq(Stocks) /\ Len(ids) = n
  BY <1>3, <1>5
<1>7. \A i \in 1 .. n : ids[i] \in Stocks /\ ids[i] \notin On(date)
  BY <1>4
<1>8. \A i \in 1 .. n : <<ids[i], date>> \notin daily_closing_prices
  BY <1>7 DEF On
<1> QED BY <1>3, <1>4, <1>6, <1>8

(* Moving on to the next stock, or to the last commit.                     *)
LEMMA NextStockLemma ==
  ASSUME ClosingTypeOK, run \in {"waiting", "asking", "checkpoint"}, NextStock,
         stocks_to_process' = stocks_to_process
  PROVE  /\ run' \in {"waiting", "finishing"}
         /\ run' = "waiting" => index' \in 1 .. Len(stocks_to_process')
         /\ retry_count' = 0 /\ index' = index + 1
<1>1. index \in 1 .. Len(stocks_to_process) /\ Len(stocks_to_process) \in Nat
  BY DEF ClosingTypeOK
<1>2. CASE index = Len(stocks_to_process)
  BY <1>1, <1>2 DEF NextStock
<1>3. CASE index # Len(stocks_to_process)
  BY <1>1, <1>3 DEF NextStock
<1> QED BY <1>2, <1>3

(* Every step of the update keeps the types.                               *)
LEMMA ClosingTypeStep ==
  ClosingTypeOK /\ [ClosingNext]_closingVars => ClosingTypeOK'
<1> SUFFICES ASSUME ClosingTypeOK, [ClosingNext]_closingVars
             PROVE  ClosingTypeOK'
  OBVIOUS
<1> USE DEF ClosingTypeOK
<1>1. ASSUME NEW date \in Dates, StartUpdate(date) PROVE ClosingTypeOK'
  <2>1. stocks_to_process' \in Seq(Stocks) /\ Len(stocks_to_process') \in Nat
    BY <1>1, RemainingLemma DEF StartUpdate
  <2>2. saved' = {} /\ trading_date' = date /\ index' = 1
    BY <1>1 DEF StartUpdate
  <2>3. run' = "waiting" => index' \in 1 .. Len(stocks_to_process')
    <3>1. stocks_to_process' # <<>> => Len(stocks_to_process') # 0
      BY <2>1
    <3> QED BY <1>1, <2>1, <2>2, <3>1 DEF StartUpdate
  <2>4. run' \in {"waiting", "finishing"}
    BY <1>1 DEF StartUpdate
  <2>5. /\ successful' \in Nat /\ failed' \in Nat
        /\ retry_count' \in 0 .. max_retries
        /\ daily_closing_prices' = daily_closing_prices
        /\ today' = today /\ previous_closes' = previous_closes
    BY <1>1 DEF StartUpdate
  <2> QED BY <2>1, <2>2, <2>3, <2>4, <2>5
<1>2. CASE Admitted
  BY <1>2 DEF Admitted, progress
<1>3. CASE RateLimited
  <2>1. CASE retry_count + 1 > max_retries
    <3>1. NextStock /\ run \in {"asking"} /\ failed' \in Nat
          /\ stocks_to_process' = stocks_to_process
      BY <1>3, <2>1 DEF RateLimited
    <3>2. /\ run' \in {"waiting", "finishing"}
          /\ run' = "waiting" => index' \in 1 .. Len(stocks_to_process')
          /\ retry_count' = 0
      BY <3>1, NextStockLemma
    <3> QED BY <1>3, <3>1, <3>2 DEF RateLimited
  <2>2. CASE ~(retry_count + 1 > max_retries)
    <3>1. retry_count' \in 0 .. max_retries
      BY <1>3, <2>2 DEF RateLimited
    <3> QED BY <1>3, <2>2, <3>1 DEF RateLimited
  <2> QED BY <2>1, <2>2
<1>4. CASE NoPrice
  <2>1. /\ run' \in {"waiting", "finishing"}
        /\ run' = "waiting" => index' \in 1 .. Len(stocks_to_process')
        /\ retry_count' = 0
    BY <1>4, NextStockLemma DEF NoPrice
  <2>2. failed' \in Nat
    BY <1>4 DEF NoPrice
  <2> QED BY <1>4, <2>1, <2>2 DEF NoPrice
<1>5. CASE SavePrice
  <2>1. run = "asking" /\ index \in 1 .. Len(stocks_to_process)
    BY <1>5 DEF SavePrice, Save
  <2>2. Stock \in Stocks
    BY <2>1 DEF Stock
  <2>3. saved' \subseteq Stocks \X {trading_date'} /\ trading_date' = trading_date
    BY <1>5, <2>2 DEF SavePrice, Save
  <2>4. successful' \in Nat
    BY <1>5 DEF SavePrice, Save
  <2>5. CASE CheckpointDue
    BY <1>5, <2>1, <2>3, <2>4, <2>5 DEF SavePrice, Save
  <2>6. CASE ~CheckpointDue
    <3>1. /\ run' \in {"waiting", "finishing"}
          /\ run' = "waiting" => index' \in 1 .. Len(stocks_to_process')
          /\ retry_count' = 0
      BY <1>5, <2>6, NextStockLemma DEF SavePrice, Save
    <3> QED BY <1>5, <2>3, <2>4, <3>1 DEF SavePrice, Save
  <2> QED BY <2>5, <2>6
<1>6. ASSUME Commit
      PROVE  /\ daily_closing_prices' \subseteq Stocks \X Dates
             /\ daily_closing_prices \subseteq daily_closing_prices'
             /\ saved' = {}
  BY <1>6 DEF Commit
<1>7. CASE Checkpoint
  <2>1. /\ run' \in {"waiting", "finishing"}
        /\ run' = "waiting" => index' \in 1 .. Len(stocks_to_process')
        /\ retry_count' = 0
    BY <1>7, NextStockLemma DEF Checkpoint
  <2> QED BY <1>6, <1>7, <2>1 DEF Checkpoint
<1>8. CASE Finish
  BY <1>6, <1>8 DEF Finish, progress
<1>9. CASE Die
  BY <1>9 DEF Die, progress
<1>10. CASE NextDay
  BY <1>10 DEF NextDay, runVars, progress, Dates
<1>11. CASE StartServer
  BY <1>11 DEF StartServer, LatestPrices, runVars, progress
<1>12. CASE UNCHANGED closingVars
  BY <1>12 DEF closingVars, runVars, progress
<1> QED BY <1>1, <1>2, <1>3, <1>4, <1>5, <1>7, <1>8, <1>9, <1>10, <1>11, <1>12
        DEF ClosingNext

(* Before the first run the types hold.                                    *)
LEMMA ClosingTypeInit == ClosingInit => ClosingTypeOK
<1> SUFFICES ASSUME ClosingInit PROVE ClosingTypeOK
  OBVIOUS
<1>1. 1 \in Dates /\ <<>> \in Seq(Stocks)
  BY DEF Dates
<1> QED BY <1>1 DEF ClosingInit, ClosingTypeOK

(* A run keeps its types: while it works, its index is in its work list,   *)
(* and between runs no price is written that is not committed.             *)
THEOREM ClosingTypeCorrect == ClosingSpec => []ClosingTypeOK
BY ClosingTypeInit, ClosingTypeStep, PTL DEF ClosingSpec

(* Counting to CHECKPOINT.                                                 *)
LEMMA ModLemma ==
  ASSUME NEW n \in Nat, NEW c \in Nat \ {0}
  PROVE  /\ n % c \in 0 .. (c - 1)
         /\ (n + 1) % c # 0 => (n + 1) % c = (n % c) + 1
<1> DEFINE q == n \div c
           r == n % c
           q1 == (n + 1) \div c
           r1 == (n + 1) % c
<1>1. /\ q \in Int /\ r \in 0 .. (c - 1) /\ n = c * q + r
      /\ q1 \in Int /\ r1 \in 0 .. (c - 1) /\ n + 1 = c * q1 + r1
  OBVIOUS
<1> HIDE DEF q, r, q1, r1
<1>2. c * (q1 - q) = r + 1 - r1 /\ q1 - q \in Int
  BY <1>1
<1>3. CASE q1 - q = 0
  BY <1>1, <1>2, <1>3 DEF r, r1
<1>4. CASE q1 - q >= 1
  <2>1. c * (q1 - q) >= c
    BY <1>2, <1>4
  <2> QED BY <1>1, <1>2, <2>1 DEF r, r1
<1>5. CASE q1 - q <= -1
  <2>1. c * (q1 - q) <= -c
    BY <1>2, <1>5
  <2> QED BY <1>1, <1>2, <2>1 DEF r, r1
<1> QED BY <1>2, <1>3, <1>4, <1>5

(* The strengthening for CrashLosesLessThanCheckpoint: the prices that are *)
(* not committed were counted since the last multiple of CHECKPOINT.       *)
SavedSinceCheckpoint ==
  /\ IsFiniteSet(saved)
  /\ run \in {"waiting", "asking"} =>
       Cardinality(saved) <= successful % CHECKPOINT

(* A price is counted when it is saved, and a commit comes at each         *)
(* multiple of CHECKPOINT.                                                 *)
LEMMA SavedStep ==
  ClosingTypeOK /\ SavedSinceCheckpoint /\ [ClosingNext]_closingVars
    => SavedSinceCheckpoint'
<1> SUFFICES ASSUME ClosingTypeOK, SavedSinceCheckpoint,
                    [ClosingNext]_closingVars
             PROVE  SavedSinceCheckpoint'
  OBVIOUS
<1>1. IsFiniteSet({}) /\ Cardinality({}) = 0
  BY FS_EmptySet
<1>2. \A n \in Nat : n % CHECKPOINT \in 0 .. (CHECKPOINT - 1)
  BY ModLemma
<1>3. successful' \in Nat
  BY ClosingTypeStep DEF ClosingTypeOK
<1>4. ASSUME saved' = {} PROVE SavedSinceCheckpoint'
  BY <1>1, <1>2, <1>3, <1>4 DEF SavedSinceCheckpoint
<1>5. ASSUME saved' = saved, successful' = successful,
             run \in {"waiting", "asking"} \/ run' \notin {"waiting", "asking"}
      PROVE  SavedSinceCheckpoint'
  BY <1>5 DEF SavedSinceCheckpoint
<1>6. CASE SavePrice
  <2>1. /\ saved' = saved \cup {<<Stock, trading_date>>}
        /\ successful' = successful + 1 /\ run = "asking"
    BY <1>6 DEF SavePrice, Save
  <2>2. /\ IsFiniteSet(saved') /\ Cardinality(saved) \in Nat
        /\ \/ Cardinality(saved') = Cardinality(saved)
           \/ Cardinality(saved') = Cardinality(saved) + 1
    BY <2>1, FS_AddElement, FS_CardinalityType DEF SavedSinceCheckpoint
  <2>3. CASE CheckpointDue
    <3>1. run' = "checkpoint"
      BY <1>6, <2>3 DEF SavePrice, Save
    <3> QED BY <2>2, <3>1 DEF SavedSinceCheckpoint
  <2>4. CASE ~CheckpointDue
    <3>1. successful \in Nat
      BY DEF ClosingTypeOK
    <3>2. successful' % CHECKPOINT = (successful % CHECKPOINT) + 1
          /\ successful % CHECKPOINT \in Int
      <4>1. (successful + 1) % CHECKPOINT # 0
        BY <2>4 DEF CheckpointDue
      <4>2. /\ successful % CHECKPOINT \in 0 .. (CHECKPOINT - 1)
            /\ (successful + 1) % CHECKPOINT = (successful % CHECKPOINT) + 1
        BY <3>1, <4>1, ModLemma
      <4> QED BY <2>1, <4>2
    <3>3. Cardinality(saved) <= successful % CHECKPOINT
      BY <2>1 DEF SavedSinceCheckpoint
    <3>4. Cardinality(saved') <= successful' % CHECKPOINT
      BY <2>2, <3>2, <3>3
    <3> QED BY <2>2, <3>4 DEF SavedSinceCheckpoint
  <2> QED BY <2>3, <2>4
<1>7. ASSUME NEW date \in Dates, StartUpdate(date) PROVE SavedSinceCheckpoint'
  <2>1. saved' = {}
    BY <1>7 DEF StartUpdate, ClosingTypeOK
  <2> QED BY <1>4, <2>1
<1>8. CASE Admitted
  BY <1>5, <1>8 DEF Admitted, progress
<1>9. CASE RateLimited
  BY <1>5, <1>9 DEF RateLimited
<1>10. CASE NoPrice
  BY <1>5, <1>10 DEF NoPrice
<1>11. CASE Checkpoint
  BY <1>4, <1>11 DEF Checkpoint, Commit
<1>12. CASE Finish
  BY <1>4, <1>12 DEF Finish, Commit
<1>13. CASE Die
  BY <1>4, <1>13 DEF Die
<1>14. CASE NextDay
  BY <1>5, <1>14 DEF NextDay, runVars, progress
<1>15. CASE StartServer
  BY <1>5, <1>15 DEF StartServer, runVars, progress
<1>16. CASE UNCHANGED closingVars
  BY <1>5, <1>16 DEF closingVars, runVars, progress
<1> QED BY <1>6, <1>7, <1>8, <1>9, <1>10, <1>11, <1>12, <1>13, <1>14, <1>15,
           <1>16 DEF ClosingNext

(* Whatever the API answers, whenever the run is about to ask again a      *)
(* crash loses fewer prices than one checkpoint.                           *)
THEOREM LittleLost == ClosingSpec => []CrashLosesLessThanCheckpoint
<1>1. ClosingInit => SavedSinceCheckpoint
  BY FS_EmptySet DEF ClosingInit, SavedSinceCheckpoint
<1>2. ClosingTypeOK /\ SavedSinceCheckpoint => CrashLosesLessThanCheckpoint
  <2> SUFFICES ASSUME ClosingTypeOK, SavedSinceCheckpoint, run = "asking"
               PROVE  Cardinality(saved) < CHECKPOINT
    BY DEF CrashLosesLessThanCheckpoint
  <2>1. successful % CHECKPOINT \in 0 .. (CHECKPOINT - 1)
    BY ModLemma DEF ClosingTypeOK
  <2>2. Cardinality(saved) \in Nat
        /\ Cardinality(saved) <= successful % CHECKPOINT
    BY FS_CardinalityType DEF SavedSinceCheckpoint
  <2> QED BY <2>1, <2>2
<1> QED BY <1>1, <1>2, SavedStep, ClosingTypeCorrect, PTL DEF ClosingSpec
-----------------------------------------------------------------------------
(* The strengthening for NeverAskedAgain: the work list is ascending, and  *)
(* no stock the run has still to deal with has a price of the date.        *)
Ahead == IF run = "checkpoint" THEN index + 1 ELSE index

AheadUnpriced ==
  run \in {"waiting", "asking", "checkpoint"} =>
    /\ Ascending(stocks_to_process)
    /\ \A i \in Ahead .. Len(stocks_to_process) :
         <<stocks_to_process[i], trading_date>>
           \notin daily_closing_prices \cup saved

(* A step stores at most the price of the stock at the index, and the      *)
(* index passes it.                                                        *)
LEMMA AheadStep ==
  ClosingTypeOK /\ AheadUnpriced /\ [ClosingNext]_closingVars => AheadUnpriced'
<1> SUFFICES ASSUME ClosingTypeOK, AheadUnpriced, [ClosingNext]_closingVars
             PROVE  AheadUnpriced'
  OBVIOUS
<1>1. ASSUME run \in {"waiting", "asking", "checkpoint"},
             stocks_to_process' = stocks_to_process,
             trading_date' = trading_date,
             daily_closing_prices' \cup saved' = daily_closing_prices \cup saved,
             Ahead' \in Int, Ahead' >= Ahead
      PROVE  AheadUnpriced'
  <2>1. Ahead \in Int /\ Len(stocks_to_process) \in Nat
    BY <1>1 DEF Ahead, ClosingTypeOK
  <2>2. \A i \in Ahead' .. Len(stocks_to_process') :
          i \in Ahead .. Len(stocks_to_process)
    BY <1>1, <2>1
  <2> QED BY <1>1, <2>2 DEF AheadUnpriced
<1>2. ASSUME run' \in {"idle", "finishing"} PROVE AheadUnpriced'
  BY <1>2 DEF AheadUnpriced
<1>3. run \in {"waiting", "asking", "checkpoint"} =>
        index \in Int /\ Ahead \in {index, index + 1}
  BY DEF ClosingTypeOK, Ahead
<1>4. ASSUME NEW date \in Dates, StartUpdate(date) PROVE AheadUnpriced'
  <2>1. /\ stocks_to_process' \in Remaining(date) /\ index' = 1
        /\ trading_date' = date /\ saved' = {} /\ run' # "checkpoint"
        /\ daily_closing_prices' = daily_closing_prices
    BY <1>4 DEF StartUpdate, ClosingTypeOK
  <2>2. /\ Ascending(stocks_to_process')
        /\ \A i \in 1 .. Len(stocks_to_process') :
             <<stocks_to_process'[i], date>> \notin daily_closing_prices
    BY <2>1, RemainingLemma
  <2>3. Ahead' = 1
    BY <2>1 DEF Ahead
  <2> QED BY <2>1, <2>2, <2>3 DEF AheadUnpriced
<1>5. CASE Admitted
  <2>1. Ahead' = Ahead
    BY <1>5 DEF Admitted, progress, Ahead
  <2> QED BY <1>1, <1>3, <1>5, <2>1 DEF Admitted
<1>6. ASSUME run = "asking", NextStock, UNCHANGED <<stocks_to_process,
             trading_date, daily_closing_prices, saved>>
      PROVE  AheadUnpriced'
  <2>1. Ahead = index /\ Ahead' = index + 1
    BY <1>6 DEF NextStock, Ahead
  <2> QED BY <1>1, <1>3, <1>6, <2>1
<1>7. CASE RateLimited
  <2>1. CASE retry_count + 1 > max_retries
    BY <1>6, <1>7, <2>1 DEF RateLimited
  <2>2. CASE ~(retry_count + 1 > max_retries)
    <3>1. Ahead' = Ahead
      BY <1>7, <2>2 DEF RateLimited, Ahead
    <3> QED BY <1>1, <1>3, <1>7, <3>1 DEF RateLimited
  <2> QED BY <2>1, <2>2
<1>8. CASE NoPrice
  BY <1>6, <1>8 DEF NoPrice
<1>9. CASE SavePrice
  <2>1. /\ run = "asking" /\ Ahead = index /\ index \in 1 .. Len(stocks_to_process)
        /\ stocks_to_process' = stocks_to_process
        /\ trading_date' = trading_date
        /\ daily_closing_prices' = daily_closing_prices
        /\ saved' = saved \cup {<<Stock, trading_date>>}
    BY <1>9 DEF SavePrice, Save, Ahead, ClosingTypeOK
  <2>2. Ahead' = index + 1
    BY <1>9, <2>1 DEF SavePrice, Save, NextStock, Ahead
  <2>3. ASSUME NEW i \in (index + 1) .. Len(stocks_to_process)
        PROVE  <<stocks_to_process[i], trading_date>>
                 \notin daily_closing_prices \cup saved'
    <3>1. stocks_to_process \in Seq(Stocks) /\ Ascending(stocks_to_process)
      BY <2>1 DEF ClosingTypeOK, AheadUnpriced
    <3>2. i \in DOMAIN stocks_to_process /\ index \in DOMAIN stocks_to_process
          /\ index < i /\ i \in index .. Len(stocks_to_process)
      BY <2>1, <3>1
    <3>3. stocks_to_process[index] < stocks_to_process[i]
      BY <3>1, <3>2 DEF Ascending
    <3>4. stocks_to_process[index] \in Nat /\ stocks_to_process[i] \in Nat
      <4>1. stocks_to_process[index] \in Stocks /\ stocks_to_process[i] \in Stocks
        BY <3>1, <3>2
      <4> QED BY <4>1
    <3>5. stocks_to_process[i] # Stock
      BY <3>3, <3>4 DEF Stock
    <3>6. <<stocks_to_process[i], trading_date>>
            \notin daily_closing_prices \cup saved
      BY <2>1, <3>2 DEF AheadUnpriced
    <3> QED BY <2>1, <3>5, <3>6
  <2>4. Ascending(stocks_to_process)
    BY <2>1 DEF AheadUnpriced
  <2> QED BY <2>1, <2>2, <2>3, <2>4 DEF AheadUnpriced
<1>10. CASE Checkpoint
  <2>1. run = "checkpoint" /\ Ahead = index + 1 /\ Ahead' = index + 1
        /\ stocks_to_process' = stocks_to_process
        /\ trading_date' = trading_date
    BY <1>10 DEF Checkpoint, NextStock, Ahead
  <2>2. daily_closing_prices' \cup saved' = daily_closing_prices \cup saved
    BY <1>10 DEF Checkpoint, Commit
  <2> QED BY <1>1, <1>3, <2>1, <2>2
<1>11. CASE Finish
  BY <1>2, <1>11 DEF Finish
<1>12. CASE Die
  BY <1>2, <1>12 DEF Die
<1>13. ASSUME UNCHANGED <<daily_closing_prices, saved, runVars>>
       PROVE  AheadUnpriced'
  BY <1>13 DEF AheadUnpriced, Ahead, runVars, progress
<1>14. CASE NextDay
  BY <1>13, <1>14 DEF NextDay
<1>15. CASE StartServer
  BY <1>13, <1>15 DEF StartServer
<1>16. CASE UNCHANGED closingVars
  BY <1>13, <1>16 DEF closingVars
<1> QED BY <1>4, <1>5, <1>7, <1>8, <1>9, <1>10, <1>11, <1>12, <1>14, <1>15,
           <1>16 DEF ClosingNext

(* A stock whose price of the date is stored, by this run or by one that   *)
(* was stopped before, is never asked for.                                 *)
THEOREM NothingAskedTwice == ClosingSpec => []NeverAskedAgain
<1>1. ClosingInit => AheadUnpriced
  BY DEF ClosingInit, AheadUnpriced
<1>2. ClosingTypeOK /\ AheadUnpriced => NeverAskedAgain
  <2> SUFFICES ASSUME ClosingTypeOK, AheadUnpriced, run = "asking"
               PROVE  <<Stock, trading_date>>
                        \notin daily_closing_prices \cup saved
    BY DEF NeverAskedAgain
  <2>1. Ahead = index /\ index \in Ahead .. Len(stocks_to_process)
    BY DEF Ahead, ClosingTypeOK
  <2> QED BY <2>1 DEF AheadUnpriced, Stock
<1> QED BY <1>1, <1>2, AheadStep, ClosingTypeCorrect, PTL DEF ClosingSpec
-----------------------------------------------------------------------------
(* The strengthening for CountsAreRight: the work list names each stock    *)
(* once, so that no stock is dealt with twice.                             *)
Priced ==
  {s \in DealtWith : <<s, trading_date>> \in daily_closing_prices \cup saved}

CountsInv ==
  run # "idle" =>
    /\ Ascending(stocks_to_process)
    /\ index \in 1 .. (Len(stocks_to_process) + 1)
    /\ IsFiniteSet(DealtWith)
    /\ successful + failed = Cardinality(DealtWith)
    /\ successful = Cardinality(Priced)

(* The stock at the index is a new one.                                    *)
LEMMA DealtLemma ==
  ASSUME ClosingTypeOK, CountsInv, run = "asking",
         UNCHANGED stocks_to_process,
         \/ run' = "checkpoint" /\ index' = index
         \/ run' # "checkpoint" /\ index' = index + 1
  PROVE  /\ Stock \in Stocks \ DealtWith
         /\ DealtWith' = DealtWith \cup {Stock}
         /\ index' \in 1 .. (Len(stocks_to_process) + 1)
         /\ IsFiniteSet(DealtWith')
         /\ Cardinality(DealtWith') = Cardinality(DealtWith) + 1
<1>1. /\ index \in 1 .. Len(stocks_to_process) /\ stocks_to_process \in Seq(Stocks)
      /\ Len(stocks_to_process) \in Nat /\ Ascending(stocks_to_process)
      /\ IsFiniteSet(DealtWith)
  BY DEF ClosingTypeOK, CountsInv
<1>2. DealtWith = {stocks_to_process[i] : i \in 1 .. (index - 1)}
  BY DEF DealtWith
<1>3. DealtWith' = {stocks_to_process[i] : i \in 1 .. index}
  <2>1. CASE run' = "checkpoint" /\ index' = index
    BY <2>1 DEF DealtWith
  <2>2. CASE run' # "checkpoint" /\ index' = index + 1
    <3>1. index' - 1 = index
      BY <1>1, <2>2
    <3> QED BY <2>2, <3>1 DEF DealtWith
  <2> QED BY <2>1, <2>2
<1>4. ASSUME NEW i \in 1 .. (index - 1) PROVE stocks_to_process[i] # Stock
  <2>1. i \in DOMAIN stocks_to_process /\ index \in DOMAIN stocks_to_process
        /\ i < index
    BY <1>1
  <2>2. stocks_to_process[i] < stocks_to_process[index]
    BY <1>1, <2>1 DEF Ascending
  <2>3. stocks_to_process[i] \in Stocks /\ stocks_to_process[index] \in Stocks
    BY <1>1, <2>1
  <2>4. stocks_to_process[i] \in Nat /\ stocks_to_process[index] \in Nat
    BY <2>3, ClosingConstants
  <2>5. \A m, n \in Nat : m < n => m # n
    OBVIOUS
  <2> QED BY <2>2, <2>4, <2>5 DEF Stock
<1>5. Stock \in Stocks /\ Stock \notin DealtWith
  BY <1>1, <1>2, <1>4 DEF Stock
<1>6. \A i : i \in 1 .. index <=> i \in 1 .. (index - 1) \/ i = index
  BY <1>1
<1>7. DealtWith' = DealtWith \cup {Stock}
  BY <1>2, <1>3, <1>6 DEF Stock
<1>8. IsFiniteSet(DealtWith') /\ Cardinality(DealtWith') = Cardinality(DealtWith) + 1
  BY <1>1, <1>5, <1>7, FS_AddElement
<1>9. index' \in 1 .. (Len(stocks_to_process) + 1)
  BY <1>1
<1> QED BY <1>5, <1>7, <1>8, <1>9

(* Every stock is counted when it is dealt with, as what it is.            *)
LEMMA CountsStep ==
  ASSUME ClosingTypeOK, AheadUnpriced, CountsInv, [ClosingNext]_closingVars
  PROVE  CountsInv'
<1>1. ASSUME run' = "idle" PROVE CountsInv'
  BY <1>1 DEF CountsInv
<1>2. ASSUME run # "idle", UNCHANGED <<stocks_to_process, trading_date, successful,
             failed>>, DealtWith' = DealtWith,
             daily_closing_prices' \cup saved' = daily_closing_prices \cup saved,
             index' \in 1 .. (Len(stocks_to_process) + 1)
      PROVE  CountsInv'
  <2>1. Priced' = Priced
    BY <1>2 DEF Priced
  <2> QED BY <1>2, <2>1 DEF CountsInv
<1>3. ASSUME run = "asking", NextStock, failed' = failed + 1,
             UNCHANGED <<stocks_to_process, trading_date, successful,
                         daily_closing_prices, saved>>
      PROVE  CountsInv'
  <2>1. run' # "checkpoint" /\ index' = index + 1 /\ index \in 1 .. Len(stocks_to_process)
    BY <1>3 DEF NextStock, ClosingTypeOK
  <2>2. /\ Stock \in Stocks \ DealtWith /\ DealtWith' = DealtWith \cup {Stock}
        /\ index' \in 1 .. (Len(stocks_to_process) + 1) /\ IsFiniteSet(DealtWith')
        /\ Cardinality(DealtWith') = Cardinality(DealtWith) + 1
    BY <1>3, <2>1, DealtLemma
  <2>3. <<Stock, trading_date>> \notin daily_closing_prices \cup saved
    BY <1>3, <2>1 DEF AheadUnpriced, Ahead, Stock, ClosingTypeOK
  <2>4. Priced' = Priced
    BY <1>3, <2>2, <2>3 DEF Priced
  <2>5. /\ successful \in Nat /\ failed \in Nat
        /\ successful + failed = Cardinality(DealtWith)
        /\ successful = Cardinality(Priced) /\ Ascending(stocks_to_process)
    BY <1>3 DEF CountsInv, ClosingTypeOK
  <2>6. successful' + failed' = Cardinality(DealtWith')
    BY <1>3, <2>2, <2>5
  <2> QED BY <1>3, <2>2, <2>4, <2>5, <2>6 DEF CountsInv
<1>4. ASSUME NEW date \in Dates, StartUpdate(date) PROVE CountsInv'
  <2>1. /\ stocks_to_process' \in Remaining(date) /\ index' = 1
        /\ successful' = 0 /\ failed' = 0 /\ run' # "checkpoint"
    BY <1>4 DEF StartUpdate
  <2>2. Ascending(stocks_to_process') /\ Len(stocks_to_process') \in Nat
    BY <2>1, RemainingLemma
  <2>3. DealtWith' = {} /\ Priced' = {}
    BY <2>1 DEF DealtWith, Priced
  <2>4. IsFiniteSet({}) /\ Cardinality({}) = 0
    BY FS_EmptySet
  <2>5. index' \in 1 .. (Len(stocks_to_process') + 1)
    BY <2>1, <2>2
  <2> QED BY <2>1, <2>2, <2>3, <2>4, <2>5 DEF CountsInv
<1>5. CASE Admitted
  <2>1. DealtWith' = DealtWith
    BY <1>5 DEF Admitted, progress, DealtWith
  <2> QED BY <1>2, <1>5, <2>1 DEF Admitted, progress, CountsInv
<1>6. CASE RateLimited
  <2>1. CASE retry_count + 1 > max_retries
    BY <1>3, <1>6, <2>1 DEF RateLimited
  <2>2. CASE ~(retry_count + 1 > max_retries)
    <3>1. DealtWith' = DealtWith
      BY <1>6, <2>2 DEF RateLimited, DealtWith
    <3> QED BY <1>2, <1>6, <2>2, <3>1 DEF RateLimited, CountsInv
  <2> QED BY <2>1, <2>2
<1>7. CASE NoPrice
  BY <1>3, <1>7 DEF NoPrice
<1>8. CASE SavePrice
  <2>1. /\ run = "asking" /\ successful' = successful + 1
        /\ UNCHANGED <<failed, stocks_to_process, trading_date, daily_closing_prices>>
        /\ saved' = saved \cup {<<Stock, trading_date>>}
    BY <1>8 DEF SavePrice, Save
  <2>2. \/ run' = "checkpoint" /\ index' = index
        \/ run' # "checkpoint" /\ index' = index + 1
    BY <1>8 DEF SavePrice, NextStock
  <2>3. /\ Stock \in Stocks \ DealtWith /\ DealtWith' = DealtWith \cup {Stock}
        /\ index' \in 1 .. (Len(stocks_to_process) + 1) /\ IsFiniteSet(DealtWith')
        /\ Cardinality(DealtWith') = Cardinality(DealtWith) + 1
    BY <2>1, <2>2, DealtLemma
  <2>4. Priced' = Priced \cup {Stock} /\ Stock \notin Priced
    BY <2>1, <2>3 DEF Priced
  <2>5. /\ successful \in Nat /\ failed \in Nat
        /\ successful + failed = Cardinality(DealtWith)
        /\ successful = Cardinality(Priced) /\ Ascending(stocks_to_process)
        /\ IsFiniteSet(DealtWith)
    BY <2>1 DEF CountsInv, ClosingTypeOK
  <2>6. IsFiniteSet(Priced)
    <3>1. Priced \subseteq DealtWith
      BY DEF Priced
    <3> QED BY <2>5, <3>1, FS_Subset
  <2>7. Cardinality(Priced') = Cardinality(Priced) + 1
    BY <2>4, <2>6, FS_AddElement
  <2>8. successful' + failed' = Cardinality(DealtWith')
    BY <2>1, <2>3, <2>5
  <2>9. successful' = Cardinality(Priced')
    BY <2>1, <2>5, <2>7
  <2> QED BY <2>1, <2>3, <2>5, <2>8, <2>9 DEF CountsInv
<1>9. CASE Checkpoint
  <2>1. /\ run = "checkpoint" /\ run' # "checkpoint" /\ index' = index + 1
        /\ UNCHANGED <<successful, failed, stocks_to_process, trading_date>>
        /\ index \in 1 .. Len(stocks_to_process) /\ Len(stocks_to_process) \in Nat
    BY <1>9 DEF Checkpoint, NextStock, ClosingTypeOK
  <2>2. index' - 1 = index /\ index' \in 1 .. (Len(stocks_to_process) + 1)
    BY <2>1
  <2>3. DealtWith' = DealtWith
    BY <2>1, <2>2 DEF DealtWith
  <2>4. daily_closing_prices' \cup saved' = daily_closing_prices \cup saved
    BY <1>9 DEF Checkpoint, Commit
  <2> QED BY <1>2, <2>1, <2>2, <2>3, <2>4
<1>10. CASE Finish
  BY <1>1, <1>10 DEF Finish
<1>11. CASE Die
  BY <1>1, <1>11 DEF Die
<1>12. ASSUME UNCHANGED <<daily_closing_prices, saved, runVars>> PROVE CountsInv'
  <2>1. UNCHANGED <<run, trading_date, stocks_to_process, index, successful, failed>>
    BY <1>12 DEF runVars, progress
  <2>2. CASE run = "idle"
    BY <1>1, <2>1, <2>2
  <2>3. CASE run # "idle"
    <3>1. DealtWith' = DealtWith
      BY <2>1 DEF DealtWith
    <3> QED BY <1>2, <1>12, <2>1, <2>3, <3>1 DEF CountsInv
  <2> QED BY <2>2, <2>3
<1>13. CASE NextDay
  BY <1>12, <1>13 DEF NextDay
<1>14. CASE StartServer
  BY <1>12, <1>14 DEF StartServer
<1>15. CASE UNCHANGED closingVars
  BY <1>12, <1>15 DEF closingVars
<1> QED BY <1>4, <1>5, <1>6, <1>7, <1>8, <1>9, <1>10, <1>11, <1>13, <1>14, <1>15
        DEF ClosingNext

(* Whatever the API answers, the counts a run prints are right: every      *)
(* stock it has dealt with is counted once, the successful ones being      *)
(* those whose price is stored or about to be.                             *)
THEOREM CountsCorrect == ClosingSpec => []CountsAreRight
<1>1. ClosingInit => ClosingTypeOK /\ AheadUnpriced /\ CountsInv
  BY ClosingTypeInit DEF ClosingInit, AheadUnpriced, CountsInv
<1>2. CountsInv => CountsAreRight
  BY DEF CountsInv, CountsAreRight, Priced
<1>3. ClosingTypeOK /\ AheadUnpriced /\ CountsInv /\ [ClosingNext]_closingVars
        => (ClosingTypeOK /\ AheadUnpriced /\ CountsInv)'
  BY ClosingTypeStep, AheadStep, CountsStep
<1> QED BY <1>1, <1>2, <1>3, PTL DEF ClosingSpec
=============================================================================
