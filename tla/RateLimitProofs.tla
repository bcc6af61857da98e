--------------------------- MODULE RateLimitProofs ---------------------------
(***************************************************************************)
(* What the sweep of RateLimit drops, for every rate, burst and delay.     *)
(***************************************************************************)
EXTENDS RateLimit, TLAPS

\* A request that is between the clock and the lock is at most Delay late.
ReadsAreRecent == \A r \in Handlers : Pending(r) => clock - Delay <= read[r].now /\ read[r].now <= clock

\* last is set back by no more than that, and what a bucket holds, counted at the
\* latest time it has seen, is what a client that kept the order would have left.
BucketsAreSound ==
  \A k \in Clients : Has(k) =>
    /\ newest[k] - Delay <= bucket[k].last /\ newest[k] <= clock
    /\ 0 <= bucket[k].tokens + (newest[k] - bucket[k].last)

LimitInv == LimitTypeOK /\ ReadsAreRecent /\ BucketsAreSound

-----------------------------------------------------------------------------

LEMMA LimitInitInv == LimitInit => LimitInv
  BY DelayAssumption
     DEF LimitInit, LimitInv, LimitTypeOK, ReadsAreRecent, BucketsAreSound, Pending, Has

LEMMA TickInv == LimitInv /\ Tick => LimitInv'
  <1> SUFFICES ASSUME LimitInv, Tick PROVE LimitInv'
    OBVIOUS
  <1> USE DelayAssumption DEF LimitInv, LimitTypeOK, Tick
  <1>1. LimitTypeOK'
    OBVIOUS
  <1>2. ReadsAreRecent'
    <2> SUFFICES ASSUME NEW r \in Handlers, Pending(r)
                 PROVE clock' - Delay <= read[r].now /\ read[r].now <= clock'
      BY DEF ReadsAreRecent, Pending
    <2>1. read[r].now \in Nat /\ read[r].now <= clock /\ clock - read[r].now < Delay
      BY DEF ReadsAreRecent, Pending
    <2> QED  BY <2>1
  <1>3. BucketsAreSound'
    <2> SUFFICES ASSUME NEW k \in Clients, Has(k)
                 PROVE /\ newest[k] - Delay <= bucket[k].last /\ newest[k] <= clock'
                       /\ 0 <= bucket[k].tokens + (newest[k] - bucket[k].last)
      BY DEF BucketsAreSound, Has
    <2>1. newest[k] \in Nat /\ newest[k] - Delay <= bucket[k].last /\ newest[k] <= clock
          /\ 0 <= bucket[k].tokens + (newest[k] - bucket[k].last)
      BY DEF BucketsAreSound
    <2> QED  BY <2>1
  <1> QED  BY <1>1, <1>2, <1>3

LEMMA ReadClockInv == \A r \in Handlers, k \in Clients : LimitInv /\ ReadClock(r, k) => LimitInv'
  BY DelayAssumption
     DEF LimitInv, LimitTypeOK, ReadsAreRecent, BucketsAreSound, ReadClock, Pending, Has, NoRead

\* What the sweep leaves is what was there, or nothing.
LEMMA SweptKeeps ==
  ASSUME NEW k \in Clients, NEW now
  PROVE  Swept(now)[k] = bucket[k] \/ (Swept(now)[k] = NoBucket /\ Has(k) /\ IdleLongEnough(bucket[k], now))
  BY DEF Swept

LEMMA AllowInv == \A r \in Handlers : LimitInv /\ Allow(r) => LimitInv'
  <1> SUFFICES ASSUME NEW r \in Handlers, LimitInv, Allow(r) PROVE LimitInv'
    OBVIOUS
  <1> DEFINE k      == read[r].client
             now    == read[r].now
             table  == IF ~Has(k) /\ Cardinality({j \in Clients : Has(j)}) >= MaxBuckets THEN Swept(now) ELSE bucket
             tokens == Level(IF Has(k) THEN bucket[k] ELSE [tokens |-> Full, last |-> now], now)
             new    == [tokens |-> IF tokens < Cost THEN tokens ELSE tokens - Cost, last |-> now]
  <1>1. k \in Clients /\ now \in Nat /\ clock - Delay <= now /\ now <= clock
    BY DEF LimitInv, LimitTypeOK, ReadsAreRecent, Allow, Pending
  <1>2. /\ bucket' = [table EXCEPT ![k] = new] /\ clock' = clock
        /\ newest' = [newest EXCEPT ![k] = IF Has(k) THEN Larger(@, now) ELSE now]
        /\ read' = [read EXCEPT ![r] = NoRead]
    BY DEF Allow
  <1>3. table \in [Clients -> [tokens: Int, last: Nat] \cup {NoBucket}]
        /\ \A j \in Clients : table[j] = bucket[j] \/ table[j] = NoBucket
    <2>1. Swept(now) \in [Clients -> [tokens: Int, last: Nat] \cup {NoBucket}]
      BY DEF Swept, LimitInv, LimitTypeOK
    <2> QED  BY <2>1, SweptKeeps DEF LimitInv, LimitTypeOK
  <1>4. tokens \in Int /\ (Has(k) => newest[k] \in Nat)
    BY <1>1, RateAssumption DEF Level, LimitInv, LimitTypeOK, Has
  <1>5. 0 <= new.tokens + (newest'[k] - now) /\ newest'[k] - Delay <= now /\ newest'[k] <= clock /\ newest'[k] \in Nat
    <2>1. CASE Has(k)
      <3>1. bucket[k] \in [tokens: Int, last: Nat] /\ newest[k] \in Nat /\ newest[k] <= clock
            /\ 0 <= bucket[k].tokens + (newest[k] - bucket[k].last)
        BY <2>1, <1>1 DEF LimitInv, LimitTypeOK, BucketsAreSound, Has
      <3>2. newest'[k] = Larger(newest[k], now)
        BY <1>1, <1>2, <2>1 DEF LimitInv, LimitTypeOK
      <3>3. tokens = bucket[k].tokens + (now - bucket[k].last) \/ tokens = Full
        BY <2>1 DEF Level
      <3> HIDE DEF k, now, tokens
      <3>4. newest'[k] \in Nat /\ now <= newest'[k] /\ newest[k] <= newest'[k] /\ newest'[k] <= clock
            /\ newest'[k] - Delay <= now
        <4>1. clock \in Nat
          BY DEF LimitInv, LimitTypeOK
        <4> QED  BY <4>1, <1>1, <3>1, <3>2, DelayAssumption DEF Larger
      <3>5. 0 <= tokens + (newest'[k] - now)
        BY <1>1, <1>4, <3>1, <3>3, <3>4, RateAssumption
      <3>6. tokens >= Cost => 0 <= (tokens - Cost) + (newest'[k] - now)
        BY <1>1, <1>4, <3>4, RateAssumption
      <3> QED  BY <1>1, <1>4, <3>4, <3>5, <3>6, RateAssumption
    <2>2. CASE ~Has(k)
      <3>1. newest'[k] = now
        BY <1>1, <1>2, <2>2 DEF LimitInv, LimitTypeOK
      <3>2. tokens = Full
        BY <1>1, <2>2, RateAssumption DEF Level
      <3> HIDE DEF k, now, tokens
      <3> QED  BY <1>1, <3>1, <3>2, RateAssumption, DelayAssumption
    <2> QED  BY <2>1, <2>2
  <1>6. LimitTypeOK'
    <2>1. bucket' \in [Clients -> [tokens: Int, last: Nat] \cup {NoBucket}]
      <3> HIDE DEF table, tokens, k, now
      <3>1. new \in [tokens: Int, last: Nat]
        BY <1>1, <1>4, RateAssumption
      <3> QED  BY <1>1, <1>2, <1>3, <3>1
    <2>2. newest' \in [Clients -> Nat]
      BY <1>1, <1>2 DEF LimitInv, LimitTypeOK, Larger
    <2> QED  BY <1>2, <2>1, <2>2 DEF LimitInv, LimitTypeOK
  <1>7. ReadsAreRecent'
    BY <1>2 DEF LimitInv, LimitTypeOK, ReadsAreRecent, Pending
  <1>8. BucketsAreSound'
    <2> SUFFICES ASSUME NEW j \in Clients, Has(j)'
                 PROVE /\ newest'[j] - Delay <= bucket'[j].last /\ newest'[j] <= clock'
                       /\ 0 <= bucket'[j].tokens + (newest'[j] - bucket'[j].last)
      BY DEF BucketsAreSound
    <2>1. CASE j = k
      <3>1. bucket'[k] = new
        BY <1>1, <1>2, <1>3
      <3> HIDE DEF table, tokens, k, now
      <3> QED  BY <1>2, <1>5, <2>1, <3>1
    <2>2. CASE j # k
      <3>1. bucket'[j] = table[j] /\ newest'[j] = newest[j]
        BY <1>2, <1>3, <2>2 DEF LimitInv, LimitTypeOK
      <3>2. bucket'[j] = bucket[j] /\ Has(j)
        BY <1>3, <3>1 DEF Has
      <3> QED  BY <1>2, <3>1, <3>2 DEF LimitInv, BucketsAreSound
    <2> QED  BY <2>1, <2>2
  <1> QED  BY <1>6, <1>7, <1>8 DEF LimitInv

LEMMA LimitStutterInv == LimitInv /\ UNCHANGED limitVars => LimitInv'
  BY DEF LimitInv, LimitTypeOK, ReadsAreRecent, BucketsAreSound, Pending, Has, limitVars

\* The inductive invariant.
THEOREM LimitInvariance == LimitSpec => []LimitInv
  <1>1. LimitInv /\ [LimitNext]_limitVars => LimitInv'
    BY TickInv, ReadClockInv, AllowInv, LimitStutterInv DEF LimitNext
  <1> QED  BY LimitInitInv, <1>1, PTL DEF LimitSpec

\* The tables have their types.
THEOREM LimitTypeCorrect == LimitSpec => []LimitTypeOK
  BY LimitInvariance, PTL DEF LimitInv

-----------------------------------------------------------------------------

\* What a bucket would hold after it has been idle for long enough.
LEMMA IdleIsFull ==
  ASSUME LimitInv, NEW k \in Clients, Has(k), NEW now \in Nat, IdleLongEnough(bucket[k], now)
  PROVE  Level(bucket[k], now) >= Full - Delay
  <1>1. bucket[k].tokens \in Int /\ bucket[k].last \in Nat /\ newest[k] \in Nat
    BY DEF LimitInv, LimitTypeOK, Has
  <1>2. newest[k] - Delay <= bucket[k].last /\ 0 <= bucket[k].tokens + (newest[k] - bucket[k].last)
    BY DEF LimitInv, BucketsAreSound
  <1>3. now - bucket[k].last >= Full
    BY DEF IdleLongEnough
  <1>4. bucket[k].tokens + (now - bucket[k].last) >= Full - Delay
    BY <1>1, <1>2, <1>3, RateAssumption, DelayAssumption
  <1> QED  BY <1>1, <1>4, RateAssumption, DelayAssumption DEF Level

LEMMA StepDropsOnlyFull == LimitInv /\ [LimitNext]_limitVars => DropsOnlyFull
  <1> SUFFICES ASSUME LimitInv, [LimitNext]_limitVars,
                      NEW r \in Handlers, Pending(r), read'[r] = NoRead,
                      NEW k \in Clients, Has(k), bucket'[k] = NoBucket
               PROVE  Level(bucket[k], read[r].now) >= Full - Delay
    BY DEF DropsOnlyFull
  <1>1. PICK q \in Handlers : Allow(q)
    BY DEF LimitNext, limitVars, Tick, ReadClock, Has
  <1>2. q = r /\ read[r].now \in Nat /\ read[r].client \in Clients
    BY <1>1 DEF LimitInv, LimitTypeOK, Allow, Pending
  <1>3. Swept(read[r].now)[k] = NoBucket
    BY <1>1, <1>2 DEF LimitInv, LimitTypeOK, Allow, Has, NoBucket, Swept
  <1>4. IdleLongEnough(bucket[k], read[r].now)
    BY <1>3, SweptKeeps DEF Has
  <1> QED  BY <1>2, <1>4, IdleIsFull

\* What the sweep drops would be full (ratelimit.go:8-12, 37-39, 53-60), for every
\* rate, burst, cap and delay: dropping it gives its client nothing.
THEOREM SweepGivesNothing == LimitSpec => SweepIsInvisible
  BY LimitInvariance, StepDropsOnlyFull, PTL DEF LimitSpec, SweepIsInvisible
=============================================================================
