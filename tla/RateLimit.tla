------------------------------ MODULE RateLimit ------------------------------
(***************************************************************************)
(* The router's token buckets (router/ratelimit.go): one per client, swept *)
(* when there are too many.  A request reads the clock before it takes the *)
(* lock, so a bucket may see an earlier time after a later one.            *)
(*                                                                         *)
(* Tokens are counted in the ticks it takes to refill them: a bucket gains *)
(* one a tick, a request costs Cost of them, and a full bucket has Full.   *)
(***************************************************************************)
EXTENDS Integers, FiniteSets

CONSTANTS
  Clients,
  Handlers,    \* goroutines that serve a request
  Cost,        \* one token: 1/rate seconds, in ticks
  Full,        \* the burst, in ticks; also how long an empty bucket refills
  MaxBuckets,
  Delay,       \* bound: from the clock read to the lock
  MaxTime      \* bound: the clock

ASSUME RateAssumption  == Cost \in Nat \ {0} /\ Full \in Nat /\ Full >= Cost
ASSUME DelayAssumption == Delay \in Nat /\ MaxTime \in Nat /\ MaxBuckets \in Nat

VARIABLES
  clock,
  bucket,  \* the map: tokens and last, NoBucket for a client without one
  read,    \* for each request, who sent it and the time it read, or NoRead
  newest   \* for each client, the latest time its bucket has seen

limitVars == <<clock, bucket, read, newest>>

NoBucket == [tokens |-> 0, last |-> -1]
NoRead   == [now |-> -1]

Has(k)      == bucket[k] # NoBucket
Pending(r)  == read[r] # NoRead
Larger(a, b) == IF a > b THEN a ELSE b

LimitInit ==
  /\ clock = 0
  /\ bucket = [k \in Clients |-> NoBucket] /\ newest = [k \in Clients |-> 0]
  /\ read = [r \in Handlers |-> NoRead]

Tick ==
  /\ clock < MaxTime /\ clock' = clock + 1
  /\ \A r \in Handlers : Pending(r) => clock - read[r].now < Delay
  /\ UNCHANGED <<bucket, read, newest>>

ReadClock(r, k) ==
  /\ ~Pending(r) /\ read' = [read EXCEPT ![r] = [client |-> k, now |-> clock]]
  /\ UNCHANGED <<clock, bucket, newest>>

\* Mutant: one token's worth of idleness is taken for all of them.
IdleForAToken(b, now) == now - b.last >= Cost

IdleLongEnough(b, now) == now - b.last >= Full

\* sweep
Swept(now) == [k \in Clients |-> IF Has(k) /\ IdleLongEnough(bucket[k], now) THEN NoBucket ELSE bucket[k]]

Level(b, now) == LET tokens == b.tokens + (now - b.last) IN IF tokens > Full THEN Full ELSE tokens

\* allow.  Nothing is swept for a client that has a bucket, and one that has none
\* gets it even when the sweep made no room.
Allow(r) ==
  /\ Pending(r) /\ read' = [read EXCEPT ![r] = NoRead]
  /\ LET k      == read[r].client
         now    == read[r].now
         table  == IF ~Has(k) /\ Cardinality({j \in Clients : Has(j)}) >= MaxBuckets THEN Swept(now) ELSE bucket
         tokens == Level(IF Has(k) THEN bucket[k] ELSE [tokens |-> Full, last |-> now], now)
     IN /\ bucket' = [table EXCEPT ![k] =
                        [tokens |-> IF tokens < Cost THEN tokens ELSE tokens - Cost, last |-> now]]
        /\ newest' = [newest EXCEPT ![k] = IF Has(k) THEN Larger(@, now) ELSE now]
  /\ UNCHANGED clock

LimitNext ==
  \/ Tick
  \/ \E r \in Handlers, k \in Clients : ReadClock(r, k)
  \/ \E r \in Handlers : Allow(r)

LimitSpec == LimitInit /\ [][LimitNext]_limitVars

-----------------------------------------------------------------------------
(* Properties *)

\* The type invariant.
LimitTypeOK ==
  /\ clock \in 0 .. MaxTime
  /\ bucket \in [Clients -> [tokens: Int, last: Nat] \cup {NoBucket}]
  /\ read \in [Handlers -> [client: Clients, now: Nat] \cup {NoRead}]
  /\ newest \in [Clients -> Nat]

\* "A bucket that has been idle long enough to refill is indistinguishable from
\* a new one" (ratelimit.go:10-12): what the sweep drops would be full by then,
\* so that a client gains nothing by it - short of what a request lost between
\* the clock and the lock, since a late one sets last back.
DropsOnlyFull ==
  \A r \in Handlers : Pending(r) /\ read'[r] = NoRead =>
    \A k \in Clients : Has(k) /\ bucket'[k] = NoBucket =>
      Level(bucket[k], read[r].now) >= Full - Delay

SweepIsInvisible == [][DropsOnlyFull]_limitVars
=============================================================================
