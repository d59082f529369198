---------------------------- MODULE ServerProofs ----------------------------
(***************************************************************************)
(* Proofs about what the server keeps between the requests it serves at    *)
(* the same time: the buckets of the rate limiter, the statistics it and   *)
(* the store have cached, the state of the chat sessions, and the research *)
(* sessions with their ledgers.  Each part is proved for every number of   *)
(* requests, keys and sessions, and for every value of its constants that  *)
(* the assumptions of its module allow.                                    *)
(***************************************************************************)
EXTENDS RateLimiter, StatsCache, ChatSession, ResearchSessions, TLAPS

-----------------------------------------------------------------------------
(***************************************************************************)
(* The rate limiter: what it grants.                                       *)
(***************************************************************************)
(* A request under way read the clock at most Skew ticks ago.              *)
AskedRecently ==
    \A r \in Handlers : asking[r] # NotAsking =>
        asking[r].now <= clock /\ clock - asking[r].now <= Skew

(* The time of a bucket trails the latest time it has seen, its tokens are  *)
(* below zero by no more than that.                                         *)
Trails(b, m) == m <= clock /\ b.lastSeen <= m /\ m <= b.lastSeen + Skew /\ b.tokens >= b.lastSeen - m

(* n drops of a key's bucket in the period account for its place: the first *)
(* was in the period, the last not after this time, and the collections    *)
(* between them each moved lastGC on by more than GCEvery.                  *)
IdleTimes(n) == (n - 1) * (IdleAfter + 1 - Skew)
Rounds(n) == (n - 1) * (GCEvery + 1)
Gifts(n) == n * Excess
DropsPlaced(n, at, gc) ==
    n > 0 => /\ IdleTimes(n) <= clock - since /\ IdleTimes(n) <= at - since
             /\ Rounds(n) <= gc + Skew - since
             /\ n - 1 <= gc + Skew - since

(* What a bucket has granted in the period and what it has left are covered *)
(* by its time and by the times it was dropped and filled again.            *)
BucketCovered(k) ==
    buckets[k] # NoBucket =>
        /\ buckets[k].lastSeen \in Nat /\ buckets[k].tokens \in Int
        /\ \E m \in Nat : Trails(buckets[k], m)
        /\ buckets[k].tokens <= Burst
        /\ admitted[k] = 0 \/ \E n \in Nat :
              /\ DropsPlaced(n, buckets[k].lastSeen + Skew, lastGC)
              /\ admitted[k] + buckets[k].tokens
                    <= Burst + Skew + (buckets[k].lastSeen - since) + Gifts(n)

(* A key without a bucket was idle for so long that a full one is a gift of *)
(* no more than Excess, which its last drop accounts for.                   *)
Idled(k, gc) ==
    admitted[k] = 0 \/ \E n \in Nat :
        DropsPlaced(n, clock, gc) /\ admitted[k] <= clock - since + Gifts(n)
KeyCovered(k) == buckets[k] = NoBucket => Idled(k, lastGC)

RateInv ==
    /\ RateTypeOK
    /\ AskedRecently
    /\ lastGC <= clock
    /\ clock < since => \A k \in Keys : admitted[k] = 0
    /\ \A k \in Keys : BucketCovered(k) /\ KeyCovered(k)
    /\ NeverOverspent

LEMMA ExcessIsNat == Excess \in Nat /\ Excess >= Burst + 2 * Skew - (IdleAfter + 1)
  BY RateAssumption DEF Excess

LEMMA DropTimes ==
  ASSUME NEW n \in Nat
  PROVE  /\ IdleTimes(n) \in Int /\ Rounds(n) \in Int /\ Gifts(n) \in Nat
         /\ IdleTimes(n + 1) = IdleTimes(n) + (IdleAfter + 1 - Skew)
         /\ Rounds(n + 1) = Rounds(n) + (GCEvery + 1)
         /\ Gifts(n + 1) = Gifts(n) + Excess
<1>1. \A x \in Int, y \in Int : x * y \in Int /\ (x + 1) * y = x * y + y
  OBVIOUS
<1>2. \A x \in Nat, y \in Nat : x * y \in Nat
  OBVIOUS
<1>3. /\ IdleAfter + 1 - Skew \in Int /\ GCEvery + 1 \in Int /\ n - 1 \in Int
      /\ n + 1 - 1 = (n - 1) + 1
  BY RateAssumption
<1>4. IdleTimes(n) \in Int /\ IdleTimes(n + 1) = IdleTimes(n) + (IdleAfter + 1 - Skew)
  <2>1. IdleTimes(n + 1) = ((n - 1) + 1) * (IdleAfter + 1 - Skew)
    BY <1>3, SMT DEF IdleTimes
  <2>2. QED
    BY <1>1, <1>3, <2>1, Zenon DEF IdleTimes
<1>5. Rounds(n) \in Int /\ Rounds(n + 1) = Rounds(n) + (GCEvery + 1)
  <2>1. Rounds(n + 1) = ((n - 1) + 1) * (GCEvery + 1)
    BY <1>3, SMT DEF Rounds
  <2>2. QED
    BY <1>1, <1>3, <2>1, Zenon DEF Rounds
<1>6. Excess \in Int /\ n \in Int
  BY ExcessIsNat
<1>7. Gifts(n) \in Nat /\ Gifts(n + 1) = Gifts(n) + Excess
  BY <1>1, <1>2, <1>6, ExcessIsNat, Zenon DEF Gifts
<1>8. QED
  BY <1>4, <1>5, <1>7

LEMMA FirstDrop == IdleTimes(1) = 0 /\ Rounds(1) = 0 /\ Gifts(0) = 0 /\ Gifts(1) = Excess
<1>1. 1 - 1 = 0 /\ (IdleAfter + 1 - Skew) \in Int /\ GCEvery + 1 \in Int
  BY RateAssumption
<1>2. \A y \in Int : 0 * y = 0 /\ 1 * y = y
  OBVIOUS
<1>3. Excess \in Int
  BY ExcessIsNat
<1>4. QED
  BY <1>1, <1>2, <1>3, Zenon DEF IdleTimes, Rounds, Gifts

(* Drops that are placed stay placed while time passes.                     *)
LEMMA DropsStayPlaced ==
  ASSUME NEW n \in Nat, NEW at \in Int, NEW gc \in Nat, NEW later \in Int, NEW gcLater \in Nat,
         DropsPlaced(n, at, gc), later >= at, gcLater >= gc, clock \in Nat, since \in Nat
  PROVE  DropsPlaced(n, later, gcLater)
<1>1. IdleTimes(n) \in Int /\ Rounds(n) \in Int
  BY DropTimes
<1>2. QED
  BY <1>1, RateAssumption DEF DropsPlaced

LEMMA InitRateInv == RateInit => RateInv
<1> SUFFICES ASSUME RateInit PROVE RateInv
  OBVIOUS
<1>1. NoBucket \in [tokens : Int, lastSeen : Int]
  BY DEF NoBucket
<1>2. NeverOverspent
  <2> SUFFICES ASSUME clock >= since, NEW k \in Keys
      PROVE  \E n \in 0 .. clock - since + Skew + 1 :
                CanBeDropped(n, clock - since)
                  /\ admitted[k] <= Burst + Skew + (clock - since) + Gifts(n)
    BY DEF NeverOverspent, Gifts
  <2>1. clock = 0 /\ since = 0 /\ admitted[k] = 0
    BY RateAssumption DEF RateInit
  <2>2. 0 \in 0 .. clock - since + Skew + 1 /\ CanBeDropped(0, clock - since)
    BY <2>1, RateAssumption DEF CanBeDropped
  <2>3. admitted[k] <= Burst + Skew + (clock - since) + Gifts(0)
    BY <2>1, RateAssumption, FirstDrop
  <2>4. QED
    BY <2>2, <2>3
<1>3. QED
  BY <1>1, <1>2, RateAssumption
     DEF RateInit, RateInv, RateTypeOK, AskedRecently, BucketCovered, KeyCovered, Idled

LEMMA AskKeepsInv ==
  ASSUME RateInv, NEW r \in Handlers, NEW k \in Keys, Arrive(r, k)
  PROVE  RateInv'
<1> USE RateAssumption
<1>1. RateTypeOK'
  BY DEF RateInv, RateTypeOK, Arrive
<1>2. AskedRecently'
  BY DEF RateInv, RateTypeOK, AskedRecently, Arrive
<1>3. \A j \in Keys : BucketCovered(j)' /\ KeyCovered(j)'
  BY DEF RateInv, BucketCovered, KeyCovered, Idled, DropsPlaced, Trails, Arrive
<1>4. QED
  BY <1>1, <1>2, <1>3 DEF RateInv, NeverOverspent, Arrive

LEMMA TickKeepsInv ==
  ASSUME RateInv, Tick
  PROVE  RateInv'
<1> USE RateAssumption, ExcessIsNat
<1>1. RateTypeOK'
  BY DEF RateInv, RateTypeOK, Tick
<1>2. AskedRecently'
  BY DEF RateInv, RateTypeOK, AskedRecently, Tick
<1>3. /\ clock \in Nat /\ since \in Nat /\ lastGC \in Nat /\ clock' = clock + 1 /\ since' = since
      /\ buckets' = buckets /\ admitted' = admitted /\ lastGC' = lastGC
      /\ admitted \in [Keys -> Nat]
  BY DEF RateInv, RateTypeOK, Tick
\* What is placed before the tick is placed after it.
<1>4. ASSUME NEW n \in Nat, NEW at \in Int, NEW later \in Int, later >= at,
             DropsPlaced(n, at, lastGC)
      PROVE  n > 0 => /\ IdleTimes(n) <= clock + 1 - since /\ IdleTimes(n) <= later - since
                      /\ Rounds(n) <= lastGC + Skew - since
                      /\ n - 1 <= lastGC + Skew - since
  <2>1. IdleTimes(n) \in Int
    BY DropTimes
  <2>2. QED
    BY <1>3, <1>4, <2>1 DEF DropsPlaced
<1>5. \A j \in Keys : BucketCovered(j)' /\ KeyCovered(j)'
  <2> SUFFICES ASSUME NEW j \in Keys PROVE BucketCovered(j)' /\ KeyCovered(j)'
    OBVIOUS
  <2>1. BucketCovered(j)'
    <3> SUFFICES ASSUME buckets[j] # NoBucket PROVE BucketCovered(j)'
      BY <1>3 DEF BucketCovered
    <3>1. BucketCovered(j)
      BY DEF RateInv
    <3>2. /\ buckets[j].lastSeen \in Nat /\ buckets[j].tokens \in Int
          /\ buckets[j].tokens <= Burst
      BY <3>1 DEF BucketCovered
    <3>3. \E m \in Nat : Trails(buckets[j], m)'
      BY <1>3, <3>1 DEF BucketCovered, Trails
    <3>4. CASE admitted[j] = 0
      BY <1>3, <3>2, <3>3, <3>4 DEF BucketCovered
    <3>5. CASE admitted[j] # 0
      <4>1. PICK n \in Nat :
              /\ DropsPlaced(n, buckets[j].lastSeen + Skew, lastGC)
              /\ admitted[j] + buckets[j].tokens
                   <= Burst + Skew + (buckets[j].lastSeen - since) + Gifts(n)
        BY <3>1, <3>5 DEF BucketCovered
      <4>2. buckets[j].lastSeen + Skew \in Int
        BY <3>2
      <4>3. n > 0 => /\ IdleTimes(n) <= clock + 1 - since
                     /\ IdleTimes(n) <= (buckets[j].lastSeen + Skew) - since
                     /\ Rounds(n) <= lastGC + Skew - since
                     /\ n - 1 <= lastGC + Skew - since
        <5>1. PICK at \in Int : at = buckets[j].lastSeen + Skew
          BY <4>2
        <5>2. DropsPlaced(n, at, lastGC) /\ at >= at
          BY <4>1, <5>1
        <5>3. n > 0 => /\ IdleTimes(n) <= clock + 1 - since /\ IdleTimes(n) <= at - since
                       /\ Rounds(n) <= lastGC + Skew - since
                       /\ n - 1 <= lastGC + Skew - since
          BY <1>4, <5>2
        <5>4. QED
          BY <5>1, <5>3
      <4>4. /\ buckets'[j].lastSeen = buckets[j].lastSeen /\ IdleTimes(n)' = IdleTimes(n)
            /\ Rounds(n)' = Rounds(n)
        BY <1>3 DEF IdleTimes, Rounds
      <4>5. DropsPlaced(n, buckets[j].lastSeen + Skew, lastGC)'
        BY <1>3, <4>3, <4>4 DEF DropsPlaced
      <4>6. QED
        BY <1>3, <3>2, <3>3, <4>1, <4>5 DEF BucketCovered
    <3>6. QED BY <3>4, <3>5
  <2>2. KeyCovered(j)'
    <3> SUFFICES ASSUME buckets[j] = NoBucket, admitted[j] # 0 PROVE KeyCovered(j)'
      BY <1>3 DEF KeyCovered, Idled
    <3>1. PICK n \in Nat : /\ DropsPlaced(n, clock, lastGC)
                           /\ admitted[j] <= clock - since + Gifts(n)
      BY DEF RateInv, KeyCovered, Idled
    <3>2. n > 0 => /\ IdleTimes(n) <= clock + 1 - since
                   /\ Rounds(n) <= lastGC + Skew - since
                   /\ n - 1 <= lastGC + Skew - since
      BY <1>3, <1>4, <3>1
    <3>3. DropsPlaced(n, clock, lastGC)'
      BY <1>3, <3>2 DEF DropsPlaced, IdleTimes, Rounds
    <3>4. Gifts(n) \in Nat
      BY DropTimes
    <3>5. admitted'[j] <= clock' - since' + Gifts(n)
      BY <1>3, <3>1, <3>4
    <3>6. QED
      BY <1>3, <3>3, <3>5 DEF KeyCovered, Idled
  <2>3. QED BY <2>1, <2>2
<1>6. NeverOverspent'
  <2> SUFFICES ASSUME clock' >= since', NEW k \in Keys
      PROVE  \E n \in 0 .. clock' - since' + Skew + 1 :
                (CanBeDropped(n, clock - since))'
                  /\ admitted'[k] <= Burst + Skew + (clock' - since') + Gifts(n)
    BY DEF NeverOverspent, Gifts, Excess
  <2>1. CASE clock >= since
    <3>1. PICK n \in 0 .. clock - since + Skew + 1 :
            /\ CanBeDropped(n, clock - since)
            /\ admitted[k] <= Burst + Skew + (clock - since) + Gifts(n)
      BY <2>1 DEF RateInv, NeverOverspent, Gifts
    <3>2. n \in Nat
      BY <1>3
    <3>3. IdleTimes(n) \in Int /\ Rounds(n) \in Int /\ Gifts(n) \in Nat
      BY <3>2, DropTimes
    <3>4. n \in 0 .. clock' - since' + Skew + 1
      BY <1>3, <3>1
    <3>5. (CanBeDropped(n, clock - since))'
      <4>1. n > 0 => IdleTimes(n) <= clock - since /\ Rounds(n) <= clock - since + Skew
        BY <3>1 DEF CanBeDropped, IdleTimes, Rounds
      <4>2. n > 0 => IdleTimes(n) <= clock' - since' /\ Rounds(n) <= clock' - since' + Skew
        BY <1>3, <3>3, <4>1
      <4>3. QED
        BY <4>2 DEF CanBeDropped, IdleTimes, Rounds
    <3>6. admitted'[k] <= Burst + Skew + (clock' - since') + Gifts(n)
      BY <1>3, <3>1, <3>3
    <3>7. QED
      BY <3>4, <3>5, <3>6
  <2>2. CASE clock < since
    <3>1. admitted'[k] = 0
      BY <1>3, <2>2 DEF RateInv
    <3>2. 0 \in 0 .. clock' - since' + Skew + 1 /\ (CanBeDropped(0, clock - since))'
      BY <1>3 DEF CanBeDropped
    <3>3. admitted'[k] <= Burst + Skew + (clock' - since') + Gifts(0)
      BY <1>3, <3>1, FirstDrop
    <3>4. QED
      BY <3>2, <3>3
  <2>3. QED BY <1>3, <2>1, <2>2
<1>7. lastGC' <= clock' /\ (clock' < since' => \A k \in Keys : admitted'[k] = 0)
  BY <1>3 DEF RateInv
<1>8. QED
  BY <1>1, <1>2, <1>5, <1>6, <1>7 DEF RateInv

(* A request under way has a time, at most Skew ago, and a key.            *)
LEMMA Asking ==
  ASSUME RateInv, NEW r \in Handlers, asking[r] # NotAsking
  PROVE  /\ asking[r].now \in Nat /\ asking[r].key \in Keys
         /\ asking[r].now <= clock /\ clock - asking[r].now <= Skew
  BY DEF RateInv, RateTypeOK, AskedRecently

(* Collecting idle buckets leaves every key as well covered as it was: the *)
(* time it was idle for has earned a full bucket but for Excess, which this *)
(* drop accounts for.                                                       *)
LEMMA CollectingCovers ==
  ASSUME RateInv, NEW r \in Handlers, asking[r] # NotAsking, NEW k \in Keys, NEW gc,
         gc = IF asking[r].now - lastGC > GCEvery THEN asking[r].now ELSE lastGC
  PROVE  LET b == Collected(asking[r].now)[k]
         IN  /\ b = NoBucket => Idled(k, gc)
             /\ b # NoBucket => b = buckets[k]
             /\ b \in [tokens : Int, lastSeen : Int]
<1> USE RateAssumption, ExcessIsNat
<1> DEFINE now == asking[r].now
           b == Collected(now)[k]
<1>1. /\ now \in Nat /\ now <= clock /\ clock - now <= Skew
      /\ clock \in Nat /\ since \in Nat /\ lastGC \in Nat /\ admitted[k] \in Nat
      /\ clock < since => admitted[k] = 0
  BY Asking DEF RateInv, RateTypeOK
<1>2. b = IF Idle(now, k) THEN NoBucket ELSE buckets[k]
  BY DEF Collected
<1>3. b \in [tokens : Int, lastSeen : Int]
  BY <1>2 DEF RateInv, RateTypeOK, NoBucket
<1>4. gc \in Nat /\ gc >= lastGC
  BY <1>1
<1>5. CASE buckets[k] # NoBucket /\ Idle(now, k)
  <2>1. BucketCovered(k)
    BY DEF RateInv
  <2>2. buckets[k].lastSeen \in Nat /\ buckets[k].tokens \in Int
    BY <1>5, <2>1 DEF BucketCovered
  <2>3. PICK last \in Nat, held \in Int : last = buckets[k].lastSeen /\ held = buckets[k].tokens
    BY <2>2
  <2>4. held \in Int /\ last \in Nat /\ held >= -Skew
    BY <1>5, <2>1, <2>3 DEF BucketCovered, Trails
  <2>5. now - last >= IdleAfter + 1 /\ gc = now /\ gc >= lastGC + GCEvery + 1
    BY <1>1, <1>5, <2>4, <2>3 DEF Idle
  <2>6. CASE admitted[k] = 0
    BY <1>2, <1>3, <1>5, <2>6 DEF Idled
  <2>7. CASE admitted[k] # 0
    <3>1. PICK n \in Nat :
            /\ DropsPlaced(n, last + Skew, lastGC)
            /\ admitted[k] + held <= Burst + Skew + (last - since) + Gifts(n)
      BY <1>5, <2>1, <2>7, <2>3 DEF BucketCovered
    <3>2. clock >= since
      BY <1>1, <2>7
    <3>3. n > 0 => /\ IdleTimes(n) <= (last + Skew) - since
                   /\ Rounds(n) <= lastGC + Skew - since
                   /\ n - 1 <= lastGC + Skew - since
      BY <3>1, Zenon DEF DropsPlaced
    <3>4. /\ IdleTimes(n) \in Int /\ Rounds(n) \in Int /\ Gifts(n) \in Nat
          /\ IdleTimes(n + 1) = IdleTimes(n) + (IdleAfter + 1 - Skew)
          /\ Rounds(n + 1) = Rounds(n) + (GCEvery + 1)
          /\ Gifts(n + 1) = Gifts(n) + Excess
      BY DropTimes
    <3>5. IdleTimes(n + 1) <= clock - since /\ Rounds(n + 1) <= gc + Skew - since
      <4>1. CASE n = 0
        BY <1>1, <1>4, <2>5, <3>2, <4>1, FirstDrop
      <4>2. CASE n > 0
        BY <1>1, <1>4, <2>4, <2>5, <3>3, <3>4, <4>2
      <4>3. QED BY <4>1, <4>2
    <3>6. n <= gc + Skew - since
      BY <1>1, <1>4, <2>5, <3>2, <3>3
    <3>7. DropsPlaced(n + 1, clock, gc)
      BY <3>5, <3>6 DEF DropsPlaced
    <3>8. admitted[k] <= clock - since + Gifts(n + 1)
      BY <1>1, <2>4, <2>5, <3>1, <3>4
    <3>9. Idled(k, gc)
      BY <3>8, <3>7 DEF Idled
    <3>10. Collected(asking[r].now)[k] = NoBucket
      BY <1>2, <1>5
    <3>11. QED
      BY <1>3, <3>9, <3>10
  <2>8. QED BY <2>6, <2>7
<1>6. CASE buckets[k] = NoBucket
  <2>1. Idled(k, lastGC)
    BY <1>6 DEF RateInv, KeyCovered
  <2>2. Idled(k, gc)
    <3>1. CASE admitted[k] = 0
      BY <3>1 DEF Idled
    <3>2. CASE admitted[k] # 0
      <4>1. PICK n \in Nat : /\ DropsPlaced(n, clock, lastGC)
                             /\ admitted[k] <= clock - since + Gifts(n)
        BY <2>1, <3>2 DEF Idled
      <4>2. DropsPlaced(n, clock, gc)
        <5>1. clock \in Int /\ clock >= clock /\ clock \in Nat /\ since \in Nat /\ lastGC \in Nat
          BY <1>1
        <5> QED BY <1>4, <4>1, <5>1, DropsStayPlaced
      <4>3. QED
        BY <4>1, <4>2 DEF Idled
    <3>3. QED BY <3>1, <3>2
  <2>3. b = NoBucket
    BY <1>2, <1>6
  <2>4. QED
    BY <1>3, <2>2, <2>3
<1>7. CASE buckets[k] # NoBucket /\ ~Idle(now, k)
  BY <1>2, <1>3, <1>7
<1>8. QED
  BY <1>5, <1>6, <1>7

(* The bucket of the request's key after the refill.                       *)
LEMMA RefillCovers ==
  ASSUME RateInv, NEW r \in Handlers, asking[r] # NotAsking,
         NEW k \in Keys, k = asking[r].key, NEW e,
         e = BucketOf(Collected(asking[r].now)[k], asking[r].now), NEW gc,
         gc = IF asking[r].now - lastGC > GCEvery THEN asking[r].now ELSE lastGC
  PROVE  LET now == asking[r].now
             t == Refilled(e, now)
         IN  /\ t \in Int /\ t <= Burst
             /\ \E m \in Nat : Trails([tokens |-> t, lastSeen |-> now], m)
             /\ admitted[k] = 0 \/ \E n \in Nat :
                   /\ DropsPlaced(n, now + Skew, gc)
                   /\ admitted[k] + t <= Burst + Skew + (now - since) + Gifts(n)
<1> USE RateAssumption, ExcessIsNat
<1> DEFINE now == asking[r].now
           b == Collected(now)[k]
           t == Refilled(e, now)
<1>1. /\ now \in Nat /\ now <= clock /\ clock - now <= Skew
      /\ clock \in Nat /\ since \in Nat /\ admitted[k] \in Nat
      /\ lastGC \in Nat /\ gc \in Nat /\ gc >= lastGC
  BY Asking DEF RateInv, RateTypeOK
<1>2. CASE b = NoBucket
  <2>1. e = [tokens |-> Burst, lastSeen |-> now]
    BY <1>2 DEF BucketOf
  <2>2. t = Burst
    BY <1>1, <2>1 DEF Refilled, minFloat
  <2>3. Trails([tokens |-> t, lastSeen |-> now], now)
    BY <1>1, <2>2 DEF Trails
  <2>4. Idled(k, gc)
    BY <1>2, CollectingCovers
  <2>5. ASSUME admitted[k] # 0
        PROVE  \E n \in Nat : /\ DropsPlaced(n, now + Skew, gc)
                              /\ admitted[k] + t <= Burst + Skew + (now - since) + Gifts(n)
    <3>1. PICK n \in Nat : DropsPlaced(n, clock, gc) /\ admitted[k] <= clock - since + Gifts(n)
      BY <2>4, <2>5 DEF Idled
    <3>2. DropsPlaced(n, now + Skew, gc)
      <4>1. PICK later \in Int : later = now + Skew /\ later >= clock
        BY <1>1
      <4>2. DropsPlaced(n, later, gc)
        <5>1. IdleTimes(n) \in Int /\ Rounds(n) \in Int
          BY DropTimes
        <5>2. QED
          BY <1>1, <3>1, <4>1, <5>1 DEF DropsPlaced
      <4>3. QED
        BY <4>1, <4>2
    <3>3. Gifts(n) \in Nat
      BY DropTimes
    <3>4. admitted[k] + t <= Burst + Skew + (now - since) + Gifts(n)
      BY <1>1, <2>2, <3>1, <3>3
    <3>5. QED
      BY <3>2, <3>4
  <2>6. QED
    BY <1>1, <2>2, <2>3, <2>5
<1>3. CASE b # NoBucket
  <2>1. e = buckets[k] /\ buckets[k] # NoBucket
    BY <1>3, CollectingCovers DEF BucketOf
  <2>2. BucketCovered(k)
    BY DEF RateInv
  <2>3. PICK m \in Nat : Trails(buckets[k], m)
    BY <2>1, <2>2 DEF BucketCovered
  <2>4. t = IF Burst < buckets[k].tokens + (now - buckets[k].lastSeen) THEN Burst
            ELSE buckets[k].tokens + (now - buckets[k].lastSeen)
    BY <2>1 DEF Refilled, minFloat
  <2>5. buckets[k].lastSeen \in Nat /\ buckets[k].tokens \in Int
    BY <2>1, <2>2 DEF BucketCovered
  <2>6. t \in Int /\ t <= Burst
    BY <1>1, <2>4, <2>5
  <2>7. \E n \in Nat : Trails([tokens |-> t, lastSeen |-> now], n)
    <3>1. CASE now > m
      <4>1. Trails([tokens |-> t, lastSeen |-> now], now)
        BY <1>1, <2>3, <2>4, <2>5, <3>1 DEF Trails
      <4>2. QED BY <1>1, <4>1
    <3>2. CASE now <= m
      <4>1. Trails([tokens |-> t, lastSeen |-> now], m)
        BY <1>1, <2>3, <2>4, <2>5, <3>2 DEF Trails
      <4>2. QED BY <4>1
    <3>3. QED BY <1>1, <3>1, <3>2
  <2>8. ASSUME admitted[k] # 0
        PROVE  \E n \in Nat : /\ DropsPlaced(n, now + Skew, gc)
                              /\ admitted[k] + t <= Burst + Skew + (now - since) + Gifts(n)
    <3> DEFINE last == buckets[k].lastSeen
    <3>1. PICK n \in Nat :
            /\ DropsPlaced(n, last + Skew, lastGC)
            /\ admitted[k] + buckets[k].tokens <= Burst + Skew + (last - since) + Gifts(n)
      BY <2>1, <2>2, <2>8 DEF BucketCovered
    <3>2. Gifts(n) \in Nat
      BY DropTimes
    <3>3. admitted[k] + t <= Burst + Skew + (now - since) + Gifts(n)
      BY <1>1, <2>4, <2>5, <3>1, <3>2
    <3>4. DropsPlaced(n, clock, lastGC)
      BY <3>1 DEF DropsPlaced
    <3>5. DropsPlaced(n, now + Skew, gc)
      <4>1. PICK later \in Int : later = now + Skew /\ later >= clock
        BY <1>1
      <4>2. DropsPlaced(n, later, gc)
        <5>1. IdleTimes(n) \in Int /\ Rounds(n) \in Int
          BY DropTimes
        <5>2. QED
          BY <1>1, <3>4, <4>1, <5>1 DEF DropsPlaced
      <4>3. QED
        BY <4>1, <4>2
    <3>6. QED
      BY <3>3, <3>5
  <2>9. QED
    BY <2>6, <2>7, <2>8
<1>4. QED
  BY <1>2, <1>3

LEMMA AllowKeepsInv ==
  ASSUME RateInv, NEW r \in Handlers, allow(r)
  PROVE  RateInv'
<1> USE RateAssumption, ExcessIsNat
<1>1. asking[r] # NotAsking
  BY DEF allow
<1>2. PICK key \in Keys : key = asking[r].key
  BY <1>1, Asking
<1> DEFINE now == asking[r].now
           t == Refilled(BucketOf(Collected(now)[key], now), now)
           taken == IF t < Cost THEN 0 ELSE Cost
<1>3. /\ now \in Nat /\ key \in Keys /\ now <= clock /\ clock - now <= Skew
      /\ clock \in Nat /\ since \in Nat /\ lastGC \in Nat /\ admitted \in [Keys -> Nat]
  BY <1>2, <1>1, Asking DEF RateInv, RateTypeOK
<1>4. /\ buckets' = [Collected(now) EXCEPT ![key] = [tokens |-> t - taken, lastSeen |-> now]]
      /\ admitted' = [admitted EXCEPT ![key] = IF clock < since THEN @ ELSE @ + taken]
      /\ asking' = [asking EXCEPT ![r] = NotAsking]
      /\ lastGC' = IF now - lastGC > GCEvery THEN now ELSE lastGC
      /\ clock' = clock /\ since' = since
  BY <1>2 DEF allow
<1>5. /\ t \in Int /\ t <= Burst
      /\ \E m \in Nat : Trails([tokens |-> t, lastSeen |-> now], m)
      /\ admitted[key] = 0 \/ \E n \in Nat :
            /\ DropsPlaced(n, now + Skew, lastGC')
            /\ admitted[key] + t <= Burst + Skew + (now - since) + Gifts(n)
  BY <1>2, <1>1, <1>3, <1>4, RefillCovers
<1>6. taken \in Nat /\ (taken = 0 \/ (taken = Cost /\ t >= Cost))
  BY <1>5
<1> HIDE DEF t, taken
<1>7. Collected(now) \in [Keys -> [tokens : Int, lastSeen : Int]]
  BY DEF Collected, RateInv, RateTypeOK, NoBucket
<1>8. RateTypeOK'
  <2>1. [tokens |-> t - taken, lastSeen |-> now] \in [tokens : Int, lastSeen : Int]
    BY <1>3, <1>5, <1>6
  <2>2. buckets' \in [Keys -> [tokens : Int, lastSeen : Int]]
    BY <1>3, <1>4, <1>7, <2>1
  <2>3. admitted' \in [Keys -> Nat]
    BY <1>3, <1>4, <1>6
  <2>4. asking' \in [Handlers -> {NotAsking} \cup [now : Nat, key : Keys]]
    BY <1>4 DEF RateInv, RateTypeOK
  <2>5. QED
    BY <1>3, <1>4, <2>2, <2>3, <2>4 DEF RateTypeOK
<1>9. lastGC' \in Nat /\ lastGC' >= lastGC /\ lastGC' <= clock
  BY <1>3, <1>4 DEF RateInv
<1>10. AskedRecently'
  BY <1>4 DEF RateInv, RateTypeOK, AskedRecently
<1>11. (clock < since)' => \A j \in Keys : admitted'[j] = 0
  BY <1>3, <1>4 DEF RateInv
<1>12. ASSUME NEW j \in Keys, j # key
       PROVE  BucketCovered(j)' /\ KeyCovered(j)'
  <2>1. buckets'[j] = Collected(now)[j] /\ admitted'[j] = admitted[j]
    BY <1>3, <1>4, <1>7, <1>12
  <2>2. /\ buckets'[j] = NoBucket => Idled(j, lastGC')
        /\ buckets'[j] # NoBucket => buckets'[j] = buckets[j]
    BY <1>1, <1>4, <2>1, CollectingCovers
  <2>3. BucketCovered(j)
    BY DEF RateInv
  <2>4. BucketCovered(j)'
    <3> SUFFICES ASSUME buckets'[j] # NoBucket PROVE BucketCovered(j)'
      BY DEF BucketCovered, NoBucket
    <3>1. buckets'[j] = buckets[j] /\ buckets[j] # NoBucket
      BY <2>2
    <3>2. /\ buckets'[j].lastSeen \in Nat /\ buckets'[j].tokens \in Int
          /\ buckets'[j].tokens <= Burst
          /\ \E m \in Nat : Trails(buckets[j], m)'
      BY <1>4, <2>3, <3>1 DEF BucketCovered, Trails
    <3>3. CASE admitted[j] = 0
      BY <2>1, <3>2, <3>3 DEF BucketCovered
    <3>4. CASE admitted[j] # 0
      <4>1. PICK n \in Nat :
              /\ DropsPlaced(n, buckets[j].lastSeen + Skew, lastGC)
              /\ admitted[j] + buckets[j].tokens
                   <= Burst + Skew + (buckets[j].lastSeen - since) + Gifts(n)
        BY <2>3, <3>1, <3>4 DEF BucketCovered
      <4>2. buckets[j].lastSeen + Skew \in Int
        BY <3>1, <3>2
      <4>3. DropsPlaced(n, buckets[j].lastSeen + Skew, lastGC')
        <5>1. clock \in Nat /\ since \in Nat /\ lastGC \in Nat
          BY <1>3
        <5>2. PICK at \in Int, gc \in Nat : at = buckets[j].lastSeen + Skew /\ gc = lastGC'
          BY <1>9, <4>2
        <5>3. DropsPlaced(n, at, lastGC) /\ at >= at /\ gc >= lastGC
          BY <1>9, <4>1, <5>2
        <5>4. DropsPlaced(n, at, gc)
          BY <5>1, <5>3, DropsStayPlaced
        <5> QED BY <5>2, <5>4
      <4>4. DropsPlaced(n, buckets[j].lastSeen + Skew, lastGC)'
        BY <1>4, <3>1, <4>3 DEF DropsPlaced
      <4>5. QED
        BY <1>4, <2>1, <3>1, <3>2, <4>1, <4>4 DEF BucketCovered
    <3>5. QED BY <3>3, <3>4
  <2>5. KeyCovered(j)'
    <3> SUFFICES ASSUME buckets'[j] = NoBucket PROVE Idled(j, lastGC)'
      BY DEF KeyCovered, NoBucket
    <3>1. Idled(j, lastGC')
      BY <2>2
    <3>2. QED
      BY <1>4, <2>1, <3>1 DEF Idled, DropsPlaced
  <2>6. QED BY <2>4, <2>5
<1>13. /\ BucketCovered(key)' /\ KeyCovered(key)'
       /\ clock >= since =>
            \E n \in 0 .. clock - since + Skew + 1 :
                /\ CanBeDropped(n, clock - since)
                /\ admitted'[key] <= Burst + Skew + (clock - since) + Gifts(n)
  <2> DEFINE nb == [tokens |-> t - taken, lastSeen |-> now]
  <2>1. buckets'[key] = nb
    BY <1>3, <1>4, <1>7
  <2>2. nb # NoBucket
    BY <1>3 DEF NoBucket
  <2>3. \E m \in Nat : Trails(nb, m)
    <3>1. PICK m \in Nat : Trails([tokens |-> t, lastSeen |-> now], m)
      BY <1>5
    <3>2. Trails(nb, m)
      BY <1>3, <1>5, <1>6, <3>1 DEF Trails
    <3>3. QED BY <3>2
  <2>4. admitted'[key] = IF clock < since THEN admitted[key] ELSE admitted[key] + taken
    BY <1>3, <1>4
  <2>5. admitted'[key] = 0 \/ \E n \in Nat :
            /\ DropsPlaced(n, now + Skew, lastGC')
            /\ admitted'[key] + nb.tokens <= Burst + Skew + (now - since) + Gifts(n)
    <3>1. CASE clock < since
      BY <1>3, <2>4, <3>1 DEF RateInv
    <3>2. CASE clock >= since /\ admitted[key] = 0
      <4>1. DropsPlaced(0, now + Skew, lastGC')
        BY DEF DropsPlaced
      <4>2. admitted'[key] + nb.tokens <= Burst + Skew + (now - since) + Gifts(0)
        BY <1>3, <1>5, <1>6, <2>4, <3>2, FirstDrop
      <4>3. QED BY <4>1, <4>2
    <3>3. CASE clock >= since /\ admitted[key] # 0
      <4>1. PICK n \in Nat :
              /\ DropsPlaced(n, now + Skew, lastGC')
              /\ admitted[key] + t <= Burst + Skew + (now - since) + Gifts(n)
        BY <1>5, <3>3
      <4>2. admitted'[key] + nb.tokens <= Burst + Skew + (now - since) + Gifts(n)
        BY <1>3, <1>5, <1>6, <2>4, <3>3, <4>1
      <4>3. QED BY <4>1, <4>2
    <3>4. QED BY <1>3, <3>1, <3>2, <3>3
  <2>6. ASSUME clock >= since
        PROVE  \E n \in 0 .. clock - since + Skew + 1 :
                  /\ CanBeDropped(n, clock - since)
                  /\ admitted'[key] <= Burst + Skew + (clock - since) + Gifts(n)
    <3>1. CASE taken = 0
      BY <1>3, <2>4, <2>6, <3>1 DEF RateInv, NeverOverspent, Gifts
    <3>2. CASE taken = Cost /\ t >= Cost
      <4>1. PICK n \in Nat :
              /\ DropsPlaced(n, now + Skew, lastGC')
              /\ admitted'[key] + nb.tokens <= Burst + Skew + (now - since) + Gifts(n)
        BY <1>3, <2>4, <2>5, <2>6, <3>2
      <4>2. Gifts(n) \in Nat /\ nb.tokens \in Int /\ nb.tokens >= 0
        BY <1>5, <3>2, DropTimes
      <4>3. admitted'[key] <= Burst + Skew + (clock - since) + Gifts(n)
        BY <1>3, <1>6, <2>4, <4>1, <4>2
      <4>4. n \in 0 .. clock - since + Skew + 1 /\ CanBeDropped(n, clock - since)
        <5>1. now + Skew \in Int
          BY <1>3
        <5>2. DropsPlaced(n, now + Skew, lastGC')
          BY <4>1
        <5>3. IdleTimes(n) \in Int /\ Rounds(n) \in Int
          BY DropTimes
        <5>4. n \in 0 .. clock - since + Skew + 1
          BY <1>3, <1>9, <2>6, <5>2 DEF DropsPlaced
        <5>5. n > 0 => IdleTimes(n) <= clock - since /\ Rounds(n) <= clock - since + Skew
          BY <1>3, <1>9, <2>6, <5>2, <5>3 DEF DropsPlaced
        <5>6. QED
          BY <5>4, <5>5 DEF CanBeDropped, IdleTimes, Rounds
      <4>5. QED BY <4>3, <4>4
    <3>3. QED BY <1>6, <3>1, <3>2
  <2>7. nb.tokens \in Int /\ nb.tokens <= Burst /\ nb.lastSeen \in Nat
    BY <1>3, <1>5, <1>6
  <2>8. BucketCovered(key)'
    <3>1. \E m \in Nat : Trails(buckets[key], m)'
      BY <1>4, <2>1, <2>3 DEF Trails
    <3>2. admitted'[key] = 0 \/ \E n \in Nat :
            /\ DropsPlaced(n, buckets[key].lastSeen + Skew, lastGC)'
            /\ admitted'[key] + buckets'[key].tokens
                 <= Burst + Skew + (buckets'[key].lastSeen - since') + Gifts(n)
      BY <1>4, <2>1, <2>5 DEF DropsPlaced
    <3>3. QED
      BY <2>1, <2>7, <3>1, <3>2 DEF BucketCovered
  <2>9. KeyCovered(key)'
    BY <2>1, <2>2 DEF KeyCovered, NoBucket
  <2>10. QED BY <2>6, <2>8, <2>9
<1>14. NeverOverspent'
  <2>1. ASSUME NEW j \in Keys, j # key, clock >= since
        PROVE  \E n \in 0 .. clock - since + Skew + 1 :
                  /\ CanBeDropped(n, clock - since)
                  /\ admitted'[j] <= Burst + Skew + (clock - since) + Gifts(n)
    BY <1>3, <1>4, <2>1 DEF RateInv, NeverOverspent, Gifts
  <2>2. QED
    BY <1>4, <1>13, <2>1 DEF NeverOverspent, CanBeDropped, Gifts
<1>15. QED
  BY <1>4, <1>8, <1>10, <1>11, <1>12, <1>13, <1>14, <1>9 DEF RateInv

(* Every step keeps the invariant.                                         *)
LEMMA StepKeepsRateInv == RateInv /\ [RateNext]_rateVars => RateInv'
<1> SUFFICES ASSUME RateInv, [RateNext]_rateVars PROVE RateInv'
  OBVIOUS
<1>1. CASE Tick
  BY <1>1, TickKeepsInv
<1>2. ASSUME NEW r \in Handlers, allow(r) PROVE RateInv'
  BY <1>2, AllowKeepsInv
<1>3. ASSUME NEW r \in Handlers, NEW k \in Keys, Arrive(r, k) PROVE RateInv'
  BY <1>3, AskKeepsInv
<1>4. CASE UNCHANGED rateVars
  BY <1>4 DEF rateVars, RateInv, RateTypeOK, AskedRecently, BucketCovered, KeyCovered, Trails,
              Idled, DropsPlaced, NeverOverspent, CanBeDropped
<1>5. QED
  BY <1>1, <1>2, <1>3, <1>4 DEF RateNext

(* The types of the rate limiter's state.                                  *)
THEOREM RateTypeCorrect == RateSpec => []RateTypeOK
<1>1. RateInv => RateTypeOK
  BY DEF RateInv
<1>2. QED
  BY <1>1, InitRateInv, StepKeepsRateInv, PTL DEF RateSpec

(* allow (middleware_limits.go): whatever order requests reach the lock in, *)
(* and whatever the burst, the rate and the idle time, no period grants a   *)
(* key more than a full bucket, what the period and the longest wait earn,  *)
(* and the excess of each drop of its bucket that the period has room for.  *)
THEOREM RateLimited == RateSpec => []NeverOverspent
<1>1. RateInv => NeverOverspent
  BY DEF RateInv
<1>2. QED
  BY <1>1, InitRateInv, StepKeepsRateInv, PTL DEF RateSpec

-----------------------------------------------------------------------------
(***************************************************************************)
(* The statistics: nothing a cache holds outlives it.                      *)
(*                                                                         *)
(* The server's answers and the store's values are fresh for at most both  *)
(* lifetimes after the last thing that happened, so a calm request, which  *)
(* starts later than that and meets no other one, finds nothing to use,    *)
(* and counts what the collection holds while it does not change.          *)
(***************************************************************************)
Stages == {"total", "scanning", "counting", "counted", "answered", "stale", "refused"}
AnAsk == [at : Stages, filter : Filters \cup {All}, calm : BOOLEAN,
          left : SUBSET Kinds, found : SUBSET Kinds]
AnEntry == [kinds : SUBSET Kinds, expiresAt : Int]
StatsTyped ==
    /\ time \in Nat /\ stirred \in Nat \cup {-1}
    /\ stock \in [Kinds -> Stocked]
    /\ fields \in AnEntry /\ aggregate \in AnEntry
    /\ statsCache \in [Filters \cup {All} -> AnEntry]
    /\ asks \in [StatsCalls -> {NoAsk} \cup AnAsk]

\* What holds of everything that is kept, in the store and in the server.
OfEveryEntry(P(_)) == P(fields) /\ P(aggregate) /\ \A f \in Filters \cup {All} : P(statsCache[f])

\* No entry is fresh for longer than both lifetimes from now; and when no
\* request is under way, from the last time anything happened.
Bounded(e) == e.expiresAt <= time + FieldTTL + AnswerTTL
Past(e) == e # NoEntry => stirred # -1 /\ e.expiresAt <= stirred + FieldTTL + AnswerTTL
LifetimesBounded == OfEveryEntry(Bounded)
NothingUnderWay == \A c \in StatsCalls : asks[c] = NoAsk
PastWhenQuiet == NothingUnderWay => OfEveryEntry(Past)

\* A calm request is on its own, finds nothing it may use, and counts what is there.
Stale(e) == ~Fresh(e)
CalmAsk(c) == asks[c] # NoAsk /\ asks[c].calm
CalmAlone == \A c, d \in StatsCalls : CalmAsk(c) /\ d # c => asks[d] = NoAsk
CalmFindsNothing ==
    \A c \in StatsCalls : CalmAsk(c) /\ asks[c].at = "total" => OfEveryEntry(Stale)
CalmCounts ==
    \A c \in StatsCalls : CalmAsk(c) =>
        /\ asks[c].at \in {"total", "scanning"} => asks[c].found = {}
        /\ asks[c].at = "counting" =>
              /\ asks[c].found \subseteq Matching(asks[c].filter)
              /\ Matching(asks[c].filter) \subseteq asks[c].found \cup asks[c].left
        /\ asks[c].at \in {"counted", "answered"} => asks[c].found = Matching(asks[c].filter)

StatsInv ==
    /\ StatsTyped /\ LifetimesBounded /\ PastWhenQuiet
    /\ CalmAlone /\ CalmFindsNothing /\ CalmCounts

LEMMA AnAskUnderWay ==
    ASSUME StatsTyped, NEW c \in StatsCalls, asks[c] # NoAsk
    PROVE  asks[c] \in AnAsk
BY DEF StatsTyped

LEMMA AtIsUnderWay ==
    ASSUME StatsTyped, NEW c \in StatsCalls, asks[c].at # "none"
    PROVE  asks[c] # NoAsk /\ asks[c] \in AnAsk
BY DEF StatsTyped, NoAsk

LEMMA StirTyped == StatsTyped => Stir(StatsCalls) \in [StatsCalls -> {NoAsk} \cup AnAsk]
BY DEF StatsTyped, Stir, AnAsk

LEMMA KeptForTyped ==
    ASSUME StatsTyped, NEW kinds \in SUBSET Kinds, NEW ttl \in Nat
    PROVE  KeptFor(kinds, ttl) \in AnEntry
BY DEF StatsTyped, KeptFor, AnEntry

LEMMA MatchingKinds == \A f : Matching(f) \in SUBSET Kinds
BY DEF Matching

LEMMA StatsTypedStep ==
    StatsTyped /\ [StatsNext]_statsVars => StatsTyped'
<1> SUFFICES ASSUME StatsTyped, [StatsNext]_statsVars
             PROVE  StatsTyped'
  OBVIOUS
<1>1. ASSUME NEW c \in StatsCalls, NEW filter \in Filters \cup {All}, handleMemoryStats(c, filter)
      PROVE  StatsTyped'
  <2>1. statsCache[filter].kinds \in SUBSET Kinds
    BY DEF StatsTyped, AnEntry
  <2>2. [at |-> IF Fresh(statsCache[filter]) THEN "answered" ELSE "total",
         filter |-> filter, calm |-> Calm, left |-> {},
         found |-> IF Fresh(statsCache[filter]) THEN statsCache[filter].kinds ELSE {}] \in AnAsk
    BY <2>1 DEF AnAsk, Stages, Calm
  <2> QED BY <1>1, <2>2, StirTyped DEF handleMemoryStats, StatsTyped
<1>2. ASSUME NEW c \in StatsCalls, Total(c) PROVE StatsTyped'
  <2>1. asks[c] \in AnAsk
    BY <1>2, AtIsUnderWay DEF Total
  <2>2. fields.kinds \in SUBSET Kinds /\ aggregate.kinds \in SUBSET Kinds
    BY DEF StatsTyped, AnEntry
  <2>3. asks'[c] \in AnAsk
    BY <1>2, <2>1, <2>2 DEF Total, AnAsk, Stages, StatsTyped
  <2> QED BY <1>2, <2>3 DEF Total, StatsTyped
<1>3. ASSUME NEW c \in StatsCalls, sampleUnfilteredAggregation(c) PROVE StatsTyped'
  <2>1. asks[c] \in AnAsk
    BY <1>3, AtIsUnderWay DEF sampleUnfilteredAggregation
  <2>2. asks'[c] \in AnAsk
    BY <1>3, <2>1, MatchingKinds DEF sampleUnfilteredAggregation, AnAsk, Stages, StatsTyped
  <2>3. aggregate' \in AnEntry
    BY <1>3, KeptForTyped, MatchingKinds, StatsAssumption DEF sampleUnfilteredAggregation
  <2> QED BY <1>3, <2>2, <2>3 DEF sampleUnfilteredAggregation, StatsTyped
<1>4. ASSUME NEW c \in StatsCalls, distinctFieldValues(c) PROVE StatsTyped'
  <2>1. asks[c] \in AnAsk
    BY <1>4, AtIsUnderWay DEF distinctFieldValues
  <2>2. asks'[c] \in AnAsk
    BY <1>4, <2>1, MatchingKinds DEF distinctFieldValues, AnAsk, Stages, StatsTyped
  <2>3. fields' \in AnEntry
    BY <1>4, KeptForTyped, MatchingKinds, StatsAssumption DEF distinctFieldValues
  <2> QED BY <1>4, <2>2, <2>3 DEF distinctFieldValues, StatsTyped
<1>5. ASSUME NEW c \in StatsCalls, NEW k \in Kinds, CountKind(c, k) PROVE StatsTyped'
  <2>1. asks[c] \in AnAsk
    BY <1>5, AtIsUnderWay DEF CountKind
  <2>2. asks'[c] \in AnAsk
    BY <1>5, <2>1, MatchingKinds DEF CountKind, AnAsk, Stages, StatsTyped
  <2> QED BY <1>5, <2>2 DEF CountKind, StatsTyped
<1>6. ASSUME NEW c \in StatsCalls, Counted(c) PROVE StatsTyped'
  <2>1. asks[c] \in AnAsk
    BY <1>6, AtIsUnderWay DEF Counted
  <2>2. asks'[c] \in AnAsk /\ asks[c].found \in SUBSET Kinds
    BY <1>6, <2>1 DEF Counted, AnAsk, Stages, StatsTyped
  <2>3. fields' \in AnEntry
    BY <1>6, <2>2, KeptForTyped, StatsAssumption DEF Counted, rememberDistinctFieldValues, StatsTyped
  <2> QED BY <1>6, <2>2, <2>3 DEF Counted, StatsTyped
<1>7. ASSUME NEW c \in StatsCalls, Respond(c) PROVE StatsTyped'
  <2>1. asks[c] \in AnAsk
    BY <1>7, AtIsUnderWay DEF Respond
  <2>2. asks'[c] \in AnAsk /\ asks[c].found \in SUBSET Kinds
    BY <1>7, <2>1 DEF Respond, Ended, AnAsk, Stages, StatsTyped
  <2>3. KeptFor(asks[c].found, AnswerTTL) \in AnEntry
    BY <2>2, KeptForTyped, StatsAssumption
  <2> QED BY <1>7, <2>2, <2>3 DEF Respond, Ended, StatsTyped
<1>8. ASSUME NEW c \in StatsCalls, QdrantFails(c) PROVE StatsTyped'
  <2>1. asks[c] \in AnAsk
    BY <1>8, AtIsUnderWay DEF QdrantFails
  <2>2. statsCache[asks[c].filter].kinds \in SUBSET Kinds
    BY <2>1 DEF StatsTyped, AnAsk, AnEntry
  <2>3. /\ [asks[c] EXCEPT !.at = "counted", !.found = {}, !.calm = FALSE] \in AnAsk
        /\ [asks[c] EXCEPT !.at = "stale", !.found = statsCache[asks[c].filter].kinds,
                           !.calm = FALSE] \in AnAsk
        /\ [asks[c] EXCEPT !.at = "refused", !.calm = FALSE] \in AnAsk
    BY <2>1, <2>2 DEF AnAsk, Stages
  <2>4. asks' \in [StatsCalls -> {NoAsk} \cup AnAsk]
    BY <1>8, <2>3, StirTyped DEF QdrantFails
  <2> QED BY <1>8, <2>4 DEF QdrantFails, StatsTyped
<1>9. ASSUME NEW c \in StatsCalls, Leave(c) PROVE StatsTyped'
  BY <1>9 DEF Leave, StatsTyped
<1>10. CASE Restock
  BY <1>10, StirTyped DEF Restock, StatsTyped
<1>11. CASE Pass
  BY <1>11 DEF Pass, StatsTyped
<1>12. CASE UNCHANGED statsVars
  BY <1>12 DEF statsVars, StatsTyped
<1> QED
  BY <1>1, <1>2, <1>3, <1>4, <1>5, <1>6, <1>7, <1>8, <1>9, <1>10, <1>11, <1>12
  DEF StatsNext

LEMMA LifetimeOfKept ==
    ASSUME StatsTyped, NEW kinds, NEW ttl \in {FieldTTL, AnswerTTL}
    PROVE  Bounded(KeptFor(kinds, ttl))
BY StatsAssumption DEF StatsTyped, KeptFor, Bounded

LEMMA BoundedLater ==
    ASSUME StatsTyped, NEW e \in AnEntry, Bounded(e), NEW now \in Nat, time <= now
    PROVE  e.expiresAt <= now + FieldTTL + AnswerTTL
BY StatsAssumption DEF StatsTyped, Bounded, AnEntry

LEMMA LifetimesStep ==
    StatsTyped /\ LifetimesBounded /\ [StatsNext]_statsVars => LifetimesBounded'
<1> SUFFICES ASSUME StatsTyped, LifetimesBounded, [StatsNext]_statsVars
             PROVE  LifetimesBounded'
  OBVIOUS
<1>1. ASSUME NEW c \in StatsCalls, NEW filter \in Filters \cup {All}, handleMemoryStats(c, filter)
      PROVE  LifetimesBounded'
  BY <1>1 DEF handleMemoryStats, LifetimesBounded, OfEveryEntry, Bounded
<1>2. ASSUME NEW c \in StatsCalls, Total(c) PROVE LifetimesBounded'
  BY <1>2 DEF Total, LifetimesBounded, OfEveryEntry, Bounded
<1>3. ASSUME NEW c \in StatsCalls, sampleUnfilteredAggregation(c) PROVE LifetimesBounded'
  <2>1. Bounded(aggregate')
    BY <1>3, LifetimeOfKept DEF sampleUnfilteredAggregation
  <2> QED BY <1>3, <2>1 DEF sampleUnfilteredAggregation, LifetimesBounded, OfEveryEntry, Bounded
<1>4. ASSUME NEW c \in StatsCalls, distinctFieldValues(c) PROVE LifetimesBounded'
  <2>1. Bounded(fields')
    BY <1>4, LifetimeOfKept DEF distinctFieldValues
  <2> QED BY <1>4, <2>1 DEF distinctFieldValues, LifetimesBounded, OfEveryEntry, Bounded
<1>5. ASSUME NEW c \in StatsCalls, NEW k \in Kinds, CountKind(c, k) PROVE LifetimesBounded'
  BY <1>5 DEF CountKind, LifetimesBounded, OfEveryEntry, Bounded
<1>6. ASSUME NEW c \in StatsCalls, Counted(c) PROVE LifetimesBounded'
  <2>1. Bounded(fields')
    BY <1>6, LifetimeOfKept DEF Counted, rememberDistinctFieldValues, LifetimesBounded, OfEveryEntry
  <2> QED BY <1>6, <2>1 DEF Counted, LifetimesBounded, OfEveryEntry, Bounded
<1>7. ASSUME NEW c \in StatsCalls, Respond(c) PROVE LifetimesBounded'
  <2>1. Bounded(KeptFor(asks[c].found, AnswerTTL))
    BY LifetimeOfKept
  <2>2. \A f \in Filters \cup {All} : Bounded(statsCache'[f])
    BY <1>7, <2>1 DEF Respond, StatsTyped, LifetimesBounded, OfEveryEntry
  <2> QED BY <1>7, <2>2 DEF Respond, LifetimesBounded, OfEveryEntry, Bounded
<1>8. ASSUME NEW c \in StatsCalls, QdrantFails(c) PROVE LifetimesBounded'
  BY <1>8 DEF QdrantFails, LifetimesBounded, OfEveryEntry, Bounded
<1>9. ASSUME NEW c \in StatsCalls, Leave(c) PROVE LifetimesBounded'
  BY <1>9 DEF Leave, LifetimesBounded, OfEveryEntry, Bounded
<1>10. CASE Restock
  BY <1>10 DEF Restock, LifetimesBounded, OfEveryEntry, Bounded
<1>11. CASE Pass
  <2>1. time' \in Nat /\ time <= time'
    BY <1>11 DEF Pass, StatsTyped
  <2> QED BY <1>11, <2>1, BoundedLater DEF Pass, StatsTyped, LifetimesBounded, OfEveryEntry, Bounded
<1>12. CASE UNCHANGED statsVars
  BY <1>12 DEF statsVars, LifetimesBounded, OfEveryEntry, Bounded
<1> QED
  BY <1>1, <1>2, <1>3, <1>4, <1>5, <1>6, <1>7, <1>8, <1>9, <1>10, <1>11, <1>12
  DEF StatsNext

LEMMA PastStep ==
    StatsTyped /\ LifetimesBounded /\ PastWhenQuiet /\ [StatsNext]_statsVars => PastWhenQuiet'
<1> SUFFICES ASSUME StatsTyped, LifetimesBounded, PastWhenQuiet, [StatsNext]_statsVars
             PROVE  PastWhenQuiet'
  OBVIOUS
<1>1. ASSUME NEW c \in StatsCalls, NEW filter \in Filters \cup {All}, handleMemoryStats(c, filter)
      PROVE  PastWhenQuiet'
  <2>1. asks'[c].at # "none"
    BY <1>1, StirTyped DEF handleMemoryStats
  <2> QED BY <2>1 DEF PastWhenQuiet, NothingUnderWay, NoAsk
<1>2. ASSUME NEW c \in StatsCalls, Total(c) PROVE PastWhenQuiet'
  <2>1. asks'[c].at # "none"
    BY <1>2, AtIsUnderWay DEF Total, AnAsk, Stages, StatsTyped
  <2> QED BY <2>1 DEF PastWhenQuiet, NothingUnderWay, NoAsk
<1>3. ASSUME NEW c \in StatsCalls, sampleUnfilteredAggregation(c) PROVE PastWhenQuiet'
  <2>1. asks'[c].at # "none"
    BY <1>3, AtIsUnderWay DEF sampleUnfilteredAggregation, AnAsk, Stages, StatsTyped
  <2> QED BY <2>1 DEF PastWhenQuiet, NothingUnderWay, NoAsk
<1>4. ASSUME NEW c \in StatsCalls, distinctFieldValues(c) PROVE PastWhenQuiet'
  <2>1. asks'[c].at # "none"
    BY <1>4, AtIsUnderWay DEF distinctFieldValues, AnAsk, Stages, StatsTyped
  <2> QED BY <2>1 DEF PastWhenQuiet, NothingUnderWay, NoAsk
<1>5. ASSUME NEW c \in StatsCalls, NEW k \in Kinds, CountKind(c, k) PROVE PastWhenQuiet'
  <2>1. asks'[c].at # "none"
    BY <1>5, AtIsUnderWay DEF CountKind, AnAsk, Stages, StatsTyped
  <2> QED BY <2>1 DEF PastWhenQuiet, NothingUnderWay, NoAsk
<1>6. ASSUME NEW c \in StatsCalls, Counted(c) PROVE PastWhenQuiet'
  <2>1. asks'[c].at # "none"
    BY <1>6, AtIsUnderWay DEF Counted, AnAsk, Stages, StatsTyped
  <2> QED BY <2>1 DEF PastWhenQuiet, NothingUnderWay, NoAsk
<1>7. ASSUME NEW c \in StatsCalls, Respond(c) PROVE PastWhenQuiet'
  <2>1. asks'[c].at # "none"
    BY <1>7, AtIsUnderWay DEF Respond, Ended, AnAsk, Stages, StatsTyped
  <2> QED BY <2>1 DEF PastWhenQuiet, NothingUnderWay, NoAsk
<1>8. ASSUME NEW c \in StatsCalls, QdrantFails(c) PROVE PastWhenQuiet'
  <2>1. asks'[c].at # "none"
    BY <1>8, AtIsUnderWay, StirTyped DEF QdrantFails, AnAsk, Stages
  <2> QED BY <2>1 DEF PastWhenQuiet, NothingUnderWay, NoAsk
<1>9. ASSUME NEW c \in StatsCalls, Leave(c) PROVE PastWhenQuiet'
  <2>1. stirred' = time /\ UNCHANGED <<fields, aggregate, statsCache>>
    BY <1>9 DEF Leave
  <2>2. \A e : Bounded(e) => Past(e)'
    BY <2>1 DEF StatsTyped, Bounded, Past
  <2> QED BY <2>1, <2>2 DEF PastWhenQuiet, LifetimesBounded, OfEveryEntry, Past
<1>10. CASE Restock
  <2>1. stirred' = time /\ UNCHANGED <<fields, aggregate, statsCache>>
    BY <1>10 DEF Restock
  <2>2. \A e : Bounded(e) => Past(e)'
    BY <2>1 DEF StatsTyped, Bounded, Past
  <2> QED BY <2>1, <2>2 DEF PastWhenQuiet, LifetimesBounded, OfEveryEntry, Past
<1>11. CASE Pass
  BY <1>11 DEF Pass, PastWhenQuiet, NothingUnderWay, OfEveryEntry, Past
<1>12. CASE UNCHANGED statsVars
  BY <1>12 DEF statsVars, PastWhenQuiet, NothingUnderWay, OfEveryEntry, Past
<1> QED
  BY <1>1, <1>2, <1>3, <1>4, <1>5, <1>6, <1>7, <1>8, <1>9, <1>10, <1>11, <1>12
  DEF StatsNext

LEMMA StirNotCalm ==
    ASSUME StatsTyped, NEW d \in StatsCalls, Stir(StatsCalls)[d] # NoAsk
    PROVE  ~Stir(StatsCalls)[d].calm
BY DEF StatsTyped, Stir, AnAsk

LEMMA CalmAloneStep ==
    StatsTyped /\ CalmAlone /\ [StatsNext]_statsVars => CalmAlone'
<1> SUFFICES ASSUME StatsTyped, CalmAlone, [StatsNext]_statsVars
             PROVE  CalmAlone'
  OBVIOUS
<1>1. ASSUME NEW c \in StatsCalls, NEW filter \in Filters \cup {All}, handleMemoryStats(c, filter)
      PROVE  CalmAlone'
  <2>1. \A d \in StatsCalls : d # c => asks'[d] = Stir(StatsCalls)[d]
    BY <1>1 DEF handleMemoryStats
  <2>2. \A d \in StatsCalls : d # c => ~CalmAsk(d)'
    BY <2>1, StirNotCalm DEF CalmAsk
  <2>3. ASSUME CalmAsk(c)', NEW d \in StatsCalls, d # c PROVE asks'[d] = NoAsk
    <3>1. Calm
      BY <1>1, <2>3, StirTyped DEF handleMemoryStats, CalmAsk
    <3> QED BY <2>1, <2>3, <3>1 DEF Calm, Stir
  <2> QED BY <2>2, <2>3 DEF CalmAlone
<1>2. ASSUME NEW c \in StatsCalls, Total(c) PROVE CalmAlone'
  <2>1. asks[c] \in AnAsk /\ asks[c] # NoAsk
    BY <1>2, AtIsUnderWay DEF Total
  <2>2. asks'[c].calm = asks[c].calm /\ \A d \in StatsCalls : d # c => asks'[d] = asks[d]
    BY <1>2, <2>1 DEF Total, AnAsk, StatsTyped
  <2> QED BY <2>1, <2>2 DEF CalmAlone, CalmAsk
<1>3. ASSUME NEW c \in StatsCalls, sampleUnfilteredAggregation(c) PROVE CalmAlone'
  <2>1. asks[c] \in AnAsk /\ asks[c] # NoAsk
    BY <1>3, AtIsUnderWay DEF sampleUnfilteredAggregation
  <2>2. asks'[c].calm = asks[c].calm /\ \A d \in StatsCalls : d # c => asks'[d] = asks[d]
    BY <1>3, <2>1 DEF sampleUnfilteredAggregation, AnAsk, StatsTyped
  <2> QED BY <2>1, <2>2 DEF CalmAlone, CalmAsk
<1>4. ASSUME NEW c \in StatsCalls, distinctFieldValues(c) PROVE CalmAlone'
  <2>1. asks[c] \in AnAsk /\ asks[c] # NoAsk
    BY <1>4, AtIsUnderWay DEF distinctFieldValues
  <2>2. asks'[c].calm = asks[c].calm /\ \A d \in StatsCalls : d # c => asks'[d] = asks[d]
    BY <1>4, <2>1 DEF distinctFieldValues, AnAsk, StatsTyped
  <2> QED BY <2>1, <2>2 DEF CalmAlone, CalmAsk
<1>5. ASSUME NEW c \in StatsCalls, NEW k \in Kinds, CountKind(c, k) PROVE CalmAlone'
  <2>1. asks[c] \in AnAsk /\ asks[c] # NoAsk
    BY <1>5, AtIsUnderWay DEF CountKind
  <2>2. asks'[c].calm = asks[c].calm /\ \A d \in StatsCalls : d # c => asks'[d] = asks[d]
    BY <1>5, <2>1 DEF CountKind, AnAsk, StatsTyped
  <2> QED BY <2>1, <2>2 DEF CalmAlone, CalmAsk
<1>6. ASSUME NEW c \in StatsCalls, Counted(c) PROVE CalmAlone'
  <2>1. asks[c] \in AnAsk /\ asks[c] # NoAsk
    BY <1>6, AtIsUnderWay DEF Counted
  <2>2. asks'[c].calm = asks[c].calm /\ \A d \in StatsCalls : d # c => asks'[d] = asks[d]
    BY <1>6, <2>1 DEF Counted, AnAsk, StatsTyped
  <2> QED BY <2>1, <2>2 DEF CalmAlone, CalmAsk
<1>7. ASSUME NEW c \in StatsCalls, Respond(c) PROVE CalmAlone'
  <2>1. asks[c] \in AnAsk /\ asks[c] # NoAsk
    BY <1>7, AtIsUnderWay DEF Respond, Ended
  <2>2. asks'[c].calm = asks[c].calm /\ \A d \in StatsCalls : d # c => asks'[d] = asks[d]
    BY <1>7, <2>1 DEF Respond, Ended, AnAsk, StatsTyped
  <2> QED BY <2>1, <2>2 DEF CalmAlone, CalmAsk
<1>8. ASSUME NEW c \in StatsCalls, QdrantFails(c) PROVE CalmAlone'
  <2>1. asks[c] \in AnAsk
    BY <1>8, AtIsUnderWay DEF QdrantFails
  <2>2. ~asks'[c].calm /\ \A d \in StatsCalls : d # c => asks'[d] = Stir(StatsCalls)[d]
    BY <1>8, <2>1 DEF QdrantFails, Stir, AnAsk
  <2> QED BY <2>2, StirNotCalm DEF CalmAlone, CalmAsk
<1>9. ASSUME NEW c \in StatsCalls, Leave(c) PROVE CalmAlone'
  BY <1>9 DEF Leave, CalmAlone, CalmAsk, StatsTyped
<1>10. CASE Restock
  BY <1>10, StirNotCalm DEF Restock, CalmAlone, CalmAsk
<1>11. CASE Pass
  BY <1>11 DEF Pass, CalmAlone, CalmAsk
<1>12. CASE UNCHANGED statsVars
  BY <1>12 DEF statsVars, CalmAlone, CalmAsk
<1> QED
  BY <1>1, <1>2, <1>3, <1>4, <1>5, <1>6, <1>7, <1>8, <1>9, <1>10, <1>11, <1>12
  DEF StatsNext

LEMMA CalmFindsNothingStep ==
    StatsTyped /\ PastWhenQuiet /\ CalmAlone /\ CalmFindsNothing /\ [StatsNext]_statsVars => CalmFindsNothing'
<1> SUFFICES ASSUME StatsTyped, PastWhenQuiet, CalmAlone, CalmFindsNothing, [StatsNext]_statsVars
             PROVE  CalmFindsNothing'
  OBVIOUS
<1>1. ASSUME NEW c \in StatsCalls, NEW filter \in Filters \cup {All}, handleMemoryStats(c, filter)
      PROVE  CalmFindsNothing'
  <2>1. SUFFICES ASSUME NEW d \in StatsCalls, CalmAsk(d)' PROVE OfEveryEntry(Stale)'
    BY DEF CalmFindsNothing
  <2>2. d = c
    BY <1>1, <2>1, StirNotCalm DEF handleMemoryStats, CalmAsk
  <2>3. Calm
    BY <1>1, <2>1, <2>2, StirTyped DEF handleMemoryStats, CalmAsk
  <2>4. OfEveryEntry(Past) /\ (stirred = -1 \/ time > stirred + FieldTTL + AnswerTTL)
    BY <2>3 DEF Calm, PastWhenQuiet, NothingUnderWay
  <2>5. ASSUME NEW e \in AnEntry, Past(e) PROVE Stale(e)
    BY <2>4, <2>5, StatsAssumption DEF Past, Stale, Fresh, StatsTyped, AnEntry
  <2>6. OfEveryEntry(Stale)
    BY <2>4, <2>5 DEF OfEveryEntry, StatsTyped
  <2> QED BY <1>1, <2>6 DEF handleMemoryStats, OfEveryEntry, Stale, Fresh
<1>2. ASSUME NEW c \in StatsCalls, Total(c) PROVE CalmFindsNothing'
  <2>1. asks[c] # NoAsk /\ asks'[c].at # "total"
    BY <1>2, AtIsUnderWay DEF Total, AnAsk, Stages, StatsTyped
  <2>2. \A d \in StatsCalls : d # c => asks'[d] = asks[d]
    BY <1>2 DEF Total, StatsTyped
  <2>3. \A d \in StatsCalls : d # c => ~CalmAsk(d)
    BY <2>1 DEF CalmAlone
  <2> QED BY <2>1, <2>2, <2>3 DEF CalmFindsNothing, CalmAsk
<1>3. ASSUME NEW c \in StatsCalls, sampleUnfilteredAggregation(c) PROVE CalmFindsNothing'
  <2>1. asks[c] # NoAsk /\ asks'[c].at # "total"
    BY <1>3, AtIsUnderWay DEF sampleUnfilteredAggregation, AnAsk, Stages, StatsTyped
  <2>2. \A d \in StatsCalls : d # c => asks'[d] = asks[d]
    BY <1>3 DEF sampleUnfilteredAggregation, StatsTyped
  <2>3. \A d \in StatsCalls : d # c => ~CalmAsk(d)
    BY <2>1 DEF CalmAlone
  <2> QED BY <2>1, <2>2, <2>3 DEF CalmFindsNothing, CalmAsk
<1>4. ASSUME NEW c \in StatsCalls, distinctFieldValues(c) PROVE CalmFindsNothing'
  <2>1. asks[c] # NoAsk /\ asks'[c].at # "total"
    BY <1>4, AtIsUnderWay DEF distinctFieldValues, AnAsk, Stages, StatsTyped
  <2>2. \A d \in StatsCalls : d # c => asks'[d] = asks[d]
    BY <1>4 DEF distinctFieldValues, StatsTyped
  <2>3. \A d \in StatsCalls : d # c => ~CalmAsk(d)
    BY <2>1 DEF CalmAlone
  <2> QED BY <2>1, <2>2, <2>3 DEF CalmFindsNothing, CalmAsk
<1>5. ASSUME NEW c \in StatsCalls, NEW k \in Kinds, CountKind(c, k) PROVE CalmFindsNothing'
  <2>1. asks[c] # NoAsk /\ asks'[c].at # "total"
    BY <1>5, AtIsUnderWay DEF CountKind, AnAsk, Stages, StatsTyped
  <2>2. \A d \in StatsCalls : d # c => asks'[d] = asks[d]
    BY <1>5 DEF CountKind, StatsTyped
  <2>3. \A d \in StatsCalls : d # c => ~CalmAsk(d)
    BY <2>1 DEF CalmAlone
  <2> QED BY <2>1, <2>2, <2>3 DEF CalmFindsNothing, CalmAsk
<1>6. ASSUME NEW c \in StatsCalls, Counted(c) PROVE CalmFindsNothing'
  <2>1. asks[c] # NoAsk /\ asks'[c].at # "total"
    BY <1>6, AtIsUnderWay DEF Counted, AnAsk, Stages, StatsTyped
  <2>2. \A d \in StatsCalls : d # c => asks'[d] = asks[d]
    BY <1>6 DEF Counted, StatsTyped
  <2>3. \A d \in StatsCalls : d # c => ~CalmAsk(d)
    BY <2>1 DEF CalmAlone
  <2> QED BY <2>1, <2>2, <2>3 DEF CalmFindsNothing, CalmAsk
<1>7. ASSUME NEW c \in StatsCalls, Respond(c) PROVE CalmFindsNothing'
  <2>1. asks[c] # NoAsk /\ asks'[c].at # "total"
    BY <1>7, AtIsUnderWay DEF Respond, Ended, AnAsk, Stages, StatsTyped
  <2>2. \A d \in StatsCalls : d # c => asks'[d] = asks[d]
    BY <1>7 DEF Respond, Ended, StatsTyped
  <2>3. \A d \in StatsCalls : d # c => ~CalmAsk(d)
    BY <2>1 DEF CalmAlone
  <2> QED BY <2>1, <2>2, <2>3 DEF CalmFindsNothing, CalmAsk
<1>8. ASSUME NEW c \in StatsCalls, QdrantFails(c) PROVE CalmFindsNothing'
  <2>1. asks[c] \in AnAsk
    BY <1>8, AtIsUnderWay DEF QdrantFails
  <2>2. ~asks'[c].calm /\ \A d \in StatsCalls : d # c => asks'[d] = Stir(StatsCalls)[d]
    BY <1>8, <2>1 DEF QdrantFails, Stir, AnAsk
  <2> QED BY <2>2, StirNotCalm DEF CalmFindsNothing, CalmAsk
<1>9. ASSUME NEW c \in StatsCalls, Leave(c) PROVE CalmFindsNothing'
  BY <1>9 DEF Leave, StatsTyped, CalmFindsNothing, CalmAsk, OfEveryEntry, Stale, Fresh
<1>10. CASE Restock
  BY <1>10, StirNotCalm DEF Restock, CalmFindsNothing, CalmAsk
<1>11. CASE Pass
  <2>1. ASSUME NEW e \in AnEntry, Stale(e) PROVE Stale(e)'
    BY <1>11, <2>1 DEF Pass, Stale, Fresh, StatsTyped, AnEntry
  <2> QED BY <1>11, <2>1 DEF Pass, CalmFindsNothing, CalmAsk, OfEveryEntry, StatsTyped, Stale, Fresh
<1>12. CASE UNCHANGED statsVars
  BY <1>12 DEF statsVars, CalmFindsNothing, CalmAsk, OfEveryEntry, Stale, Fresh
<1> QED
  BY <1>1, <1>2, <1>3, <1>4, <1>5, <1>6, <1>7, <1>8, <1>9, <1>10, <1>11, <1>12
  DEF StatsNext

LEMMA CalmCountsStep ==
    StatsTyped /\ PastWhenQuiet /\ CalmAlone /\ CalmFindsNothing /\ CalmCounts /\ [StatsNext]_statsVars => CalmCounts'
<1> SUFFICES ASSUME StatsTyped, PastWhenQuiet, CalmAlone, CalmFindsNothing, CalmCounts, [StatsNext]_statsVars
             PROVE  CalmCounts'
  OBVIOUS
<1>1. ASSUME NEW c \in StatsCalls, NEW filter \in Filters \cup {All}, handleMemoryStats(c, filter)
      PROVE  CalmCounts'
  <2>1. SUFFICES ASSUME NEW d \in StatsCalls, CalmAsk(d)'
                 PROVE  asks'[d].at = "total" /\ asks'[d].found = {}
    BY DEF CalmCounts
  <2>2. d = c
    BY <1>1, <2>1, StirNotCalm DEF handleMemoryStats, CalmAsk
  <2>3. Calm
    BY <1>1, <2>1, <2>2, StirTyped DEF handleMemoryStats, CalmAsk
  <2>4. OfEveryEntry(Past) /\ (stirred = -1 \/ time > stirred + FieldTTL + AnswerTTL)
    BY <2>3 DEF Calm, PastWhenQuiet, NothingUnderWay
  <2>5. statsCache[filter] \in AnEntry /\ Past(statsCache[filter])
    BY <2>4 DEF OfEveryEntry, StatsTyped
  <2>6. ~Fresh(statsCache[filter])
    BY <2>4, <2>5, StatsAssumption DEF Past, Fresh, StatsTyped, AnEntry
  <2> QED BY <1>1, <2>2, <2>6, StirTyped DEF handleMemoryStats
<1>2. ASSUME NEW c \in StatsCalls, Total(c) PROVE CalmCounts'
  <2>1. asks[c] \in AnAsk /\ asks[c] # NoAsk
    BY <1>2, AtIsUnderWay DEF Total
  <2>2. \A d \in StatsCalls : d # c => asks'[d] = asks[d] /\ ~CalmAsk(d)
    BY <1>2, <2>1 DEF Total, StatsTyped, CalmAlone
  <2>3. asks'[c].calm = asks[c].calm /\ asks'[c].filter = asks[c].filter /\ UNCHANGED stock
    BY <1>2, <2>1 DEF Total, AnAsk, StatsTyped
  <2>4. CalmAsk(c) => asks'[c].at = "scanning" /\ asks'[c].found = {}
    <3>1. CalmAsk(c) => OfEveryEntry(Stale) /\ asks[c].found = {}
      BY <1>2 DEF Total, CalmFindsNothing, CalmCounts
    <3> QED BY <1>2, <2>1, <3>1 DEF Total, OfEveryEntry, Stale, AnAsk, StatsTyped
  <2>5. CalmAsk(c)' => CalmAsk(c)
    BY <2>1, <2>3 DEF CalmAsk
  <2>6. ~(CalmAsk(c)' /\ asks'[c].at \in {"counting", "counted", "answered"})
    BY <2>4, <2>5
  <2> QED BY <2>2, <2>4, <2>5, <2>6 DEF CalmCounts, CalmAsk
<1>3. ASSUME NEW c \in StatsCalls, sampleUnfilteredAggregation(c) PROVE CalmCounts'
  <2>1. asks[c] \in AnAsk /\ asks[c] # NoAsk
    BY <1>3, AtIsUnderWay DEF sampleUnfilteredAggregation
  <2>2. \A d \in StatsCalls : d # c => asks'[d] = asks[d] /\ ~CalmAsk(d)
    BY <1>3, <2>1 DEF sampleUnfilteredAggregation, StatsTyped, CalmAlone
  <2>3. asks'[c].calm = asks[c].calm /\ asks'[c].filter = asks[c].filter /\ UNCHANGED stock
    BY <1>3, <2>1 DEF sampleUnfilteredAggregation, AnAsk, StatsTyped
  <2>4. asks'[c].at = "counted" /\ asks'[c].found = Matching(asks[c].filter)
    BY <1>3, <2>1 DEF sampleUnfilteredAggregation, AnAsk, StatsTyped
  <2> QED BY <2>2, <2>3, <2>4 DEF CalmCounts, CalmAsk, Matching
<1>4. ASSUME NEW c \in StatsCalls, distinctFieldValues(c) PROVE CalmCounts'
  <2>1. asks[c] \in AnAsk /\ asks[c] # NoAsk
    BY <1>4, AtIsUnderWay DEF distinctFieldValues
  <2>2. \A d \in StatsCalls : d # c => asks'[d] = asks[d] /\ ~CalmAsk(d)
    BY <1>4, <2>1 DEF distinctFieldValues, StatsTyped, CalmAlone
  <2>3. asks'[c].calm = asks[c].calm /\ asks'[c].filter = asks[c].filter /\ UNCHANGED stock
    BY <1>4, <2>1 DEF distinctFieldValues, AnAsk, StatsTyped
  <2>4. /\ asks'[c].at = "counting" /\ asks'[c].found = asks[c].found
        /\ asks'[c].left = Matching(All)
    BY <1>4, <2>1 DEF distinctFieldValues, AnAsk, StatsTyped
  <2>5. CalmAsk(c) => asks[c].found = {}
    BY <1>4 DEF distinctFieldValues, CalmCounts
  <2>6. Matching(asks[c].filter) \subseteq Matching(All)
    BY <2>1 DEF Matching, StatsTyped, Stocked, AnAsk
  <2> QED BY <2>1, <2>2, <2>3, <2>4, <2>5, <2>6 DEF CalmCounts, CalmAsk, Matching
<1>5. ASSUME NEW c \in StatsCalls, NEW k \in Kinds, CountKind(c, k) PROVE CalmCounts'
  <2>1. asks[c] \in AnAsk /\ asks[c] # NoAsk
    BY <1>5, AtIsUnderWay DEF CountKind
  <2>2. \A d \in StatsCalls : d # c => asks'[d] = asks[d] /\ ~CalmAsk(d)
    BY <1>5, <2>1 DEF CountKind, StatsTyped, CalmAlone
  <2>3. asks'[c].calm = asks[c].calm /\ asks'[c].filter = asks[c].filter /\ UNCHANGED stock
    BY <1>5, <2>1 DEF CountKind, AnAsk, StatsTyped
  <2> DEFINE f == asks[c].filter
  <2>4. /\ asks'[c].at = "counting" /\ asks'[c].left = asks[c].left \ {k}
        /\ asks'[c].found = IF k \in Matching(f) THEN asks[c].found \cup {k} ELSE asks[c].found
    BY <1>5, <2>1 DEF CountKind, AnAsk, StatsTyped
  <2>5. CalmAsk(c) => asks[c].found \subseteq Matching(f)
                       /\ Matching(f) \subseteq asks[c].found \cup asks[c].left
    BY <1>5 DEF CountKind, CalmCounts
  <2>6. CalmAsk(c)' => CalmAsk(c)
    BY <2>1, <2>3 DEF CalmAsk
  <2>7. CalmAsk(c)' => asks'[c].found \subseteq Matching(f)
                        /\ Matching(f) \subseteq asks'[c].found \cup asks'[c].left
    BY <2>4, <2>5, <2>6
  <2> QED BY <2>2, <2>3, <2>4, <2>7 DEF CalmCounts, CalmAsk, Matching
<1>6. ASSUME NEW c \in StatsCalls, Counted(c) PROVE CalmCounts'
  <2>1. asks[c] \in AnAsk /\ asks[c] # NoAsk
    BY <1>6, AtIsUnderWay DEF Counted
  <2>2. \A d \in StatsCalls : d # c => asks'[d] = asks[d] /\ ~CalmAsk(d)
    BY <1>6, <2>1 DEF Counted, StatsTyped, CalmAlone
  <2>3. asks'[c].calm = asks[c].calm /\ asks'[c].filter = asks[c].filter /\ UNCHANGED stock
    BY <1>6, <2>1 DEF Counted, AnAsk, StatsTyped
  <2>4. asks'[c].at = "counted" /\ asks'[c].found = asks[c].found
    BY <1>6, <2>1 DEF Counted, AnAsk, StatsTyped
  <2>5. CalmAsk(c) => asks[c].found = Matching(asks[c].filter)
    BY <1>6 DEF Counted, CalmCounts
  <2> QED BY <2>1, <2>2, <2>3, <2>4, <2>5 DEF CalmCounts, CalmAsk, Matching
<1>7. ASSUME NEW c \in StatsCalls, Respond(c) PROVE CalmCounts'
  <2>1. asks[c] \in AnAsk /\ asks[c] # NoAsk
    BY <1>7, AtIsUnderWay DEF Respond, Ended
  <2>2. \A d \in StatsCalls : d # c => asks'[d] = asks[d] /\ ~CalmAsk(d)
    BY <1>7, <2>1 DEF Respond, Ended, StatsTyped, CalmAlone
  <2>3. asks'[c].calm = asks[c].calm /\ asks'[c].filter = asks[c].filter /\ UNCHANGED stock
    BY <1>7, <2>1 DEF Respond, Ended, AnAsk, StatsTyped
  <2>4. asks'[c].at = "answered" /\ asks'[c].found = asks[c].found
    BY <1>7, <2>1 DEF Respond, Ended, AnAsk, StatsTyped
  <2>5. CalmAsk(c) => asks[c].found = Matching(asks[c].filter)
    BY <1>7 DEF Respond, CalmCounts
  <2> QED BY <2>1, <2>2, <2>3, <2>4, <2>5 DEF CalmCounts, CalmAsk, Matching
<1>8. ASSUME NEW c \in StatsCalls, QdrantFails(c) PROVE CalmCounts'
  <2>1. asks[c] \in AnAsk
    BY <1>8, AtIsUnderWay DEF QdrantFails
  <2>2. ~asks'[c].calm /\ \A d \in StatsCalls : d # c => asks'[d] = Stir(StatsCalls)[d]
    BY <1>8, <2>1 DEF QdrantFails, Stir, AnAsk
  <2> QED BY <2>2, StirNotCalm DEF CalmCounts, CalmAsk
<1>9. ASSUME NEW c \in StatsCalls, Leave(c) PROVE CalmCounts'
  BY <1>9 DEF Leave, StatsTyped, CalmCounts, CalmAsk, Matching
<1>10. CASE Restock
  BY <1>10, StirNotCalm DEF Restock, CalmCounts, CalmAsk
<1>11. CASE Pass
  BY <1>11 DEF Pass, CalmCounts, CalmAsk, Matching
<1>12. CASE UNCHANGED statsVars
  BY <1>12 DEF statsVars, CalmCounts, CalmAsk, Matching
<1> QED
  BY <1>1, <1>2, <1>3, <1>4, <1>5, <1>6, <1>7, <1>8, <1>9, <1>10, <1>11, <1>12
  DEF StatsNext

LEMMA StatsInitInv == StatsInit => StatsInv
<1> SUFFICES ASSUME StatsInit PROVE StatsInv
  OBVIOUS
<1>1. NoEntry \in AnEntry /\ Bounded(NoEntry) /\ Past(NoEntry)
  BY StatsAssumption DEF StatsInit, NoEntry, AnEntry, Bounded, Past
<1>2. StatsTyped /\ LifetimesBounded /\ PastWhenQuiet
  BY <1>1, StatsAssumption DEF StatsInit, StatsTyped, LifetimesBounded, PastWhenQuiet, OfEveryEntry
<1>3. \A c \in StatsCalls : ~CalmAsk(c)
  BY DEF StatsInit, CalmAsk
<1> QED BY <1>2, <1>3 DEF StatsInv, CalmAlone, CalmFindsNothing, CalmCounts

\* The statistics settle, for any lifetimes and any number of requests: a calm
\* request is answered with what the collection holds.
THEOREM StatisticsSettle == StatsSpec => []StatsSettle
<1>1. StatsInit => StatsInv
  BY StatsInitInv
<1>2. StatsInv /\ [StatsNext]_statsVars => StatsInv'
  BY StatsTypedStep, LifetimesStep, PastStep, CalmAloneStep, CalmFindsNothingStep, CalmCountsStep
  DEF StatsInv
<1>3. StatsInv => StatsSettle
  BY DEF StatsInv, CalmCounts, CalmAsk, StatsSettle
<1> QED BY <1>1, <1>2, <1>3, PTL DEF StatsSpec

-----------------------------------------------------------------------------
(***************************************************************************)
(* Chat sessions: what a turn has written stays.                           *)
(*                                                                         *)
(* In a calm session turns come one after the other, and the copy of the   *)
(* state the next of them is going to read counts all that were answered:  *)
(* the one in Redis if there is one, and else the one in the process, if   *)
(* it has had it.  So the next number is new, and no point of an answered  *)
(* turn is written again.                                                  *)
(***************************************************************************)
Counts == Nat \cup {NoState}
Answering == [at : {"answering"}, session : Sessions, signal : BOOLEAN, serial : Nat]
Numbered == [at : {"numbered", "stored"}, session : Sessions, signal : BOOLEAN, serial : Nat,
             number : Nat \ {0}]

ChatTyped ==
    /\ redis \in [Sessions -> Counts] /\ local \in [Sessions -> Counts]
    /\ turns \in [Requests -> {NoTurn} \cup Answering \cup Numbered]
    /\ asked \in Nat
    /\ \A c \in completed : c.session \in Sessions
    /\ \A c \in completed : \A id \in c.ids : id[1] = Safe[c.session] /\ id[2] \in Nat
    /\ calm \subseteq Sessions

\* In a calm session one thing happens at a time: a turn, or its deletion.
TurnIn(t, s) == turns[t] # NoTurn /\ turns[t].session = s
OneAtATime ==
    /\ \A s \in calm : \A t \in Requests : TurnIn(t, s) => s \notin deleting
    /\ \A s \in calm : \A t, u \in Requests : TurnIn(t, s) /\ TurnIn(u, s) => u = t

\* Whatever copy of the state is going to be read counts the turn numbered n.
CountsTurn(s, n) ==
    /\ 0 < n
    /\ redis[s] # NoState => n <= redis[s]
    /\ s \in seen => n <= local[s]
    /\ redis[s] # NoState \/ s \in seen
StateCounts ==
    \A c \in completed : c.session \in calm /\ c.session \notin deleting =>
        \A id \in c.ids : CountsTurn(c.session, id[2])
HasNumber(t) == turns[t] # NoTurn /\ turns[t].at \in {"numbered", "stored"}
NumberIsNew ==
    \A t \in Requests : \A c \in completed :
        HasNumber(t) /\ turns[t].session \in calm /\ c.session = turns[t].session =>
            \A id \in c.ids : id[2] < turns[t].number

\* The points of a turn of a session on its own are there, under its name.
Holds(ids, session, serial) ==
    \A id \in ids : id \in DOMAIN points /\ points[id].serial = serial /\ points[id].session = session
PointsOf(t) == TurnIDs(turns[t].session, turns[t].number, turns[t].signal)
CompletedKept ==
    \A c \in completed : c.session \in calm /\ Alone(c.session) =>
        Holds(c.ids, c.session, c.serial)
StoredKept ==
    \A t \in Requests :
        turns[t] # NoTurn /\ turns[t].at = "stored"
          /\ turns[t].session \in calm /\ Alone(turns[t].session) =>
        Holds(PointsOf(t), turns[t].session, turns[t].serial)

ChatInv ==
    /\ ChatTyped /\ OneAtATime /\ StateCounts /\ NumberIsNew /\ CompletedKept /\ StoredKept

LEMMA ATurn ==
    ASSUME ChatTyped, NEW t \in Requests, turns[t] # NoTurn
    PROVE  /\ turns[t].session \in Sessions /\ turns[t].signal \in BOOLEAN /\ turns[t].serial \in Nat
           /\ turns[t].at = "answering" => turns[t] \in Answering
           /\ turns[t].at # "answering" => turns[t] \in Numbered /\ turns[t].number \in Nat \ {0}
           /\ turns[t].at \in {"answering", "numbered", "stored"}
<1>1. turns[t] \in Answering \/ turns[t] \in Numbered
  BY DEF ChatTyped
<1>2. CASE turns[t] \in Answering
  BY <1>2 DEF Answering
<1>3. CASE turns[t] \in Numbered
  BY <1>3 DEF Numbered
<1> QED BY <1>1, <1>2, <1>3

LEMMA ATurnID ==
    ASSUME NEW s, NEW n, NEW signal, NEW id \in TurnIDs(s, n, signal)
    PROVE  id[1] = Safe[s] /\ id[2] = n
BY DEF TurnIDs

LEMMA KnownCount ==
    ASSUME ChatTyped, NEW s \in Sessions, NEW answers \in BOOLEAN
    PROVE  Known(s, answers) \in Counts /\ NextNumber(Known(s, answers)) \in Nat \ {0}
<1>1. Known(s, answers) \in Counts
  BY DEF ChatTyped, Known
<1>2. \A k \in Counts : NextNumber(k) \in Nat \ {0}
  BY DEF NextNumber, Counts, NoState
<1> QED BY <1>1, <1>2

LEMMA ChatTypedStep == ChatTyped /\ [ChatNext]_chatVars => ChatTyped'
<1> SUFFICES ASSUME ChatTyped, [ChatNext]_chatVars PROVE ChatTyped'
  OBVIOUS
<1>0. NoState \in Counts /\ 0 \in Counts /\ \A n \in Nat \ {0} : n \in Counts
  BY DEF Counts
<1>1. ASSUME NEW t \in Requests, NEW s \in Sessions, NEW signal \in BOOLEAN, Ask(t, s, signal)
      PROVE  ChatTyped'
  <2>1. asked' \in Nat
    BY <1>1 DEF Ask, ChatTyped
  <2>2. [at |-> "answering", session |-> s, signal |-> signal, serial |-> asked'] \in Answering
    BY <2>1 DEF Answering
  <2> QED BY <1>1, <2>1, <2>2 DEF Ask, ChatTyped
<1>2. ASSUME NEW t \in Requests, GiveUp(t) PROVE ChatTyped'
  BY <1>2 DEF GiveUp, ChatTyped
<1>3. ASSUME NEW t \in Requests, UpsertTurn(t) PROVE ChatTyped'
  <2>1. turns[t] \in Numbered
    BY <1>3, ATurn DEF UpsertTurn
  <2>2. [turns[t] EXCEPT !.at = "stored"] \in Numbered
    BY <2>1 DEF Numbered
  <2> QED BY <1>3, <2>2 DEF UpsertTurn, ChatTyped
<1>4. ASSUME NEW t \in Requests, NEW answers \in BOOLEAN, ReadState(t, answers) PROVE ChatTyped'
  <2> DEFINE s == turns[t].session
  <2>1. s \in Sessions /\ turns[t].signal \in BOOLEAN /\ turns[t].serial \in Nat
    BY <1>4, ATurn DEF ReadState
  <2>2. Known(s, answers) \in Counts /\ NextNumber(Known(s, answers)) \in Nat \ {0}
    BY <2>1, KnownCount
  <2>3. [at |-> "numbered", session |-> s, serial |-> turns[t].serial, signal |-> turns[t].signal,
         number |-> NextNumber(Known(s, answers))] \in Numbered
    BY <2>1, <2>2 DEF Numbered
  <2>4. turns' \in [Requests -> {NoTurn} \cup Answering \cup Numbered]
    BY <1>4, <2>3 DEF ReadState, ChatTyped
  <2> QED BY <1>4, <2>1, <2>2, <2>4 DEF ReadState, getSessionState, ChatTyped
<1>5. ASSUME NEW t \in Requests, NEW answers \in BOOLEAN, SaveState(t, answers) PROVE ChatTyped'
  <2> DEFINE s == turns[t].session
             ids == TurnIDs(s, turns[t].number, turns[t].signal)
             c == [session |-> s, serial |-> turns[t].serial, ids |-> ids]
  <2>1. s \in Sessions /\ turns[t].number \in Nat \ {0}
    BY <1>5, ATurn DEF SaveState
  <2>2. c.session = s /\ \A id \in c.ids : id[1] = Safe[s] /\ id[2] \in Nat
    BY <2>1, ATurnID
  <2>3. completed' = completed \cup {c}
    BY <1>5 DEF SaveState
  <2>4. /\ \A d \in completed' : d.session \in Sessions
        /\ \A d \in completed' : \A id \in d.ids : id[1] = Safe[d.session] /\ id[2] \in Nat
    BY <2>1, <2>2, <2>3 DEF ChatTyped
  <2>5. redis' \in [Sessions -> Counts] /\ local' \in [Sessions -> Counts]
    BY <1>0, <1>5, <2>1 DEF SaveState, setSessionState, ChatTyped
  <2> QED BY <1>5, <2>4, <2>5 DEF SaveState, ChatTyped
<1>6. ASSUME NEW s \in Sessions, LoadSession(s) PROVE ChatTyped'
  BY <1>6, KnownCount DEF LoadSession, getSessionState, ChatTyped
<1>7. ASSUME NEW s \in Sessions, DeletePoints(s) PROVE ChatTyped'
  BY <1>7 DEF DeletePoints, ChatTyped
<1>8. ASSUME NEW s \in Sessions, DeletePointsFails(s) PROVE ChatTyped'
  BY <1>8 DEF DeletePointsFails, ChatTyped
<1>9. ASSUME NEW s \in Sessions, Expire(s) PROVE ChatTyped'
  BY <1>0, <1>9 DEF Expire, ChatTyped
<1>10. ASSUME NEW s \in Sessions, NEW answers \in BOOLEAN, SaveSession(s, answers) PROVE ChatTyped'
  BY <1>0, <1>10 DEF SaveSession, setSessionState, ChatTyped
<1>11. ASSUME NEW s \in Sessions, NEW answers \in BOOLEAN, DeleteSession(s, answers)
       PROVE  ChatTyped'
  BY <1>0, <1>11 DEF DeleteSession, deleteSessionState, ChatTyped
<1>12. ASSUME NEW s \in Sessions, NEW answers \in BOOLEAN, DeleteChat(s, answers)
       PROVE  ChatTyped'
  BY <1>0, <1>12 DEF DeleteChat, deleteSessionState, ChatTyped
<1>13. CASE Restart
  BY <1>0, <1>13 DEF Restart, ChatTyped
<1>14. CASE UNCHANGED chatVars
  BY <1>14 DEF chatVars, ChatTyped
<1> QED
  BY <1>1, <1>2, <1>3, <1>4, <1>5, <1>6, <1>7, <1>8, <1>9, <1>10, <1>11, <1>12, <1>13, <1>14
  DEF ChatNext

LEMMA OneAtATimeStep ==
    ChatTyped /\ OneAtATime /\ [ChatNext]_chatVars => OneAtATime'
<1> SUFFICES ASSUME ChatTyped, OneAtATime, [ChatNext]_chatVars PROVE OneAtATime'
  OBVIOUS
<1>1. ASSUME NEW t \in Requests, NEW s \in Sessions, NEW signal \in BOOLEAN, Ask(t, s, signal)
      PROVE  OneAtATime'
  BY <1>1 DEF Ask, Busy, ChatTyped, TurnIn, OneAtATime
<1>2. ASSUME NEW t \in Requests, GiveUp(t) PROVE OneAtATime'
  BY <1>2 DEF GiveUp, ChatTyped, TurnIn, OneAtATime
<1>3. ASSUME NEW t \in Requests, UpsertTurn(t) PROVE OneAtATime'
  <2>1. [turns[t] EXCEPT !.at = "stored"].session = turns[t].session
    BY <1>3, ATurn DEF UpsertTurn, Numbered
  <2> QED BY <1>3, <2>1 DEF UpsertTurn, ChatTyped, TurnIn, OneAtATime
<1>4. ASSUME NEW t \in Requests, NEW answers \in BOOLEAN, ReadState(t, answers) PROVE OneAtATime'
  BY <1>4 DEF ReadState, ChatTyped, TurnIn, OneAtATime
<1>5. ASSUME NEW t \in Requests, NEW answers \in BOOLEAN, SaveState(t, answers) PROVE OneAtATime'
  BY <1>5 DEF SaveState, ChatTyped, TurnIn, OneAtATime
<1>6. ASSUME NEW s \in Sessions, LoadSession(s) PROVE OneAtATime'
  BY <1>6 DEF LoadSession, TurnIn, OneAtATime
<1>7. ASSUME NEW s \in Sessions, DeletePoints(s) PROVE OneAtATime'
  BY <1>7 DEF DeletePoints, TurnIn, OneAtATime
<1>8. ASSUME NEW s \in Sessions, DeletePointsFails(s) PROVE OneAtATime'
  BY <1>8 DEF DeletePointsFails, TurnIn, OneAtATime
<1>9. ASSUME NEW s \in Sessions, Expire(s) PROVE OneAtATime'
  BY <1>9 DEF Expire, TurnIn, OneAtATime
<1>10. ASSUME NEW s \in Sessions, NEW answers \in BOOLEAN, SaveSession(s, answers)
       PROVE  OneAtATime'
  BY <1>10 DEF SaveSession, TurnIn, OneAtATime
<1>11. ASSUME NEW s \in Sessions, NEW answers \in BOOLEAN, DeleteSession(s, answers)
       PROVE  OneAtATime'
  BY <1>11 DEF DeleteSession, TurnIn, OneAtATime
<1>12. ASSUME NEW s \in Sessions, NEW answers \in BOOLEAN, DeleteChat(s, answers)
       PROVE  OneAtATime'
  BY <1>12 DEF DeleteChat, Busy, TurnIn, OneAtATime
<1>13. CASE Restart
  BY <1>13 DEF Restart, TurnIn, OneAtATime
<1>14. CASE UNCHANGED chatVars
  BY <1>14 DEF chatVars, TurnIn, OneAtATime
<1> QED
  BY <1>1, <1>2, <1>3, <1>4, <1>5, <1>6, <1>7, <1>8, <1>9, <1>10, <1>11, <1>12, <1>13, <1>14
  DEF ChatNext

LEMMA StateCountsStep ==
    ChatTyped /\ OneAtATime /\ StateCounts /\ NumberIsNew /\ [ChatNext]_chatVars => StateCounts'
<1> SUFFICES ASSUME ChatTyped, OneAtATime, StateCounts, NumberIsNew, [ChatNext]_chatVars PROVE StateCounts'
  OBVIOUS
<1>1. ASSUME NEW t \in Requests, NEW s \in Sessions, NEW signal \in BOOLEAN, Ask(t, s, signal)
      PROVE  StateCounts'
  BY <1>1 DEF Ask, StateCounts, CountsTurn
<1>2. ASSUME NEW t \in Requests, GiveUp(t) PROVE StateCounts'
  BY <1>2 DEF GiveUp, StateCounts, CountsTurn
<1>3. ASSUME NEW t \in Requests, UpsertTurn(t) PROVE StateCounts'
  BY <1>3 DEF UpsertTurn, StateCounts, CountsTurn
<1>4. ASSUME NEW t \in Requests, NEW answers \in BOOLEAN, ReadState(t, answers) PROVE StateCounts'
  <2> DEFINE s == turns[t].session
  <2>1. s \in Sessions
    BY <1>4, ATurn DEF ReadState
  <2> QED
    BY <1>4, <2>1 DEF ReadState, getSessionState, Known, ChatTyped, Counts, NoState, StateCounts, CountsTurn
<1>5. ASSUME NEW t \in Requests, NEW answers \in BOOLEAN, SaveState(t, answers) PROVE StateCounts'
  <2> DEFINE s == turns[t].session
             ids == TurnIDs(s, turns[t].number, turns[t].signal)
             c == [session |-> s, serial |-> turns[t].serial, ids |-> ids]
  <2>1. s \in Sessions /\ turns[t].number \in Nat \ {0}
    BY <1>5, ATurn DEF SaveState
  <2>2. SUFFICES ASSUME NEW d \in completed', d.session \in calm', d.session \notin deleting',
                        NEW id \in d.ids
                 PROVE  CountsTurn(d.session, id[2])'
    BY DEF StateCounts
  <2>3. CASE d.session # s
    <3>1. d \in completed /\ d.session \in Sessions
      BY <1>5, <2>2, <2>3 DEF SaveState, ChatTyped
    <3>2. CountsTurn(d.session, id[2])
      BY <1>5, <2>2, <3>1 DEF SaveState, StateCounts
    <3> QED BY <1>5, <2>1, <2>3, <3>1, <3>2 DEF SaveState, setSessionState, CountsTurn, ChatTyped
  <2>4. CASE d.session = s
    <3>1. id[2] <= turns[t].number /\ 0 < id[2]
      <4>1. CASE d \in completed
        <5>1. HasNumber(t) /\ id[2] \in Nat
          BY <1>5, <4>1 DEF SaveState, HasNumber, ChatTyped
        <5>2. s \in calm /\ s \notin deleting
          BY <1>5, <2>2, <2>4 DEF SaveState
        <5>3. id[2] < turns[t].number
          BY <2>4, <4>1, <5>1, <5>2 DEF NumberIsNew
        <5>4. 0 < id[2]
          BY <2>4, <4>1, <5>2 DEF StateCounts, CountsTurn
        <5> QED BY <2>1, <5>1, <5>3, <5>4
      <4>2. CASE d = c
        <5>1. id[2] = turns[t].number
          BY <4>2, ATurnID
        <5> QED BY <2>1, <5>1
      <4> QED BY <1>5, <4>1, <4>2 DEF SaveState
    <3>2. redis'[s] = turns[t].number /\ local'[s] = turns[t].number /\ s \in seen'
      BY <1>5, <2>1, <2>2, <2>4 DEF SaveState, setSessionState, ChatTyped
    <3>3. redis'[s] # NoState
      BY <2>1, <3>2 DEF NoState
    <3> QED BY <2>4, <3>1, <3>2, <3>3 DEF CountsTurn
  <2> QED BY <2>3, <2>4
<1>6. ASSUME NEW s \in Sessions, LoadSession(s) PROVE StateCounts'
  BY <1>6 DEF LoadSession, getSessionState, Known, ChatTyped, Counts, NoState, StateCounts, CountsTurn
<1>7. ASSUME NEW s \in Sessions, DeletePoints(s) PROVE StateCounts'
  BY <1>7 DEF DeletePoints, StateCounts, CountsTurn
<1>8. ASSUME NEW s \in Sessions, DeletePointsFails(s) PROVE StateCounts'
  BY <1>8 DEF DeletePointsFails, StateCounts, CountsTurn
<1>9. ASSUME NEW s \in Sessions, Expire(s) PROVE StateCounts'
  BY <1>9 DEF Expire, ChatTyped, StateCounts, CountsTurn
<1>10. ASSUME NEW s \in Sessions, NEW answers \in BOOLEAN, SaveSession(s, answers)
       PROVE  StateCounts'
  BY <1>10 DEF SaveSession, setSessionState, ChatTyped, StateCounts, CountsTurn
<1>11. ASSUME NEW s \in Sessions, NEW answers \in BOOLEAN, DeleteSession(s, answers)
       PROVE  StateCounts'
  BY <1>11 DEF DeleteSession, deleteSessionState, ChatTyped, StateCounts, CountsTurn
<1>12. ASSUME NEW s \in Sessions, NEW answers \in BOOLEAN, DeleteChat(s, answers)
       PROVE  StateCounts'
  BY <1>12 DEF DeleteChat, deleteSessionState, ChatTyped, StateCounts, CountsTurn
<1>13. CASE Restart
  BY <1>13 DEF Restart, StateCounts, CountsTurn
<1>14. CASE UNCHANGED chatVars
  BY <1>14 DEF chatVars, StateCounts, CountsTurn
<1> QED
  BY <1>1, <1>2, <1>3, <1>4, <1>5, <1>6, <1>7, <1>8, <1>9, <1>10, <1>11, <1>12, <1>13, <1>14
  DEF ChatNext

LEMMA NumberIsNewStep ==
    ChatTyped /\ OneAtATime /\ StateCounts /\ NumberIsNew /\ [ChatNext]_chatVars => NumberIsNew'
<1> SUFFICES ASSUME ChatTyped, OneAtATime, StateCounts, NumberIsNew, [ChatNext]_chatVars PROVE NumberIsNew'
  OBVIOUS
<1>1. ASSUME NEW t \in Requests, NEW s \in Sessions, NEW signal \in BOOLEAN, Ask(t, s, signal)
      PROVE  NumberIsNew'
  BY <1>1 DEF Ask, ChatTyped, NumberIsNew, HasNumber
<1>2. ASSUME NEW t \in Requests, GiveUp(t) PROVE NumberIsNew'
  BY <1>2 DEF GiveUp, ChatTyped, NumberIsNew, HasNumber
<1>3. ASSUME NEW t \in Requests, UpsertTurn(t) PROVE NumberIsNew'
  <2>1. /\ [turns[t] EXCEPT !.at = "stored"].session = turns[t].session
        /\ [turns[t] EXCEPT !.at = "stored"].number = turns[t].number
    BY <1>3, ATurn DEF UpsertTurn, Numbered
  <2> QED BY <1>3, <2>1 DEF UpsertTurn, ChatTyped, NumberIsNew, HasNumber
<1>4. ASSUME NEW t \in Requests, NEW answers \in BOOLEAN, ReadState(t, answers) PROVE NumberIsNew'
  <2> DEFINE s == turns[t].session
  <2>1. s \in Sessions
    BY <1>4, ATurn DEF ReadState
  <2>2. SUFFICES ASSUME NEW u \in Requests, NEW c \in completed, HasNumber(u)',
                        turns'[u].session \in calm', c.session = turns'[u].session, NEW id \in c.ids
                 PROVE  id[2] < turns'[u].number
    BY <1>4 DEF ReadState, NumberIsNew
  <2>3. CASE u # t
    BY <1>4, <2>2, <2>3 DEF ReadState, ChatTyped, NumberIsNew, HasNumber
  <2>4. CASE u = t
    <3>1. /\ turns'[t].session = s /\ turns'[t].number = NextNumber(Known(s, answers))
      BY <1>4 DEF ReadState, ChatTyped
    <3>2. s \in calm /\ (answers \/ redis[s] = NoState \/ s \in seen)
      BY <1>4, <2>2, <2>4, <3>1 DEF ReadState
    <3>3. s \notin deleting
      BY <1>4, <3>2 DEF ReadState, OneAtATime, TurnIn
    <3>4. CountsTurn(s, id[2]) /\ id[2] \in Nat
      BY <2>2, <2>4, <3>1, <3>2, <3>3 DEF StateCounts, ChatTyped
    <3>5. id[2] < NextNumber(Known(s, answers))
      BY <2>1, <3>2, <3>4 DEF CountsTurn, NextNumber, Known, Counts, NoState, ChatTyped
    <3> QED BY <2>4, <3>1, <3>5
  <2> QED BY <2>3, <2>4
<1>5. ASSUME NEW t \in Requests, NEW answers \in BOOLEAN, SaveState(t, answers) PROVE NumberIsNew'
  <2>1. ASSUME NEW u \in Requests, HasNumber(u)', turns'[u].session \in calm'
        PROVE  u # t /\ turns'[u] = turns[u] /\ turns[u].session # turns[t].session
    BY <1>5, <2>1 DEF SaveState, ChatTyped, HasNumber, OneAtATime, TurnIn
  <2>2. calm' \subseteq calm
    BY <1>5 DEF SaveState
  <2> QED BY <1>5, <2>1, <2>2 DEF SaveState, NumberIsNew, HasNumber
<1>6. ASSUME NEW s \in Sessions, LoadSession(s) PROVE NumberIsNew'
  BY <1>6 DEF LoadSession, NumberIsNew, HasNumber
<1>7. ASSUME NEW s \in Sessions, DeletePoints(s) PROVE NumberIsNew'
  BY <1>7 DEF DeletePoints, NumberIsNew, HasNumber
<1>8. ASSUME NEW s \in Sessions, DeletePointsFails(s) PROVE NumberIsNew'
  BY <1>8 DEF DeletePointsFails, NumberIsNew, HasNumber
<1>9. ASSUME NEW s \in Sessions, Expire(s) PROVE NumberIsNew'
  BY <1>9 DEF Expire, NumberIsNew, HasNumber
<1>10. ASSUME NEW s \in Sessions, NEW answers \in BOOLEAN, SaveSession(s, answers)
       PROVE  NumberIsNew'
  BY <1>10 DEF SaveSession, NumberIsNew, HasNumber
<1>11. ASSUME NEW s \in Sessions, NEW answers \in BOOLEAN, DeleteSession(s, answers)
       PROVE  NumberIsNew'
  BY <1>11 DEF DeleteSession, NumberIsNew, HasNumber
<1>12. ASSUME NEW s \in Sessions, NEW answers \in BOOLEAN, DeleteChat(s, answers)
       PROVE  NumberIsNew'
  BY <1>12 DEF DeleteChat, NumberIsNew, HasNumber
<1>13. CASE Restart
  BY <1>13 DEF Restart, ChatTyped, NumberIsNew, HasNumber
<1>14. CASE UNCHANGED chatVars
  BY <1>14 DEF chatVars, NumberIsNew, HasNumber
<1> QED
  BY <1>1, <1>2, <1>3, <1>4, <1>5, <1>6, <1>7, <1>8, <1>9, <1>10, <1>11, <1>12, <1>13, <1>14
  DEF ChatNext

\* A turn that has its number writes no point that a session on its own counts.
LEMMA OtherPoints ==
    ASSUME ChatTyped, NEW t \in Requests, turns[t] # NoTurn, turns[t].at = "numbered",
           NEW s \in Sessions, Alone(s), s # turns[t].session,
           NEW id, id[1] = Safe[s]
    PROVE  id \notin PointsOf(t)
BY ATurn, ATurnID DEF Alone, PointsOf

LEMMA CompletedKeptStep ==
    ChatTyped /\ NumberIsNew /\ CompletedKept /\ StoredKept /\ [ChatNext]_chatVars => CompletedKept'
<1> SUFFICES ASSUME ChatTyped, NumberIsNew, CompletedKept, StoredKept, [ChatNext]_chatVars
             PROVE  CompletedKept'
  OBVIOUS
<1>1. ASSUME NEW t \in Requests, NEW s \in Sessions, NEW signal \in BOOLEAN, Ask(t, s, signal)
      PROVE  CompletedKept'
  BY <1>1 DEF Ask, CompletedKept, Holds
<1>2. ASSUME NEW t \in Requests, GiveUp(t) PROVE CompletedKept'
  BY <1>2 DEF GiveUp, CompletedKept, Holds
<1>3. ASSUME NEW t \in Requests, UpsertTurn(t) PROVE CompletedKept'
  <2> SUFFICES ASSUME NEW c \in completed, c.session \in calm, Alone(c.session), NEW id \in c.ids
               PROVE  id \in DOMAIN points' /\ points'[id] = points[id]
    <3>1. UNCHANGED <<completed, calm>>
      BY <1>3 DEF UpsertTurn
    <3> QED BY <3>1 DEF CompletedKept, Holds
  <2>1. id \notin PointsOf(t)
    <3>1. CASE c.session # turns[t].session
      BY <1>3, <3>1, OtherPoints DEF UpsertTurn, ChatTyped
    <3>2. CASE c.session = turns[t].session
      <4>1. id[2] < turns[t].number /\ id[2] \in Nat /\ turns[t].number \in Nat
        BY <1>3, <3>2, ATurn DEF UpsertTurn, NumberIsNew, HasNumber, ChatTyped
      <4>2. id[2] # turns[t].number
        BY <4>1
      <4> QED BY <4>2, ATurnID DEF PointsOf
    <3> QED BY <3>1, <3>2
  <2>2. id \in DOMAIN points
    BY DEF CompletedKept, Holds
  <2> QED BY <1>3, <2>1, <2>2 DEF UpsertTurn, PointsOf
<1>4. ASSUME NEW t \in Requests, NEW answers \in BOOLEAN, ReadState(t, answers)
      PROVE  CompletedKept'
  BY <1>4 DEF ReadState, CompletedKept, Holds
<1>5. ASSUME NEW t \in Requests, NEW answers \in BOOLEAN, SaveState(t, answers)
      PROVE  CompletedKept'
  <2> DEFINE s == turns[t].session
             c == [session |-> s, serial |-> turns[t].serial, ids |-> PointsOf(t)]
  <2>1. completed' = completed \cup {c} /\ UNCHANGED points /\ calm' \subseteq calm
    BY <1>5 DEF SaveState, PointsOf
  <2>2. s \in calm /\ Alone(s) => Holds(PointsOf(t), s, turns[t].serial)
    BY <1>5 DEF SaveState, StoredKept
  <2> QED BY <2>1, <2>2 DEF CompletedKept, Holds
<1>6. ASSUME NEW s \in Sessions, LoadSession(s) PROVE CompletedKept'
  BY <1>6 DEF LoadSession, CompletedKept, Holds
<1>7. ASSUME NEW s \in Sessions, DeletePoints(s) PROVE CompletedKept'
  BY <1>7 DEF DeletePoints, CompletedKept, Holds
<1>8. ASSUME NEW s \in Sessions, DeletePointsFails(s) PROVE CompletedKept'
  BY <1>8 DEF DeletePointsFails, CompletedKept, Holds
<1>9. ASSUME NEW s \in Sessions, Expire(s) PROVE CompletedKept'
  BY <1>9 DEF Expire, CompletedKept, Holds
<1>10. ASSUME NEW s \in Sessions, NEW answers \in BOOLEAN, SaveSession(s, answers)
       PROVE  CompletedKept'
  BY <1>10 DEF SaveSession, CompletedKept, Holds
<1>11. ASSUME NEW s \in Sessions, NEW answers \in BOOLEAN, DeleteSession(s, answers)
       PROVE  CompletedKept'
  BY <1>11 DEF DeleteSession, CompletedKept, Holds
<1>12. ASSUME NEW s \in Sessions, NEW answers \in BOOLEAN, DeleteChat(s, answers)
       PROVE  CompletedKept'
  BY <1>12 DEF DeleteChat, CompletedKept, Holds
<1>13. CASE Restart
  BY <1>13 DEF Restart, CompletedKept, Holds
<1>14. CASE UNCHANGED chatVars
  BY <1>14 DEF chatVars, CompletedKept, Holds
<1> QED
  BY <1>1, <1>2, <1>3, <1>4, <1>5, <1>6, <1>7, <1>8, <1>9, <1>10, <1>11, <1>12, <1>13, <1>14
  DEF ChatNext

LEMMA StoredKeptStep ==
    ChatTyped /\ OneAtATime /\ StoredKept /\ [ChatNext]_chatVars => StoredKept'
<1> SUFFICES ASSUME ChatTyped, OneAtATime, StoredKept, [ChatNext]_chatVars
             PROVE  StoredKept'
  OBVIOUS
<1>1. ASSUME NEW t \in Requests, NEW s \in Sessions, NEW signal \in BOOLEAN, Ask(t, s, signal)
      PROVE  StoredKept'
  BY <1>1 DEF Ask, ChatTyped, StoredKept, Holds, PointsOf
<1>2. ASSUME NEW t \in Requests, GiveUp(t) PROVE StoredKept'
  BY <1>2 DEF GiveUp, ChatTyped, StoredKept, Holds, PointsOf
<1>3. ASSUME NEW t \in Requests, UpsertTurn(t) PROVE StoredKept'
  <2> DEFINE stored == [turns[t] EXCEPT !.at = "stored"]
  <2>1. /\ stored.session = turns[t].session /\ stored.number = turns[t].number
        /\ stored.signal = turns[t].signal /\ stored.serial = turns[t].serial
    BY <1>3, ATurn DEF UpsertTurn, Numbered
  <2>2. turns' = [turns EXCEPT ![t] = stored] /\ UNCHANGED calm
    BY <1>3 DEF UpsertTurn
  <2>3. points' = [id \in DOMAIN points \cup PointsOf(t) |->
                      IF id \in PointsOf(t)
                      THEN [session |-> turns[t].session, serial |-> turns[t].serial] ELSE points[id]]
    BY <1>3 DEF UpsertTurn, PointsOf
  <2>4. PointsOf(t)' = PointsOf(t)
    BY <2>1, <2>2 DEF PointsOf, ChatTyped
  <2>5. Holds(PointsOf(t), turns[t].session, turns[t].serial)'
    BY <2>1, <2>2, <2>3, <2>4 DEF Holds, ChatTyped
  <2>6. ASSUME NEW u \in Requests, u # t, turns[u] # NoTurn, turns[u].at = "stored",
               turns[u].session \in calm, Alone(turns[u].session)
        PROVE  Holds(PointsOf(u), turns[u].session, turns[u].serial)' /\ PointsOf(u)' = PointsOf(u)
    <3>1. turns[u].session # turns[t].session /\ turns[u].session \in Sessions
      BY <1>3, <2>6, ATurn DEF UpsertTurn, OneAtATime, TurnIn
    <3>2. \A id \in PointsOf(u) : id \notin PointsOf(t)
      BY <1>3, <2>6, <3>1, OtherPoints, ATurnID DEF UpsertTurn, PointsOf
    <3>3. Holds(PointsOf(u), turns[u].session, turns[u].serial)
      BY <2>6 DEF StoredKept
    <3>4. turns'[u] = turns[u] /\ PointsOf(u)' = PointsOf(u)
      BY <2>2, <2>6 DEF PointsOf, ChatTyped
    <3> QED BY <2>3, <3>2, <3>3, <3>4 DEF Holds
  <2>7. ASSUME NEW u \in Requests, u # t PROVE turns'[u] = turns[u]
    BY <2>2, <2>7
  <2> QED BY <2>1, <2>2, <2>5, <2>6, <2>7 DEF StoredKept, Alone, ChatTyped
<1>4. ASSUME NEW t \in Requests, NEW answers \in BOOLEAN, ReadState(t, answers) PROVE StoredKept'
  BY <1>4 DEF ReadState, ChatTyped, StoredKept, Holds, PointsOf
<1>5. ASSUME NEW t \in Requests, NEW answers \in BOOLEAN, SaveState(t, answers) PROVE StoredKept'
  BY <1>5 DEF SaveState, ChatTyped, StoredKept, Holds, PointsOf
<1>6. ASSUME NEW s \in Sessions, LoadSession(s) PROVE StoredKept'
  BY <1>6 DEF LoadSession, StoredKept, Holds, PointsOf
<1>7. ASSUME NEW s \in Sessions, DeletePoints(s) PROVE StoredKept'
  <2>1. ASSUME NEW u \in Requests, turns[u] # NoTurn, turns[u].session \in calm
        PROVE  turns[u].session # s
    BY <1>7, <2>1 DEF DeletePoints, OneAtATime, TurnIn
  <2> QED BY <1>7, <2>1 DEF DeletePoints, StoredKept, Holds, PointsOf
<1>8. ASSUME NEW s \in Sessions, DeletePointsFails(s) PROVE StoredKept'
  BY <1>8 DEF DeletePointsFails, StoredKept, Holds, PointsOf
<1>9. ASSUME NEW s \in Sessions, Expire(s) PROVE StoredKept'
  BY <1>9 DEF Expire, StoredKept, Holds, PointsOf
<1>10. ASSUME NEW s \in Sessions, NEW answers \in BOOLEAN, SaveSession(s, answers)
       PROVE  StoredKept'
  BY <1>10 DEF SaveSession, StoredKept, Holds, PointsOf
<1>11. ASSUME NEW s \in Sessions, NEW answers \in BOOLEAN, DeleteSession(s, answers)
       PROVE  StoredKept'
  BY <1>11 DEF DeleteSession, StoredKept, Holds, PointsOf
<1>12. ASSUME NEW s \in Sessions, NEW answers \in BOOLEAN, DeleteChat(s, answers)
       PROVE  StoredKept'
  BY <1>12 DEF DeleteChat, StoredKept, Holds, PointsOf
<1>13. CASE Restart
  BY <1>13 DEF Restart, StoredKept, Holds, PointsOf
<1>14. CASE UNCHANGED chatVars
  BY <1>14 DEF chatVars, StoredKept, Holds, PointsOf
<1> QED
  BY <1>1, <1>2, <1>3, <1>4, <1>5, <1>6, <1>7, <1>8, <1>9, <1>10, <1>11, <1>12, <1>13, <1>14
  DEF ChatNext

LEMMA ChatInitInv == ChatInit => ChatInv
BY DEF ChatInit, ChatInv, ChatTyped, OneAtATime, TurnIn, StateCounts, NumberIsNew, HasNumber,
       CompletedKept, StoredKept, Counts

\* The answered turns keep their points: in every session that nothing has
\* happened to that may cost one, and for any number of sessions and requests.
THEOREM ChatKeepsMemory == ChatSpec => []ChatMemoryKept
<1>1. ChatInit => ChatInv
  BY ChatInitInv
<1>2. ChatInv /\ [ChatNext]_chatVars => ChatInv'
  BY ChatTypedStep, OneAtATimeStep, StateCountsStep, NumberIsNewStep, CompletedKeptStep, StoredKeptStep
  DEF ChatInv
<1>3. ChatInv => ChatMemoryKept
  BY DEF ChatInv, CompletedKept, Holds, ChatMemoryKept
<1> QED BY <1>1, <1>2, <1>3, PTL DEF ChatSpec

-----------------------------------------------------------------------------
(***************************************************************************)
(* Research sessions: what one says it has retrieved is accounted for by   *)
(* its ledger, and the searches of a process on its own are on record.     *)
(***************************************************************************)
Ledgers == SUBSET [id : Nat, corpus : Corpora \cup {"none"}, sources : SUBSET UNION Found]
Records == [corpus : Corpora \cup {"none"}, ledger : Ledgers, sources : SUBSET UNION Found]
IsSessions(f) == DOMAIN f \subseteq ResearchIDs /\ \A s \in DOMAIN f : f[s] \in Records
Calls ==
    [at : {"creating", "binding", "searching", "appended"}, tool : {"binding", "searching"},
     session : ResearchIDs, copy : Records, id : Nat,
     entry : {NoCall} \cup [id : Nat, corpus : Corpora \cup {"none"}, sources : SUBSET UNION Found]]

ResearchTyped ==
    /\ DOMAIN mem = Processes
    /\ \A p \in Processes : mem[p] = Down \/ IsSessions(mem[p])
    /\ IsSessions(file)
    /\ calls \in [Processes \X Slots -> {NoCall} \cup Calls]
    /\ called \in Nat
    /\ saving \subseteq {p \in Processes : Up(p)}
    /\ steady \subseteq ResearchIDs

\* The sources of a session are those of its searches, each made in a collection.
Accounted(session) ==
    /\ session.sources = UNION {e.sources : e \in session.ledger}
    /\ \A e \in session.ledger : e.corpus # "none"

\* What a call holds: it runs in a process that is up, alone in its session as
\* far as the session counts, on a copy that is still what the process has.
CallHolds(p, c) ==
    LET call == calls[<<p, c>>]
        s == call.session
    IN  call # NoCall =>
        /\ Up(p)
        /\ call.at = "creating" => call.copy = NewSession
        /\ s \in apart =>
              /\ Accounted(call.copy)
              /\ call.at # "appended" /\ s \in DOMAIN mem[p] => call.copy = mem[p][s]
              /\ \A d \in Slots : calls[<<p, d>>] # NoCall /\ calls[<<p, d>>].session = s => d = c
StoredAccounted ==
    \A s \in apart :
        /\ \A p \in Processes : Up(p) /\ s \in DOMAIN mem[p] => Accounted(mem[p][s])
        /\ s \in DOMAIN file => Accounted(file[s])
ResearchInv ==
    /\ ResearchTyped
    /\ \A p \in Processes, c \in Slots : CallHolds(p, c)
    /\ StoredAccounted

LEMMA NoneIsNoCall == NoCall \notin Calls
BY DEF NoCall, Calls

LEMMA SessionsAreUp == ASSUME NEW f, IsSessions(f) PROVE f # Down
BY ResearchAssumption DEF IsSessions, Down

LEMMA NewSessionAccounted == NewSession \in Records /\ Accounted(NewSession)
BY DEF NewSession, Records, Ledgers, Accounted

LEMMA ResearchInitInv == ResearchInit => ResearchInv
<1> SUFFICES ASSUME ResearchInit PROVE ResearchInv
  OBVIOUS
<1>1. /\ DOMAIN file = {} /\ \A p \in Processes : mem[p] = Down
      /\ \A p \in Processes, c \in Slots : calls[<<p, c>>] = NoCall
  BY DEF ResearchInit, NoSessions
<1>2. ResearchTyped
  BY <1>1 DEF ResearchInit, ResearchTyped, IsSessions
<1>3. StoredAccounted
  BY <1>1 DEF StoredAccounted, Up
<1> QED
  BY <1>1, <1>2, <1>3 DEF ResearchInv, CallHolds

-----------------------------------------------------------------------------
(* A put changes one session of one process; the file is empty until it is    *)
(* written.                                                                  *)
LEMMA PutChanges ==
    ASSUME ResearchInv, NEW p \in Processes, Up(p),
           NEW s \in ResearchIDs, NEW session \in Records,
           put(p, s, session)
    PROVE  /\ DOMAIN mem' = Processes
           /\ \A q \in Processes \ {p} : mem'[q] = mem[q]
           /\ DOMAIN mem'[p] = DOMAIN mem[p] \cup {s}
           /\ \A x \in DOMAIN mem'[p] : mem'[p][x] = IF x = s THEN session ELSE mem[p][x]
           /\ IsSessions(mem'[p]) /\ Up(p)'
           /\ saving' \subseteq {q \in Processes : Up(q)}'
           /\ DOMAIN file' = {} /\ IsSessions(file')
<1>1. /\ DOMAIN mem = Processes /\ IsSessions(mem[p])
      /\ saving \subseteq {q \in Processes : Up(q)}
  BY DEF ResearchInv, ResearchTyped, Up
<1>2. /\ DOMAIN mem' = Processes
      /\ \A q \in Processes \ {p} : mem'[q] = mem[q]
      /\ mem'[p] = [x \in DOMAIN mem[p] \cup {s} |-> IF x = s THEN session ELSE mem[p][x]]
      /\ saving' = saving \cup {p} /\ DOMAIN file' = {}
  BY <1>1 DEF put, NoSessions
<1>3. IsSessions(mem'[p]) /\ IsSessions(file')
  BY <1>1, <1>2 DEF IsSessions
<1>4. Up(p)'
  BY <1>3, SessionsAreUp DEF Up
<1>5. saving' \subseteq {q \in Processes : Up(q)}'
  BY <1>1, <1>2, <1>4 DEF Up
<1> QED
  BY <1>2, <1>3, <1>4, <1>5

(* A put by a call that then goes on with what it has put, or ends, keeps the *)
(* invariant, if what it puts is accounted for.                              *)
LEMMA PutKeepsInv ==
    ASSUME ResearchInv, NEW p \in Processes, NEW c \in Slots,
           calls[<<p, c>>] # NoCall,
           NEW session \in Records,
           calls[<<p, c>>].session \in apart => Accounted(session),
           put(p, calls[<<p, c>>].session, session),
           NEW call \in {NoCall} \cup Calls,
           calls' = [calls EXCEPT ![<<p, c>>] = call],
           call # NoCall => /\ call.session = calls[<<p, c>>].session
                            /\ call.copy = session /\ call.at # "creating",
           UNCHANGED <<called, apart, steady>>
    PROVE  ResearchInv'
<1> USE DEF ResearchInv
<1> DEFINE s == calls[<<p, c>>].session
<1>1. calls[<<p, c>>] \in Calls /\ s \in ResearchIDs /\ CallHolds(p, c) /\ Up(p)
  BY DEF ResearchTyped, Calls, CallHolds
<1>2. /\ DOMAIN mem' = Processes
      /\ \A q \in Processes \ {p} : mem'[q] = mem[q]
      /\ DOMAIN mem'[p] = DOMAIN mem[p] \cup {s}
      /\ \A x \in DOMAIN mem'[p] : mem'[p][x] = IF x = s THEN session ELSE mem[p][x]
      /\ IsSessions(mem'[p]) /\ Up(p)'
      /\ saving' \subseteq {q \in Processes : Up(q)}'
      /\ DOMAIN file' = {} /\ IsSessions(file')
  BY <1>1, PutChanges
<1>3. /\ calls' \in [Processes \X Slots -> {NoCall} \cup Calls]
      /\ calls'[<<p, c>>] = call
      /\ \A q \in Processes, d \in Slots :
            <<q, d>> # <<p, c>> => calls'[<<q, d>>] = calls[<<q, d>>]
  BY DEF ResearchTyped
<1>4. ResearchTyped'
  BY <1>2, <1>3 DEF ResearchTyped
<1>5. StoredAccounted'
  <2>1. SUFFICES ASSUME NEW x \in apart, NEW q \in Processes, Up(q)', x \in DOMAIN mem'[q]
                 PROVE  Accounted(mem'[q][x])
    BY <1>2 DEF StoredAccounted, Accounted
  <2>2. CASE q = p /\ x = s
    BY <1>2, <2>1, <2>2
  <2>3. CASE ~(q = p /\ x = s)
    <3>1. Up(q) /\ x \in DOMAIN mem[q] /\ mem'[q][x] = mem[q][x]
      BY <1>1, <1>2, <2>1, <2>3 DEF Up
    <3> QED
      BY <2>1, <3>1 DEF StoredAccounted
  <2> QED
    BY <2>2, <2>3
<1>6. ASSUME NEW q \in Processes, NEW d \in Slots PROVE CallHolds(q, d)'
  <2>1. CASE q = p /\ d = c
    <3>1. SUFFICES ASSUME call # NoCall PROVE CallHolds(p, c)'
      BY <1>3, <2>1 DEF CallHolds
    <3>2. call.session = s /\ call.copy = mem'[p][s]
      BY <1>2, <3>1
    <3>3. s \in apart => Accounted(call.copy)
      BY <3>1
    <3>4. \A e \in Slots : s \in apart /\ calls'[<<p, e>>] # NoCall /\ calls'[<<p, e>>].session = s
             => e = c
      BY <1>1, <1>3 DEF CallHolds
    <3> QED
      BY <1>2, <1>3, <3>1, <3>2, <3>3, <3>4 DEF CallHolds
  <2>2. CASE ~(q = p /\ d = c)
    <3>1. CallHolds(q, d) /\ calls'[<<q, d>>] = calls[<<q, d>>]
      BY <1>3, <2>2
    <3>2. SUFFICES ASSUME calls[<<q, d>>] # NoCall PROVE CallHolds(q, d)'
      BY <3>1 DEF CallHolds
    <3>3. Up(q)'
      BY <1>2, <3>1, <3>2 DEF CallHolds, Up
    <3>4. CASE calls[<<q, d>>].session \in apart
      <4>1. q = p => calls[<<q, d>>].session # s
        BY <2>2, <3>1, <3>2, <3>4 DEF CallHolds
      <4>2. \A e \in Slots : calls'[<<q, e>>] # NoCall =>
               calls[<<q, e>>] # NoCall /\ calls'[<<q, e>>].session = calls[<<q, e>>].session
        BY <1>3
      <4>3. calls[<<q, d>>].session \in DOMAIN mem'[q] =>
               /\ calls[<<q, d>>].session \in DOMAIN mem[q]
               /\ mem'[q][calls[<<q, d>>].session] = mem[q][calls[<<q, d>>].session]
        BY <1>2, <4>1
      <4> QED
        BY <3>1, <3>2, <3>3, <4>2, <4>3 DEF CallHolds
    <3>5. CASE calls[<<q, d>>].session \notin apart
      BY <3>1, <3>2, <3>3, <3>5 DEF CallHolds
    <3> QED
      BY <3>4, <3>5
  <2> QED
    BY <2>1, <2>2
<1> QED
  BY <1>4, <1>5, <1>6

(* A call that ends, or goes on without a put, on a copy that is accounted    *)
(* for and is no longer compared, or still the same.                         *)
LEMMA CallKeepsInv ==
    ASSUME ResearchInv, NEW p \in Processes, NEW c \in Slots,
           calls[<<p, c>>] # NoCall,
           NEW call \in {NoCall} \cup Calls,
           calls' = [calls EXCEPT ![<<p, c>>] = call],
           call # NoCall => /\ call.session = calls[<<p, c>>].session /\ call.at = "appended"
                            /\ call.session \in apart => Accounted(call.copy),
           DOMAIN mem' = Processes,
           \A q \in Processes \ {p} : mem'[q] = mem[q],
           DOMAIN mem'[p] = DOMAIN mem[p], IsSessions(mem'[p]),
           \A x \in DOMAIN mem[p] : \/ mem'[p][x] = mem[p][x]
                                    \/ x = calls[<<p, c>>].session /\ x \notin apart,
           UNCHANGED <<file, saving, called, apart, steady>>
    PROVE  ResearchInv'
<1> USE DEF ResearchInv
<1>1. CallHolds(p, c) /\ Up(p) /\ Up(p)'
  BY SessionsAreUp DEF CallHolds, Up
<1>2. /\ calls' \in [Processes \X Slots -> {NoCall} \cup Calls]
      /\ calls'[<<p, c>>] = call
      /\ \A q \in Processes, d \in Slots :
            <<q, d>> # <<p, c>> => calls'[<<q, d>>] = calls[<<q, d>>]
  BY DEF ResearchTyped
<1>3. \A q \in Processes : Up(q)' <=> Up(q)
  BY <1>1 DEF Up
<1>4. ResearchTyped'
  BY <1>2, <1>3 DEF ResearchTyped
<1>5. StoredAccounted'
  <2>1. \A x \in apart, q \in Processes : Up(q)' /\ x \in DOMAIN mem'[q] =>
           Up(q) /\ x \in DOMAIN mem[q] /\ (mem'[q][x] = mem[q][x] \/ x \notin apart)
    BY <1>3
  <2> QED
    BY <2>1 DEF StoredAccounted
<1>6. ASSUME NEW q \in Processes, NEW d \in Slots PROVE CallHolds(q, d)'
  <2>1. CallHolds(q, d)
    OBVIOUS
  <2>2. SUFFICES ASSUME calls'[<<q, d>>] # NoCall PROVE CallHolds(q, d)'
    BY DEF CallHolds
  <2>3. \A e \in Slots : calls'[<<q, e>>] # NoCall =>
           calls[<<q, e>>] # NoCall /\ calls'[<<q, e>>].session = calls[<<q, e>>].session
    BY <1>2
  <2>4. CASE q = p /\ d = c
    BY <1>1, <1>2, <2>1, <2>2, <2>3, <2>4 DEF CallHolds
  <2>5. CASE ~(q = p /\ d = c)
    <3>1. calls'[<<q, d>>] = calls[<<q, d>>] /\ Up(q)'
      BY <1>2, <1>3, <2>1, <2>2, <2>5 DEF CallHolds
    <3>2. calls[<<q, d>>].session \in DOMAIN mem'[q] =>
             /\ calls[<<q, d>>].session \in DOMAIN mem[q]
             /\ \/ mem'[q][calls[<<q, d>>].session] = mem[q][calls[<<q, d>>].session]
                \/ calls[<<q, d>>].session \notin apart
      OBVIOUS
    <3> QED
      BY <2>1, <2>2, <2>3, <3>1, <3>2 DEF CallHolds
  <2> QED
    BY <2>4, <2>5
<1> QED
  BY <1>4, <1>5, <1>6

-----------------------------------------------------------------------------
LEMMA StartInv ==
    ASSUME ResearchInv, NEW p \in Processes, Start(p)
    PROVE  ResearchInv'
<1> USE DEF ResearchInv
<1>1. /\ ~Up(p) /\ DOMAIN mem' = Processes /\ mem'[p] = file
      /\ \A q \in Processes \ {p} : mem'[q] = mem[q]
      /\ UNCHANGED <<file, saving, calls, called, apart>>
      /\ steady' \subseteq ResearchIDs
  BY DEF Start, ResearchTyped
<1>2. \A q \in Processes \ {p} : Up(q)' <=> Up(q)
  BY <1>1 DEF Up
<1>3. ResearchTyped'
  BY <1>1, <1>2 DEF ResearchTyped
<1>4. StoredAccounted'
  BY <1>1, <1>2 DEF StoredAccounted
<1>5. ASSUME NEW q \in Processes, NEW c \in Slots PROVE CallHolds(q, c)'
  <2>1. CallHolds(q, c)
    OBVIOUS
  <2>2. CASE q = p
    BY <1>1, <2>1, <2>2 DEF CallHolds
  <2>3. CASE q # p
    BY <1>1, <1>2, <2>1, <2>3 DEF CallHolds
  <2> QED
    BY <2>2, <2>3
<1> QED
  BY <1>3, <1>4, <1>5

LEMMA FinishSaveInv ==
    ASSUME ResearchInv, NEW p \in Processes, FinishSave(p)
    PROVE  ResearchInv'
<1> USE DEF ResearchInv
<1>1. /\ Up(p) /\ file' = mem[p] /\ saving' \subseteq saving
      /\ UNCHANGED <<mem, calls, called, apart, steady>>
  BY DEF FinishSave, ResearchTyped
<1>2. ResearchTyped'
  BY <1>1 DEF ResearchTyped, Up
<1>3. StoredAccounted'
  BY <1>1 DEF StoredAccounted, Up
<1>4. ASSUME NEW q \in Processes, NEW c \in Slots PROVE CallHolds(q, c)'
  <2>1. CallHolds(q, c)
    OBVIOUS
  <2> QED
    BY <1>1, <2>1 DEF CallHolds, Up
<1> QED
  BY <1>2, <1>3, <1>4

\* A call that begins copies what its process has; the session counts no longer
\* if another call of the process is in it.
LEMMA BeginInv ==
    ASSUME ResearchInv, NEW p \in Processes, NEW c \in Slots, NEW s \in ResearchIDs,
           NEW tool \in {"binding", "searching"}, Begin(p, c, s, tool)
    PROVE  ResearchInv'
<1> USE DEF ResearchInv
<1> DEFINE call == [at |-> IF s \in DOMAIN mem[p] THEN tool ELSE "creating", tool |-> tool,
                    session |-> s, copy |-> ensureSession(p, s), id |-> called',
                    entry |-> NoCall]
<1>1. /\ Up(p) /\ calls[<<p, c>>] = NoCall /\ called' \in Nat
      /\ calls' = [calls EXCEPT ![<<p, c>>] = call]
      /\ apart' = IF \E pc \in InSession(s) : pc[1] = p THEN apart \ {s} ELSE apart
      /\ UNCHANGED <<file, mem, saving>> /\ steady' \subseteq ResearchIDs
  BY DEF Begin, ResearchTyped
<1>2. IsSessions(mem[p])
  BY <1>1 DEF ResearchTyped, Up
<1>3. ensureSession(p, s) \in Records
  BY <1>2, NewSessionAccounted DEF ensureSession, IsSessions
<1>4. call \in Calls /\ call # NoCall
  BY <1>1, <1>3 DEF Calls, NoCall
<1>5. /\ call.session = s /\ call.copy = ensureSession(p, s)
      /\ call.at = "creating" => s \notin DOMAIN mem[p]
  OBVIOUS
<1> HIDE DEF call
<1>6. /\ calls' \in [Processes \X Slots -> {NoCall} \cup Calls] /\ calls'[<<p, c>>] = call
      /\ \A q \in Processes, d \in Slots :
            <<q, d>> # <<p, c>> => calls'[<<q, d>>] = calls[<<q, d>>]
  BY <1>1, <1>4 DEF ResearchTyped
<1>7. ResearchTyped'
  BY <1>1, <1>6 DEF ResearchTyped, Up
<1>8. apart' \subseteq apart
  BY <1>1
<1>9. StoredAccounted'
  BY <1>1, <1>8 DEF StoredAccounted, Up
<1>10. s \in apart' => \A d \in Slots : calls[<<p, d>>] # NoCall => calls[<<p, d>>].session # s
  BY <1>1 DEF InSession
<1>11. CallHolds(p, c)'
  <2>1. s \in apart' => Accounted(ensureSession(p, s))
    BY <1>1, <1>8, NewSessionAccounted DEF StoredAccounted, ensureSession
  <2>2. s \in DOMAIN mem[p] => ensureSession(p, s) = mem[p][s]
    BY DEF ensureSession
  <2>3. s \notin DOMAIN mem[p] => ensureSession(p, s) = NewSession
    BY DEF ensureSession
  <2>4. \A d \in Slots : s \in apart' /\ calls'[<<p, d>>] # NoCall /\ calls'[<<p, d>>].session = s
           => d = c
    BY <1>6, <1>10
  <2>5. Up(p)'
    BY <1>1 DEF Up
  <2> QED
    BY <1>1, <1>5, <1>6, <2>1, <2>2, <2>3, <2>4, <2>5 DEF CallHolds
<1>12. ASSUME NEW q \in Processes, NEW d \in Slots, <<q, d>> # <<p, c>> PROVE CallHolds(q, d)'
  <2>1. CallHolds(q, d) /\ calls'[<<q, d>>] = calls[<<q, d>>]
    BY <1>6, <1>12
  <2>2. SUFFICES ASSUME calls[<<q, d>>] # NoCall PROVE CallHolds(q, d)'
    BY <2>1 DEF CallHolds
  <2>3. Up(q)'
    BY <1>1, <2>1, <2>2 DEF CallHolds, Up
  <2>4. \A e \in Slots : <<q, e>> # <<p, c>> => calls'[<<q, e>>] = calls[<<q, e>>]
    BY <1>6
  <2>5. q = p /\ calls[<<q, d>>].session \in apart' => calls[<<q, d>>].session # s
    BY <1>10, <2>2
  <2> QED
    BY <1>1, <1>5, <1>6, <1>8, <2>1, <2>2, <2>3, <2>4, <2>5 DEF CallHolds
<1> QED
  BY <1>7, <1>9, <1>11, <1>12

LEMMA CreateInv ==
    ASSUME ResearchInv, NEW p \in Processes, NEW c \in Slots, Create(p, c)
    PROVE  ResearchInv'
<1> USE DEF ResearchInv
<1> DEFINE next == [calls[<<p, c>>] EXCEPT !.at = calls[<<p, c>>].tool]
<1>1. /\ calls[<<p, c>>] # NoCall /\ calls[<<p, c>>].at = "creating"
      /\ put(p, calls[<<p, c>>].session, NewSession)
      /\ calls' = [calls EXCEPT ![<<p, c>>] = next]
      /\ UNCHANGED <<called, apart, steady>>
  BY DEF Create, ResearchTyped
<1>2. calls[<<p, c>>] \in Calls
  BY <1>1 DEF ResearchTyped
<1>3. calls[<<p, c>>].copy = NewSession
  BY <1>1 DEF CallHolds
<1>4. next \in Calls /\ next.session = calls[<<p, c>>].session
      /\ next.copy = NewSession /\ next.at # "creating"
  BY <1>2, <1>3 DEF Calls
<1> HIDE DEF next
<1> QED
  BY <1>1, <1>4, NewSessionAccounted, PutKeepsInv

LEMMA CallFailsInv ==
    ASSUME ResearchInv, NEW p \in Processes, NEW c \in Slots, CallFails(p, c)
    PROVE  ResearchInv'
<1>1. /\ calls[<<p, c>>] # NoCall /\ calls' = [calls EXCEPT ![<<p, c>>] = NoCall]
      /\ mem' = mem /\ UNCHANGED <<file, saving, called, apart, steady>>
  BY DEF CallFails
<1>2. Up(p)
  BY <1>1 DEF ResearchInv, CallHolds
<1>3. DOMAIN mem = Processes /\ IsSessions(mem[p])
  BY <1>2 DEF ResearchInv, ResearchTyped, Up
<1>4. /\ DOMAIN mem' = Processes /\ DOMAIN mem'[p] = DOMAIN mem[p] /\ IsSessions(mem'[p])
      /\ \A q \in Processes : mem'[q] = mem[q]
      /\ \A x \in DOMAIN mem[p] : mem'[p][x] = mem[p][x]
  BY <1>1, <1>3, Zenon
<1>5. NoCall \in {NoCall} \cup Calls
  OBVIOUS
<1> QED
  BY <1>1, <1>4, <1>5, CallKeepsInv

LEMMA BindInv ==
    ASSUME ResearchInv, NEW p \in Processes, NEW c \in Slots, NEW corpus \in Corpora,
           Bind(p, c, corpus)
    PROVE  ResearchInv'
<1> USE DEF ResearchInv
<1> DEFINE bound == [calls[<<p, c>>].copy EXCEPT !.corpus = corpus]
<1>1. /\ calls[<<p, c>>] # NoCall
      /\ put(p, calls[<<p, c>>].session, bound)
      /\ calls' = [calls EXCEPT ![<<p, c>>] = NoCall]
      /\ UNCHANGED <<called, apart, steady>>
  BY DEF Bind
<1>2. calls[<<p, c>>].copy \in Records
  BY <1>1 DEF ResearchTyped, Calls
<1>3. bound \in Records /\ (Accounted(calls[<<p, c>>].copy) => Accounted(bound))
  BY <1>2 DEF Records, Accounted
<1>4. calls[<<p, c>>].session \in apart => Accounted(bound)
  BY <1>1, <1>3 DEF CallHolds
<1> HIDE DEF bound
<1>5. NoCall \in {NoCall} \cup Calls
  OBVIOUS
<1> QED
  BY <1>1, <1>3, <1>4, <1>5, PutKeepsInv

\* Only a session that no longer counts can lose an entry to another call.
LEMMA AppendLedgerInv ==
    ASSUME ResearchInv, NEW p \in Processes, NEW c \in Slots, NEW found \in Found,
           AppendLedger(p, c, found)
    PROVE  ResearchInv'
<1> USE DEF ResearchInv
<1> DEFINE call == calls[<<p, c>>]
           s == call.session
           entry == Entry(call, found)
           copy == appendLedger(call, found)
           next == [call EXCEPT !.at = "appended", !.entry = entry, !.copy = copy]
<1>1. /\ call # NoCall /\ call.at = "searching" /\ call.copy.corpus # "none"
      /\ mem' \in Overwritten(p, call, found)
      /\ calls' = [calls EXCEPT ![<<p, c>>] = next]
      /\ UNCHANGED <<file, saving, called, apart, steady>>
  BY DEF AppendLedger, ResearchTyped
<1>2. call \in Calls /\ call.copy \in Records /\ s \in ResearchIDs /\ call.id \in Nat
  BY <1>1 DEF ResearchTyped, Calls
<1>3. entry \in [id : Nat, corpus : Corpora \cup {"none"}, sources : SUBSET UNION Found]
      /\ entry.sources = found /\ entry.corpus # "none"
  BY <1>1, <1>2 DEF Entry, Records
<1>4. /\ copy \in Records /\ copy.sources = call.copy.sources \cup found
      /\ copy.ledger = call.copy.ledger \cup {entry}
  <2>1. /\ copy.sources = call.copy.sources \cup found
        /\ copy.ledger = call.copy.ledger \cup {entry}
        /\ copy = [call.copy EXCEPT !.sources = @ \cup found, !.ledger = @ \cup {entry}]
    BY <1>2 DEF appendLedger, Records
  <2>2. call.copy.ledger \cup {entry} \in Ledgers
    BY <1>2, <1>3 DEF Records, Ledgers
  <2> QED
    BY <1>2, <2>1, <2>2 DEF Records
<1>5. Accounted(call.copy) => Accounted(copy)
  BY <1>3, <1>4 DEF Accounted
<1>6. next \in Calls /\ next.session = s /\ next.at = "appended" /\ next.copy = copy
  BY <1>2, <1>3, <1>4 DEF Calls
<1>7. Up(p) /\ (s \in apart => Accounted(call.copy))
      /\ (s \in apart /\ s \in DOMAIN mem[p] => call.copy = mem[p][s])
  BY <1>1 DEF CallHolds
<1>8. DOMAIN mem = Processes /\ IsSessions(mem[p])
  BY <1>7 DEF ResearchTyped, Up
<1>9. /\ DOMAIN mem' = Processes
      /\ \A q \in Processes \ {p} : mem'[q] = mem[q]
      /\ DOMAIN mem'[p] = DOMAIN mem[p] /\ IsSessions(mem'[p])
      /\ \A x \in DOMAIN mem[p] : mem'[p][x] = mem[p][x] \/ (x = s /\ x \notin apart)
  <2>1. CASE mem' = mem
    BY <1>8, <2>1, Zenon
  <2>2. CASE mem' # mem
    <3>1. /\ s \in DOMAIN mem[p]
          /\ \E e \in mem[p][s].ledger \ call.copy.ledger :
                mem' = [mem EXCEPT ![p][s].ledger = (@ \ {e}) \cup {entry}]
      BY <1>1, <2>2 DEF Overwritten
    <3>2. PICK e \in mem[p][s].ledger \ call.copy.ledger :
             mem' = [mem EXCEPT ![p][s].ledger = (@ \ {e}) \cup {entry}]
      BY <3>1
    <3>3. s \notin apart
      BY <1>7, <3>1, <3>2
    <3>4. mem[p][s] \in Records
      BY <1>8, <3>1 DEF IsSessions
    <3>5. (mem[p][s].ledger \ {e}) \cup {entry} \in Ledgers
      BY <1>3, <3>4 DEF Records, Ledgers
    <3>6. /\ DOMAIN mem' = Processes
          /\ \A q \in Processes \ {p} : mem'[q] = mem[q]
          /\ DOMAIN mem'[p] = DOMAIN mem[p]
          /\ \A x \in DOMAIN mem[p] : x # s => mem'[p][x] = mem[p][x]
          /\ mem'[p][s] = [mem[p][s] EXCEPT !.ledger = (mem[p][s].ledger \ {e}) \cup {entry}]
      BY <1>8, <3>1, <3>2
    <3>7. mem'[p][s] \in Records
      BY <3>4, <3>5, <3>6 DEF Records
    <3>8. IsSessions(mem'[p])
      BY <1>8, <3>6, <3>7 DEF IsSessions
    <3> QED
      BY <3>3, <3>6, <3>8
  <2> QED
    BY <2>1, <2>2
<1> HIDE DEF next, copy, entry
<1> QED
  BY <1>1, <1>5, <1>6, <1>7, <1>9, CallKeepsInv

LEMMA AnswerInv ==
    ASSUME ResearchInv, NEW p \in Processes, NEW c \in Slots, Answer(p, c)
    PROVE  ResearchInv'
<1> USE DEF ResearchInv
<1>1. /\ calls[<<p, c>>] # NoCall
      /\ put(p, calls[<<p, c>>].session, calls[<<p, c>>].copy)
      /\ calls' = [calls EXCEPT ![<<p, c>>] = NoCall]
      /\ UNCHANGED <<called, apart, steady>>
  BY DEF Answer
<1>2. calls[<<p, c>>].copy \in Records
  BY <1>1 DEF ResearchTyped, Calls
<1>3. calls[<<p, c>>].session \in apart => Accounted(calls[<<p, c>>].copy)
  BY <1>1 DEF CallHolds
<1>4. NoCall \in {NoCall} \cup Calls
  OBVIOUS
<1> QED
  BY <1>1, <1>2, <1>3, <1>4, PutKeepsInv

LEMMA CrashInv ==
    ASSUME ResearchInv, NEW p \in Processes, Crash(p)
    PROVE  ResearchInv'
<1> USE DEF ResearchInv
<1>1. /\ DOMAIN mem' = Processes /\ mem'[p] = Down
      /\ \A q \in Processes \ {p} : mem'[q] = mem[q]
      /\ saving' = saving \ {p} /\ UNCHANGED <<file, called, apart>>
      /\ calls' \in [Processes \X Slots -> {NoCall} \cup Calls]
      /\ \A q \in Processes, c \in Slots :
            calls'[<<q, c>>] = IF q = p THEN NoCall ELSE calls[<<q, c>>]
      /\ steady' \subseteq ResearchIDs
  BY DEF Crash, ResearchTyped
<1>2. ~Up(p)' /\ \A q \in Processes \ {p} : Up(q)' <=> Up(q)
  BY <1>1 DEF Up
<1>3. ResearchTyped'
  BY <1>1, <1>2 DEF ResearchTyped
<1>4. StoredAccounted'
  BY <1>1, <1>2 DEF StoredAccounted
<1>5. ASSUME NEW q \in Processes, NEW c \in Slots PROVE CallHolds(q, c)'
  <2>1. CallHolds(q, c)
    OBVIOUS
  <2> QED
    BY <1>1, <1>2, <2>1 DEF CallHolds
<1> QED
  BY <1>3, <1>4, <1>5

LEMMA ResearchStepInv ==
    ASSUME ResearchInv, [ResearchNext]_researchVars
    PROVE  ResearchInv'
<1>1. CASE UNCHANGED researchVars
  <2>1. \A p \in Processes : Up(p)' <=> Up(p)
    BY <1>1 DEF researchVars, Up
  <2>2. ResearchTyped' /\ StoredAccounted'
    BY <1>1, <2>1 DEF ResearchInv, researchVars, ResearchTyped, StoredAccounted
  <2>3. ASSUME NEW p \in Processes, NEW c \in Slots PROVE CallHolds(p, c)'
    <3>1. CallHolds(p, c)
      BY DEF ResearchInv
    <3> QED
      BY <1>1, <2>1, <3>1 DEF researchVars, CallHolds
  <2> QED
    BY <2>2, <2>3 DEF ResearchInv
<1> QED
  BY <1>1, StartInv, FinishSaveInv, BeginInv, CreateInv, CallFailsInv, BindInv,
     AppendLedgerInv, AnswerInv, CrashInv DEF ResearchNext

(* The sessions in every process and in the file are sessions: bound to a     *)
(* collection or to none, with sources that a search can find.               *)
THEOREM ResearchTypeCorrect == ResearchSpec => []ResearchTypeOK
<1>1. ResearchInv => ResearchTypeOK
  BY DEF ResearchInv, ResearchTyped, ResearchTypeOK, IsSessions, Records, SessionOK, Up
<1> QED
  BY <1>1, ResearchInitInv, ResearchStepInv, PTL DEF ResearchSpec

(* What a session says it has retrieved is what the searches in its ledger    *)
(* found, each in a collection it was bound to (minddrill_research.go), as   *)
(* long as no two calls of a process overlap in it: whatever other processes *)
(* write to the file, and whichever of them die.                             *)
THEOREM LedgerSafety == ResearchSpec => []LedgerAccountsForSources
<1>1. ResearchInv => LedgerAccountsForSources
  BY DEF ResearchInv, StoredAccounted, LedgerAccountsForSources, Versions, Accounted
<1> QED
  BY <1>1, ResearchInitInv, ResearchStepInv, PTL DEF ResearchSpec

-----------------------------------------------------------------------------
(* The searches on record                                                    *)

OnRecord(f, r) == r.session \in DOMAIN f /\ r.entry \in f[r.session].ledger
\* SearchesOnRecord is not inductive.  While a session is steady one process is
\* up at most, its file is empty or holds what it has, and the calls of the
\* session come one after another, each on a copy with all that is recorded.
OneProcess == steady # {} => \A p, q \in Processes : Up(p) /\ Up(q) => p = q
EmptyWhileSaved == steady # {} /\ saving # {} => DOMAIN file = {}
OneCall == \A s \in steady : \A x, y \in InSession(s) : x = y
EntryInCopy ==
    \A x \in Processes \X Slots :
        calls[x] # NoCall /\ calls[x].at = "appended" => calls[x].entry \in calls[x].copy.ledger
CopiesKeep ==
    \A r \in recorded : r.session \in steady =>
        \A x \in InSession(r.session) :
            calls[x].at # "creating" /\ r.entry \in calls[x].copy.ledger
MemoryKeeps ==
    \A r \in recorded : r.session \in steady =>
        \A p \in Processes : Up(p) => OnRecord(mem[p], r)
FileKeeps ==
    \A r \in recorded : r.session \in steady /\ saving = {} => OnRecord(file, r)
SteadyInv ==
    /\ ResearchInv
    /\ OneProcess /\ EmptyWhileSaved /\ OneCall /\ EntryInCopy
    /\ CopiesKeep /\ MemoryKeeps /\ FileKeeps

LEMMA SteadyInit == ResearchInit => SteadyInv
<1> SUFFICES ASSUME ResearchInit PROVE SteadyInv
  OBVIOUS
<1>1. \A p \in Processes : ~Up(p)
  BY DEF ResearchInit, Up
<1>2. \A s : InSession(s) = {}
  BY DEF ResearchInit, InSession
<1>3. OneProcess /\ EmptyWhileSaved /\ OneCall
  BY <1>1, <1>2 DEF ResearchInit, OneProcess, EmptyWhileSaved, OneCall
<1>4. EntryInCopy /\ CopiesKeep /\ MemoryKeeps /\ FileKeeps
  BY DEF ResearchInit, EntryInCopy, CopiesKeep, MemoryKeeps, FileKeeps
<1> QED
  BY <1>3, <1>4, ResearchInitInv DEF SteadyInv

(* A put of all that is recorded of the session, by a call that has a copy of *)
(* it or ends.                                                               *)
LEMMA PutKeepsSteady ==
    ASSUME SteadyInv, ResearchInv', NEW p \in Processes, NEW c \in Slots,
           calls[<<p, c>>] # NoCall,
           NEW s, s = calls[<<p, c>>].session,
           NEW session \in Records, put(p, s, session),
           NEW call \in {NoCall} \cup Calls,
           calls' = [calls EXCEPT ![<<p, c>>] = call],
           call # NoCall => /\ call.session = s /\ call.copy = session
                            /\ call.at \notin {"creating", "appended"},
           steady' = steady,
           \A r \in recorded' : r \in recorded \/ r.session = s,
           \A r \in recorded' : r.session = s /\ s \in steady => r.entry \in session.ledger
    PROVE  SteadyInv'
<1>1. Up(p) /\ s \in ResearchIDs
  BY DEF SteadyInv, ResearchInv, ResearchTyped, CallHolds, Calls
<1>2. /\ \A q \in Processes \ {p} : mem'[q] = mem[q]
      /\ DOMAIN mem'[p] = DOMAIN mem[p] \cup {s}
      /\ \A x \in DOMAIN mem'[p] : mem'[p][x] = IF x = s THEN session ELSE mem[p][x]
      /\ Up(p)' /\ DOMAIN file' = {}
  BY <1>1, PutChanges DEF SteadyInv
<1>3. saving' # {}
  BY DEF put
<1>4. \A q \in Processes : Up(q)' <=> Up(q)
  BY <1>1, <1>2 DEF Up
<1>5. /\ calls'[<<p, c>>] = call
      /\ \A x \in Processes \X Slots : x # <<p, c>> => calls'[x] = calls[x]
  BY DEF SteadyInv, ResearchInv, ResearchTyped
<1>6. /\ \A t : \A x \in InSession(t)' : x \in InSession(t)
      /\ <<p, c>> \in InSession(s)
      /\ \A t : <<p, c>> \in InSession(t)' => t = s /\ call # NoCall
  BY <1>5 DEF InSession
<1>7. OneProcess' /\ EmptyWhileSaved' /\ OneCall'
  BY <1>2, <1>4, <1>6 DEF SteadyInv, OneProcess, EmptyWhileSaved, OneCall
<1>8. EntryInCopy'
  BY <1>5 DEF SteadyInv, EntryInCopy
<1>9. CopiesKeep'
  <2> SUFFICES ASSUME NEW r \in recorded', r.session \in steady, NEW x \in InSession(r.session)'
               PROVE  calls'[x].at # "creating" /\ r.entry \in calls'[x].copy.ledger
    BY DEF CopiesKeep
  <2>1. CASE x = <<p, c>>
    BY <1>5, <1>6, <2>1
  <2>2. CASE x # <<p, c>>
    <3>1. x \in InSession(r.session) /\ x \in Processes \X Slots
      BY <1>6 DEF InSession
    <3>2. r.session # s
      BY <1>6, <2>2, <3>1 DEF SteadyInv, OneCall
    <3> QED
      BY <1>5, <2>2, <3>1, <3>2 DEF SteadyInv, CopiesKeep
  <2> QED
    BY <2>1, <2>2
<1>10. MemoryKeeps'
  <2> SUFFICES ASSUME NEW r \in recorded', r.session \in steady, NEW q \in Processes, Up(q)'
               PROVE  OnRecord(mem'[q], r)
    BY DEF MemoryKeeps
  <2>1. q = p
    BY <1>1, <1>4 DEF SteadyInv, OneProcess
  <2>2. CASE r.session = s
    BY <1>2, <2>1, <2>2 DEF OnRecord
  <2>3. CASE r.session # s
    <3>1. OnRecord(mem[p], r)
      BY <1>1, <2>3 DEF SteadyInv, MemoryKeeps
    <3> QED
      BY <1>2, <2>1, <2>3, <3>1 DEF OnRecord
  <2> QED
    BY <2>2, <2>3
<1>11. FileKeeps'
  BY <1>3 DEF FileKeeps
<1> QED
  BY <1>7, <1>8, <1>9, <1>10, <1>11 DEF SteadyInv

LEMMA StartSteady ==
    ASSUME SteadyInv, ResearchInv', NEW p \in Processes, Start(p)
    PROVE  SteadyInv'
<1>1. /\ mem'[p] = file /\ \A q \in Processes \ {p} : mem'[q] = mem[q]
      /\ UNCHANGED <<file, saving, calls, recorded>>
      /\ steady' \subseteq steady
      /\ steady' # {} => \A q \in Processes : ~Up(q)
  BY DEF Start, SteadyInv, ResearchInv, ResearchTyped
<1>2. steady' # {} => saving = {} /\ \A q \in Processes \ {p} : ~Up(q)'
  BY <1>1 DEF Up, SteadyInv, ResearchInv, ResearchTyped
<1>3. \A t : InSession(t)' = InSession(t)
  BY <1>1 DEF InSession
<1>4. OneProcess' /\ EmptyWhileSaved'
  BY <1>1, <1>2 DEF OneProcess, EmptyWhileSaved
<1>5. OneCall' /\ EntryInCopy' /\ CopiesKeep'
  BY <1>1, <1>3 DEF SteadyInv, OneCall, EntryInCopy, CopiesKeep
<1>6. FileKeeps'
  BY <1>1 DEF SteadyInv, FileKeeps
<1>7. MemoryKeeps'
  BY <1>1, <1>2 DEF SteadyInv, FileKeeps, MemoryKeeps
<1> QED
  BY <1>4, <1>5, <1>6, <1>7 DEF SteadyInv

LEMMA FinishSaveSteady ==
    ASSUME SteadyInv, ResearchInv', NEW p \in Processes, FinishSave(p)
    PROVE  SteadyInv'
<1>1. /\ Up(p) /\ file' = mem[p] /\ saving' = saving \ {p}
      /\ UNCHANGED <<mem, calls, recorded, steady>>
  BY DEF FinishSave, SteadyInv, ResearchInv, ResearchTyped
<1>2. steady # {} => saving' = {}
  BY <1>1 DEF SteadyInv, OneProcess, ResearchInv, ResearchTyped
<1>3. \A t : InSession(t)' = InSession(t)
  BY <1>1 DEF InSession
<1>4. OneProcess' /\ EmptyWhileSaved' /\ MemoryKeeps'
  BY <1>1, <1>2 DEF SteadyInv, OneProcess, EmptyWhileSaved, MemoryKeeps, Up
<1>5. OneCall' /\ EntryInCopy' /\ CopiesKeep'
  BY <1>1, <1>3 DEF SteadyInv, OneCall, EntryInCopy, CopiesKeep
<1>6. FileKeeps'
  BY <1>1 DEF SteadyInv, FileKeeps, MemoryKeeps
<1> QED
  BY <1>4, <1>5, <1>6 DEF SteadyInv

LEMMA BeginSteady ==
    ASSUME SteadyInv, ResearchInv', NEW p \in Processes, NEW c \in Slots, NEW s \in ResearchIDs,
           NEW tool \in {"binding", "searching"}, Begin(p, c, s, tool)
    PROVE  SteadyInv'
<1> DEFINE call == [at |-> IF s \in DOMAIN mem[p] THEN tool ELSE "creating", tool |-> tool,
                    session |-> s, copy |-> ensureSession(p, s), id |-> called',
                    entry |-> NoCall]
<1>1. /\ Up(p) /\ calls' = [calls EXCEPT ![<<p, c>>] = call]
      /\ UNCHANGED <<file, mem, saving, recorded>>
      /\ steady' \subseteq steady /\ (s \in steady' => InSession(s) = {})
  BY DEF Begin
<1>2. /\ call.session = s /\ call.at # "appended"
      /\ s \in DOMAIN mem[p] => call.at # "creating" /\ call.copy = mem[p][s]
  BY DEF ensureSession
<1> HIDE DEF call
<1>3. /\ calls'[<<p, c>>] = call
      /\ \A x \in Processes \X Slots : x # <<p, c>> => calls'[x] = calls[x]
  BY <1>1 DEF SteadyInv, ResearchInv, ResearchTyped
<1>4. \A t : \A x \in InSession(t)' :
        IF x = <<p, c>> THEN t = s ELSE x \in InSession(t)
  BY <1>2, <1>3 DEF InSession
<1>5. OneProcess' /\ EmptyWhileSaved' /\ FileKeeps' /\ MemoryKeeps'
  BY <1>1 DEF SteadyInv, OneProcess, EmptyWhileSaved, FileKeeps, MemoryKeeps, Up
<1>6. OneCall'
  BY <1>1, <1>4 DEF SteadyInv, OneCall
<1>7. EntryInCopy'
  BY <1>2, <1>3 DEF SteadyInv, EntryInCopy
<1>8. CopiesKeep'
  <2> SUFFICES ASSUME NEW r \in recorded, r.session \in steady', NEW x \in InSession(r.session)'
               PROVE  calls'[x].at # "creating" /\ r.entry \in calls'[x].copy.ledger
    BY <1>1 DEF CopiesKeep
  <2>1. CASE x = <<p, c>>
    <3>1. r.session = s
      BY <1>4, <2>1
    <3>2. OnRecord(mem[p], r)
      BY <1>1 DEF SteadyInv, MemoryKeeps
    <3> QED
      BY <1>2, <1>3, <2>1, <3>1, <3>2 DEF OnRecord
  <2>2. CASE x # <<p, c>>
    <3>1. x \in InSession(r.session) /\ x \in Processes \X Slots
      BY <1>4, <2>2 DEF InSession
    <3> QED
      BY <1>1, <1>3, <2>2, <3>1 DEF SteadyInv, CopiesKeep
  <2> QED
    BY <2>1, <2>2
<1> QED
  BY <1>5, <1>6, <1>7, <1>8 DEF SteadyInv

\* A call that creates its session is the first of it, when the session is
\* steady: nothing is recorded yet.
LEMMA CreateSteady ==
    ASSUME SteadyInv, ResearchInv', NEW p \in Processes, NEW c \in Slots, Create(p, c)
    PROVE  SteadyInv'
<1> DEFINE s == calls[<<p, c>>].session
           next == [calls[<<p, c>>] EXCEPT !.at = calls[<<p, c>>].tool]
<1>1. /\ calls[<<p, c>>] # NoCall /\ calls[<<p, c>>].at = "creating"
      /\ put(p, s, NewSession) /\ calls' = [calls EXCEPT ![<<p, c>>] = next]
      /\ UNCHANGED <<recorded, steady>>
  BY DEF Create, SteadyInv, ResearchInv, ResearchTyped
<1>2. calls[<<p, c>>] \in Calls
  BY <1>1 DEF SteadyInv, ResearchInv, ResearchTyped
<1>3. calls[<<p, c>>].copy = NewSession
  BY <1>1 DEF SteadyInv, ResearchInv, CallHolds
<1>4. /\ next \in Calls /\ next.session = s
      /\ next.copy = NewSession /\ next.at \notin {"creating", "appended"}
  BY <1>2, <1>3 DEF Calls
<1>5. \A r \in recorded : r.session = s => s \notin steady
  BY <1>1 DEF SteadyInv, CopiesKeep, InSession
<1> HIDE DEF next, s
<1> QED
  BY <1>1, <1>4, <1>5, NewSessionAccounted, PutKeepsSteady DEF s

LEMMA CallFailsSteady ==
    ASSUME SteadyInv, ResearchInv', NEW p \in Processes, NEW c \in Slots, CallFails(p, c)
    PROVE  SteadyInv'
<1>1. /\ calls' = [calls EXCEPT ![<<p, c>>] = NoCall]
      /\ UNCHANGED <<file, mem, saving, recorded, steady>>
  BY DEF CallFails
<1>2. \A x \in Processes \X Slots : calls'[x] = calls[x] \/ calls'[x] = NoCall
  BY <1>1 DEF SteadyInv, ResearchInv, ResearchTyped
<1>3. \A t : \A x \in InSession(t)' : x \in InSession(t) /\ calls'[x] = calls[x]
  BY <1>2 DEF InSession
<1>4. OneProcess' /\ EmptyWhileSaved' /\ FileKeeps' /\ MemoryKeeps'
  BY <1>1 DEF SteadyInv, OneProcess, EmptyWhileSaved, FileKeeps, MemoryKeeps, Up
<1>5. OneCall' /\ CopiesKeep'
  BY <1>1, <1>3 DEF SteadyInv, OneCall, CopiesKeep
<1>6. EntryInCopy'
  BY <1>2 DEF SteadyInv, EntryInCopy
<1> QED
  BY <1>4, <1>5, <1>6 DEF SteadyInv

\* The copy a call puts holds what is recorded of its session.
LEMMA CopyHolds ==
    ASSUME SteadyInv, NEW p \in Processes, NEW c \in Slots, calls[<<p, c>>] # NoCall,
           NEW r \in recorded, r.session = calls[<<p, c>>].session, r.session \in steady
    PROVE  r.entry \in calls[<<p, c>>].copy.ledger
BY DEF SteadyInv, CopiesKeep, InSession

LEMMA BindSteady ==
    ASSUME SteadyInv, ResearchInv', NEW p \in Processes, NEW c \in Slots, NEW corpus \in Corpora,
           Bind(p, c, corpus)
    PROVE  SteadyInv'
<1> DEFINE s == calls[<<p, c>>].session
           bound == [calls[<<p, c>>].copy EXCEPT !.corpus = corpus]
<1>1. /\ calls[<<p, c>>] # NoCall /\ put(p, s, bound)
      /\ calls' = [calls EXCEPT ![<<p, c>>] = NoCall]
      /\ UNCHANGED <<recorded, steady>>
  BY DEF Bind
<1>2. calls[<<p, c>>].copy \in Records
  BY <1>1 DEF SteadyInv, ResearchInv, ResearchTyped, Calls
<1>3. bound \in Records /\ bound.ledger = calls[<<p, c>>].copy.ledger
  BY <1>2 DEF Records
<1>4. \A r \in recorded : r.session = s /\ s \in steady => r.entry \in bound.ledger
  BY <1>1, <1>3, CopyHolds
<1>5. NoCall \in {NoCall} \cup Calls
  OBVIOUS
<1> HIDE DEF bound, s
<1> QED
  BY <1>1, <1>3, <1>4, <1>5, PutKeepsSteady DEF s

LEMMA AnswerSteady ==
    ASSUME SteadyInv, ResearchInv', NEW p \in Processes, NEW c \in Slots, Answer(p, c)
    PROVE  SteadyInv'
<1> DEFINE s == calls[<<p, c>>].session
           copy == calls[<<p, c>>].copy
<1>1. /\ calls[<<p, c>>] # NoCall /\ calls[<<p, c>>].at = "appended" /\ put(p, s, copy)
      /\ calls' = [calls EXCEPT ![<<p, c>>] = NoCall] /\ steady' = steady
      /\ recorded' = recorded \cup {[session |-> s, entry |-> calls[<<p, c>>].entry]}
  BY DEF Answer
<1>2. copy \in Records
  BY <1>1 DEF SteadyInv, ResearchInv, ResearchTyped, Calls
<1>3. calls[<<p, c>>].entry \in copy.ledger
  BY <1>1 DEF SteadyInv, EntryInCopy
<1>4. \A r \in recorded' : r \in recorded \/ (r.session = s /\ r.entry \in copy.ledger)
  BY <1>1, <1>3
<1>5. \A r \in recorded' : r.session = s /\ s \in steady => r.entry \in copy.ledger
  BY <1>1, <1>4, CopyHolds
<1>6. NoCall \in {NoCall} \cup Calls
  OBVIOUS
<1> HIDE DEF copy, s
<1> QED
  BY <1>1, <1>2, <1>4, <1>5, <1>6, PutKeepsSteady DEF s

\* Nothing recorded of a steady session is written over: the entry that is
\* replaced is one the copy does not have.
LEMMA AppendLedgerSteady ==
    ASSUME SteadyInv, ResearchInv', NEW p \in Processes, NEW c \in Slots, NEW found \in Found,
           AppendLedger(p, c, found)
    PROVE  SteadyInv'
<1> DEFINE call == calls[<<p, c>>]
           s == call.session
           entry == Entry(call, found)
           copy == appendLedger(call, found)
           next == [call EXCEPT !.at = "appended", !.entry = entry, !.copy = copy]
<1>1. /\ call # NoCall /\ mem' \in Overwritten(p, call, found)
      /\ calls' = [calls EXCEPT ![<<p, c>>] = next]
      /\ UNCHANGED <<file, saving, recorded, steady>>
  BY DEF AppendLedger, SteadyInv, ResearchInv, ResearchTyped
<1>2. call \in Calls /\ call.copy \in Records /\ Up(p)
  BY <1>1 DEF SteadyInv, ResearchInv, ResearchTyped, Calls, CallHolds
<1>3. copy.ledger = call.copy.ledger \cup {entry}
  BY <1>2 DEF appendLedger, Records
<1>4. /\ next.session = s /\ next.at = "appended" /\ next.copy = copy /\ next.entry = entry
      /\ next # NoCall
  BY <1>2 DEF Calls, NoCall
<1>5. DOMAIN mem = Processes /\ IsSessions(mem[p])
  BY <1>2 DEF SteadyInv, ResearchInv, ResearchTyped, Up
<1>6. /\ \A q \in Processes \ {p} : mem'[q] = mem[q]
      /\ DOMAIN mem'[p] = DOMAIN mem[p]
      /\ \A x \in DOMAIN mem[p] : x # s => mem'[p][x] = mem[p][x]
      /\ s \in DOMAIN mem[p] =>
            \A old \in mem[p][s].ledger \cap call.copy.ledger : old \in mem'[p][s].ledger
  <2>1. CASE mem' = mem
    BY <2>1
  <2>2. CASE mem' # mem
    <3>1. /\ s \in DOMAIN mem[p]
          /\ \E e \in mem[p][s].ledger \ call.copy.ledger :
                mem' = [mem EXCEPT ![p][s].ledger = (@ \ {e}) \cup {entry}]
      BY <1>1, <2>2 DEF Overwritten
    <3>2. PICK e \in mem[p][s].ledger \ call.copy.ledger :
             mem' = [mem EXCEPT ![p][s].ledger = (@ \ {e}) \cup {entry}]
      BY <3>1
    <3>3. mem[p][s] \in Records
      BY <1>5, <3>1 DEF IsSessions
    <3>4. /\ \A q \in Processes \ {p} : mem'[q] = mem[q]
          /\ DOMAIN mem'[p] = DOMAIN mem[p]
          /\ \A x \in DOMAIN mem[p] : x # s => mem'[p][x] = mem[p][x]
          /\ mem'[p][s] = [mem[p][s] EXCEPT !.ledger = (mem[p][s].ledger \ {e}) \cup {entry}]
      BY <1>5, <3>1, <3>2
    <3>5. mem'[p][s].ledger = (mem[p][s].ledger \ {e}) \cup {entry}
      BY <3>3, <3>4 DEF Records
    <3> QED
      BY <3>2, <3>4, <3>5
  <2> QED
    BY <2>1, <2>2
<1>7. Up(p)' /\ \A q \in Processes : Up(q)' <=> Up(q)
  <2>1. Up(p)'
    BY <1>1, <1>4 DEF ResearchInv, ResearchTyped, CallHolds, SteadyInv
  <2> QED
    BY <1>2, <1>6, <2>1 DEF Up
<1> HIDE DEF next, copy, entry
<1>8. /\ calls'[<<p, c>>] = next
      /\ \A x \in Processes \X Slots : x # <<p, c>> => calls'[x] = calls[x]
  BY <1>1 DEF SteadyInv, ResearchInv, ResearchTyped
<1>9. \A t : InSession(t)' = InSession(t)
  BY <1>1, <1>4, <1>8 DEF InSession
<1>10. OneProcess' /\ EmptyWhileSaved' /\ OneCall' /\ FileKeeps'
  BY <1>1, <1>7, <1>9 DEF SteadyInv, OneProcess, EmptyWhileSaved, OneCall, FileKeeps
<1>11. EntryInCopy'
  BY <1>3, <1>4, <1>8 DEF SteadyInv, EntryInCopy
<1>12. CopiesKeep'
  <2> SUFFICES ASSUME NEW r \in recorded, r.session \in steady, NEW x \in InSession(r.session)
               PROVE  calls'[x].at # "creating" /\ r.entry \in calls'[x].copy.ledger
    BY <1>1, <1>9 DEF CopiesKeep
  <2>1. calls[x].at # "creating" /\ r.entry \in calls[x].copy.ledger /\ x \in Processes \X Slots
    BY DEF SteadyInv, CopiesKeep, InSession
  <2> QED
    BY <1>3, <1>4, <1>8, <2>1
<1>13. MemoryKeeps'
  <2> SUFFICES ASSUME NEW r \in recorded, r.session \in steady, NEW q \in Processes, Up(q)
               PROVE  OnRecord(mem'[q], r)
    BY <1>1, <1>7 DEF MemoryKeeps
  <2>1. OnRecord(mem[q], r) /\ q = p
    BY <1>2 DEF SteadyInv, MemoryKeeps, OneProcess
  <2>2. CASE r.session = s
    <3>1. r.entry \in call.copy.ledger
      BY <1>1, <2>2, CopyHolds
    <3> QED
      BY <1>6, <2>1, <2>2, <3>1 DEF OnRecord
  <2>3. CASE r.session # s
    BY <1>6, <2>1, <2>3 DEF OnRecord
  <2> QED
    BY <2>2, <2>3
<1> QED
  BY <1>10, <1>11, <1>12, <1>13 DEF SteadyInv

LEMMA CrashSteady ==
    ASSUME SteadyInv, ResearchInv', NEW p \in Processes, Crash(p)
    PROVE  SteadyInv'
<1>1. /\ Up(p) /\ mem'[p] = Down /\ \A q \in Processes \ {p} : mem'[q] = mem[q]
      /\ saving' = saving \ {p} /\ UNCHANGED <<file, recorded>>
      /\ \A x \in Processes \X Slots : calls'[x] = calls[x] \/ calls'[x] = NoCall
      /\ steady' \subseteq steady /\ (steady' # {} => p \notin saving)
  BY DEF Crash, SteadyInv, ResearchInv, ResearchTyped
<1>2. ~Up(p)' /\ \A q \in Processes \ {p} : Up(q)' <=> Up(q)
  BY <1>1 DEF Up
<1>3. steady' # {} => saving = {}
  BY <1>1 DEF SteadyInv, OneProcess, ResearchInv, ResearchTyped
<1>4. \A t : \A x \in InSession(t)' : x \in InSession(t) /\ calls'[x] = calls[x]
  BY <1>1 DEF InSession
<1>5. OneProcess' /\ EmptyWhileSaved' /\ MemoryKeeps'
  BY <1>1, <1>2, <1>3 DEF SteadyInv, OneProcess, EmptyWhileSaved, MemoryKeeps
<1>6. OneCall' /\ CopiesKeep'
  BY <1>1, <1>4 DEF SteadyInv, OneCall, CopiesKeep
<1>7. EntryInCopy'
  BY <1>1 DEF SteadyInv, EntryInCopy
<1>8. FileKeeps'
  BY <1>1, <1>3 DEF SteadyInv, FileKeeps
<1> QED
  BY <1>5, <1>6, <1>7, <1>8 DEF SteadyInv

LEMMA SteadyStep ==
    ASSUME SteadyInv, [ResearchNext]_researchVars
    PROVE  SteadyInv'
<1>1. ResearchInv'
  BY ResearchStepInv DEF SteadyInv
<1>2. CASE UNCHANGED researchVars
  <2>1. \A t : InSession(t)' = InSession(t)
    BY <1>2 DEF researchVars, InSession
  <2> QED
    BY <1>1, <1>2, <2>1
    DEF researchVars, SteadyInv, OneProcess, EmptyWhileSaved, OneCall, EntryInCopy,
        CopiesKeep, MemoryKeeps, FileKeeps, Up
<1> QED
  BY <1>1, <1>2, StartSteady, FinishSaveSteady, BeginSteady, CreateSteady, CallFailsSteady,
     BindSteady, AppendLedgerSteady, AnswerSteady, CrashSteady DEF ResearchNext

LEMMA SteadyOnRecord == SteadyInv => SearchesOnRecord
<1> SUFFICES ASSUME SteadyInv, NEW r \in recorded, r.session \in steady
             PROVE  /\ saving = {} => r.session \in DOMAIN file /\ r.entry \in file[r.session].ledger
                    /\ \A v \in Versions(r.session) : r.entry \in v.ledger
  BY DEF SearchesOnRecord
<1>1. saving = {} => OnRecord(file, r)
  BY DEF SteadyInv, FileKeeps
<1>2. \A p \in Processes : Up(p) => OnRecord(mem[p], r)
  BY DEF SteadyInv, MemoryKeeps
<1>3. saving # {} => DOMAIN file = {}
  BY DEF SteadyInv, EmptyWhileSaved
<1> QED
  BY <1>1, <1>2, <1>3 DEF OnRecord, Versions

(* A search that was answered stays in the ledger of its session, in every    *)
(* process and in the file (minddrill_research.go), over crashes, restarts   *)
(* and failed calls, while the calls of the session do not overlap, one      *)
(* process uses the file and it does not die in a write.                     *)
THEOREM RecordSafety == ResearchSpec => []SearchesOnRecord
BY SteadyInit, SteadyStep, SteadyOnRecord, PTL DEF ResearchSpec
=============================================================================
