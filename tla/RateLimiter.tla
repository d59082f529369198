---------------------------- MODULE RateLimiter -----------------------------
(***************************************************************************)
(* The token bucket in front of every route (middleware_limits.go): one    *)
(* bucket per API key or client address, refilled by the time since it was *)
(* last seen, dropped when it was idle for five minutes.                   *)
(*                                                                         *)
(* A request reads the clock before it takes the lock, so requests enter   *)
(* the buckets in another order than that of their times: a bucket's time  *)
(* runs backwards now and then.  Tokens are measured in the time it takes  *)
(* to earn them: a request costs Cost ticks of the clock, a full bucket is *)
(* worth Burst ticks.                                                      *)
(***************************************************************************)
EXTENDS Integers

CONSTANTS
    Keys,        \* API keys and client addresses
    Handlers,    \* requests that can be under way at once
    Cost,        \* ticks that earn one token: a minute over RATE_LIMIT_PER_MINUTE
    Burst,       \* ticks that fill a bucket: Cost times RATE_LIMIT_BURST
    GCEvery,     \* ticks between two collections of idle buckets
    IdleAfter,   \* ticks after which a bucket is idle
    Skew,        \* ticks a request waits for the lock at most
    MaxClock     \* bound of the clock

\* Any rate and burst: newRateLimiter does not compare them with the idle time.
ASSUME RateAssumption ==
    /\ {Cost, Burst, GCEvery, IdleAfter, Skew, MaxClock} \subseteq Nat
    /\ Cost > 0

VARIABLES
    clock,       \* time.Now()
    asking,      \* request -> the key and the time it read, or NotAsking
    buckets,     \* key -> [tokens, lastSeen], or NoBucket
    lastGC,
    since,       \* the start of a period, any period, that is looked at
    admitted     \* key -> ticks' worth of requests let through in that period

rateVars == <<clock, asking, buckets, lastGC, since, admitted>>

NotAsking == [now |-> -1]
NoBucket == [tokens |-> 0, lastSeen |-> -1]
minFloat(a, b) == IF a < b THEN a ELSE b

-----------------------------------------------------------------------------
RateInit ==
    /\ clock = 0 /\ lastGC = 0
    /\ asking = [r \in Handlers |-> NotAsking]
    /\ buckets = [k \in Keys |-> NoBucket]
    /\ since \in 0..MaxClock
    /\ admitted = [k \in Keys |-> 0]

\* now := time.Now(), before the lock.
Arrive(r, k) ==
    /\ asking[r] = NotAsking
    /\ asking' = [asking EXCEPT ![r] = [now |-> clock, key |-> k]]
    /\ UNCHANGED <<clock, buckets, lastGC, since, admitted>>

\* Mutant: the collection drops every bucket, whenever it was last seen.
MutantIdle(now, k) == now - lastGC > GCEvery
\* The buckets after the collection a request at this time starts with.
Idle(now, k) == now - lastGC > GCEvery /\ now - buckets[k].lastSeen > IdleAfter
Collected(now) == [k \in Keys |-> IF Idle(now, k) THEN NoBucket ELSE buckets[k]]
BucketOf(b, now) == IF b = NoBucket THEN [tokens |-> Burst, lastSeen |-> now] ELSE b
Refilled(b, now) == minFloat(Burst, b.tokens + (now - b.lastSeen))

\* Under the lock: collect, refill, and take a token or refuse.
allow(r) ==
    LET now == asking[r].now
        key == asking[r].key
        tokens == Refilled(BucketOf(Collected(now)[key], now), now)
        taken == IF tokens < Cost THEN 0 ELSE Cost
    IN  /\ asking[r] # NotAsking
        /\ lastGC' = IF now - lastGC > GCEvery THEN now ELSE lastGC
        /\ buckets' = [Collected(now) EXCEPT ![key] =
                          [tokens |-> tokens - taken, lastSeen |-> now]]
        /\ admitted' = [admitted EXCEPT ![key] = IF clock < since THEN @ ELSE @ + taken]
        /\ asking' = [asking EXCEPT ![r] = NotAsking]
        /\ UNCHANGED <<clock, since>>

\* Time passes; nobody waits for the lock for longer than Skew.
Tick ==
    /\ clock < MaxClock
    /\ \A r \in Handlers : asking[r] = NotAsking \/ clock + 1 - asking[r].now <= Skew
    /\ clock' = clock + 1
    /\ UNCHANGED <<asking, buckets, lastGC, since, admitted>>

RateNext == Tick \/ \E r \in Handlers : allow(r) \/ \E k \in Keys : Arrive(r, k)
RateSpec == RateInit /\ [][RateNext]_rateVars

-----------------------------------------------------------------------------
RateTypeOK ==
    /\ clock \in Nat /\ lastGC \in Nat /\ since \in Nat
    /\ asking \in [Handlers -> {NotAsking} \cup [now : Nat, key : Keys]]
    /\ buckets \in [Keys -> [tokens : Int, lastSeen : Int]]
    /\ admitted \in [Keys -> Nat]

\* What a key gains when its bucket is dropped: a full one, less what it would
\* have earned in the time it was idle for, and than what it was overdrawn by.
Excess == LET gain == Burst + 2 * Skew - (IdleAfter + 1) IN IF gain > 0 THEN gain ELSE 0

\* Whether a key's bucket can be dropped n times in a period of this length: its
\* drops are more than IdleAfter apart and any two collections more than GCEvery,
\* but for the time a request waits for the lock.
CanBeDropped(n, length) ==
    n > 0 => /\ (n - 1) * (IdleAfter + 1 - Skew) <= length
             /\ (n - 1) * (GCEvery + 1) <= length + Skew

(* In no period does a key get more than a full bucket, what the period and   *)
(* the longest wait for the lock earn, and what it gains each time that its   *)
(* bucket can have been dropped and filled again: in whatever order its       *)
(* requests reach the lock.  It gains nothing unless a bucket holds more than *)
(* five minutes earn.                                                         *)
NeverOverspent ==
    clock >= since => \A k \in Keys :
        \E n \in 0 .. clock - since + Skew + 1 :
            /\ CanBeDropped(n, clock - since)
            /\ admitted[k] <= Burst + Skew + (clock - since) + n * Excess
=============================================================================
