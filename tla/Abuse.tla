-------------------------------- MODULE Abuse --------------------------------
(***************************************************************************)
(* The two tables the bot holds against abuse, as values and the ways      *)
(* their methods change them: RateLimiter, a token bucket per key, and     *)
(* Cooldowns, a time per key until which it is barred.  Both are bounded,  *)
(* and make room when they are full.  Where the code goes by insertion     *)
(* order (the oldest bucket, the first of equals) any choice is allowed.   *)
(***************************************************************************)
EXTENDS Integers, FiniteSets, Functions

CONSTANTS
  Capacity,   \* RateLimiter: tokens of a full bucket
  RefillMs,   \* RateLimiter: time to regain one
  MaxKeys,    \* RateLimiter: buckets tracked
  MaxEntries  \* Cooldowns: entries tracked

ASSUME AbuseAssumption ==
  {Capacity, RefillMs, MaxKeys, MaxEntries} \subseteq Nat \ {0}

Size(t)       == Cardinality(DOMAIN t)
Without(t, k) == Restrict(t, DOMAIN t \ {k})
With(t, k, v) == [j \in DOMAIN t \cup {k} |-> IF j = k THEN v ELSE t[j]]

-----------------------------------------------------------------------------
(* RateLimiter: buckets is a function from keys to [tokens, updated].      *)

Periods(b, now) == (now - b.updated) \div RefillMs
Logical(b, now) == b.tokens + Periods(b, now)

\* Mutant: the clock of the bucket is not advanced by what was credited.
Refilled_Twice(b, now) ==
  [b EXCEPT !.tokens = IF Logical(b, now) > Capacity THEN Capacity ELSE Logical(b, now)]

\* Whole periods are credited, and only those are taken off the clock.
Refilled(b, now) ==
  [tokens  |-> IF Logical(b, now) > Capacity THEN Capacity ELSE Logical(b, now),
   updated |-> b.updated + Periods(b, now) * RefillMs]

\* #prune: full buckets go, and if that is not enough one more.
BucketsPruned(buckets, now) ==
  LET kept == RestrictValues(buckets, LAMBDA b : Logical(b, now) < Capacity)
  IN  IF Size(kept) < MaxKeys THEN {kept} ELSE {Without(kept, k) : k \in DOMAIN kept}

\* The tables tryConsume(key) may find itself with before it takes a token.
BucketsReady(buckets, key, now) ==
  IF key \in DOMAIN buckets THEN {[buckets EXCEPT ![key] = Refilled(@, now)]}
  ELSE {With(t, key, [tokens |-> Capacity, updated |-> now]) :
          t \in IF Size(buckets) < MaxKeys THEN {buckets} ELSE BucketsPruned(buckets, now)}

-----------------------------------------------------------------------------
(* Cooldowns: until is a function from keys to times.                      *)

Cooling(until, key, now) == key \in DOMAIN until /\ now < until[key]

\* Mutant: the entry that lasts longest makes room, expired ones or not.
UntilPruned_Any(until, now) ==
  {Without(until, k) : k \in {k \in DOMAIN until : \A j \in DOMAIN until : until[j] <= until[k]}}

\* #pruneExpired, and if that is not enough the entry soonest to expire goes.
UntilPruned(until, now) ==
  LET kept == RestrictValues(until, LAMBDA u : u > now)
  IN  IF Size(kept) < MaxEntries THEN {kept}
      ELSE {Without(kept, k) : k \in {k \in DOMAIN kept : \A j \in DOMAIN kept : kept[k] <= kept[j]}}

\* The tables check(key, ms) may leave behind when key is not cooling.
Armed(until, key, ms, now) ==
  {With(t, key, now + ms) :
     t \in IF key \in DOMAIN until \/ Size(until) < MaxEntries THEN {until}
           ELSE UntilPruned(until, now)}
=============================================================================
