---------------------------- MODULE RouterProofs ----------------------------
(***************************************************************************)
(* What CommandRouter and the tables of Abuse keep for every table of      *)
(* commands, every bound and every clock: slots, names, token buckets and  *)
(* cooldowns.  The inductive invariant ties the tables, which forget, to   *)
(* the history of runs, which does not: as long as the tables were not     *)
(* crowded, a bucket never holds more than its sender may still spend, and *)
(* a cooldown in force is on file.                                         *)
(***************************************************************************)
EXTENDS CommandRouter, FiniteSetTheorems, SequenceTheorems, TLAPS

Bucket == [tokens : 0..Capacity, updated : 0..now]

NamesTyped == byName \in [Names -> Entries \cup {NoEntry}] /\ added \subseteq Entries

\* Runs are kept in the order they were given their tokens.
RunsTyped ==
  /\ now \in 0..MaxTime /\ disposed \in BOOLEAN /\ inFlight \in 0..Concurrency
  /\ runs \in Seq(Run) /\ Len(runs) <= MaxRuns
  /\ \A j \in DOMAIN runs : runs[j].since <= now /\ \A i \in 1..j : runs[i].since <= runs[j].since

BucketsTyped ==
  /\ IsFiniteSet(DOMAIN buckets) /\ DOMAIN buckets \subseteq Senders /\ Size(buckets) <= MaxKeys
  /\ \A k \in DOMAIN buckets : buckets[k] \in Bucket

UntilTyped ==
  /\ IsFiniteSet(DOMAIN until) /\ Size(until) <= MaxEntries
  /\ DOMAIN until \subseteq (Senders \X Names) \cup {LogKey}
  /\ \A k \in DOMAIN until : until[k] \in Nat

-----------------------------------------------------------------------------
(* The tables and the history.                                             *)

\* A bucket was last touched by a run of its sender, and its clock is not ahead of that.
Spent ==
  \A s \in DOMAIN buckets :
    \E k \in DOMAIN runs : runs[k].sender = s /\ buckets[s].updated <= runs[k].since

\* From run i to the last, there were never more busy senders than buckets.
Calm(i) == \A m \in i..Len(runs) : Cardinality(Busy(m)) <= MaxKeys

\* What a sender gains between two times, and between run i and a time.
Gained(since, time) == (time - since + RefillMs - 1) \div RefillMs
Gain(i, time)       == Gained(runs[i].since, time)

\* The runs of a sender from run i on.
RunsOf(i, s) == {k \in i..Len(runs) : runs[k].sender = s}

\* What a sender has spent since run i and what its bucket still holds is a burst and what
\* was gained meanwhile.  A bucket that is gone counts as full.
Fair ==
  \A i \in DOMAIN runs : \A s \in Senders : Calm(i) =>
    IF s \in DOMAIN buckets
    THEN \/ Cardinality(RunsOf(i, s)) = 0
         \/ Cardinality(RunsOf(i, s)) + buckets[s].tokens <= Capacity + Gain(i, buckets[s].updated)
    ELSE Cardinality(RunsOf(i, s)) <= Gain(i, now)

\* From run i to the last, there were fewer cooldowns in force than entries.
Roomy(i) == \A m \in i..Len(runs) : Cardinality(InForce(m)) < MaxEntries

\* A cooldown in force is on file.
OnFile ==
  \A i \in DOMAIN runs :
    Arms(i) /\ EndsAt(i) > now /\ Roomy(i) =>
      KeyOf(i) \in DOMAIN until /\ until[KeyOf(i)] >= EndsAt(i)

IInv ==
  /\ NamesTyped /\ RunsTyped /\ BucketsTyped /\ UntilTyped
  /\ WholeEntries /\ SlotsMatch
  /\ Spent /\ Fair /\ RateHolds
  /\ CooldownsAreEarned /\ OnFile /\ NoEarlyRepeat

-----------------------------------------------------------------------------
(* The operators of Abuse.                                                 *)

\* The constants of the tables are positive.
LEMMA Constants ==
  /\ Capacity \in Nat \ {0} /\ RefillMs \in Nat \ {0}
  /\ MaxKeys \in Nat \ {0} /\ MaxEntries \in Nat \ {0}
BY AbuseAssumption

\* Whole periods only: what is credited is taken off the clock, and less than a period
\* stays on it.
LEMMA RefilledIs ==
  ASSUME NEW b \in Bucket, now \in Nat
  PROVE  /\ Refilled(b, now) \in Bucket /\ Periods(b, now) \in Nat
         /\ Refilled(b, now).tokens <= b.tokens + Periods(b, now)
         /\ Refilled(b, now).updated = b.updated + Periods(b, now) * RefillMs
         /\ now - Refilled(b, now).updated < RefillMs
<1> DEFINE n == Periods(b, now)
<1>1. b.tokens \in 0..Capacity /\ b.updated \in 0..now
  BY DEF Bucket
<1>2. n \in Nat /\ b.updated + n * RefillMs <= now /\ now - (b.updated + n * RefillMs) < RefillMs
      /\ b.updated + n * RefillMs \in Nat
  <2>1. ASSUME NEW d \in Nat
        PROVE  /\ d \div RefillMs \in Nat /\ (d \div RefillMs) * RefillMs <= d
               /\ d - (d \div RefillMs) * RefillMs < RefillMs /\ (d \div RefillMs) * RefillMs \in Nat
    BY Constants
  <2>2. now - b.updated \in Nat
    BY <1>1
  <2> QED
    BY <1>1, <2>1, <2>2, Constants DEF Periods
<1> HIDE DEF n
<1>3. Logical(b, now) = b.tokens + n
  BY DEF Logical, n
<1>4. Refilled(b, now) = [tokens |-> IF b.tokens + n > Capacity THEN Capacity ELSE b.tokens + n,
                          updated |-> b.updated + n * RefillMs]
  BY <1>3 DEF Refilled, n
<1>5. /\ Refilled(b, now).tokens = (IF b.tokens + n > Capacity THEN Capacity ELSE b.tokens + n)
      /\ Refilled(b, now).updated = b.updated + n * RefillMs
  BY <1>4
<1>6. (IF b.tokens + n > Capacity THEN Capacity ELSE b.tokens + n) \in 0..Capacity
  BY <1>1, <1>2, Constants
<1>7. Refilled(b, now) \in Bucket
  BY <1>2, <1>4, <1>6 DEF Bucket
<1>8. Refilled(b, now).tokens <= b.tokens + n
  BY <1>1, <1>2, <1>5, Constants
<1> QED
  BY <1>2, <1>5, <1>7, <1>8 DEF n

\* A table without an entry.
LEMMA WithoutIs ==
  ASSUME NEW t, IsFiniteSet(DOMAIN t), NEW k \in DOMAIN t
  PROVE  /\ DOMAIN Without(t, k) = DOMAIN t \ {k} /\ \A j \in DOMAIN t \ {k} : Without(t, k)[j] = t[j]
         /\ IsFiniteSet(DOMAIN Without(t, k)) /\ Size(Without(t, k)) = Size(t) - 1
<1>1. DOMAIN Without(t, k) = DOMAIN t \ {k} /\ \A j \in DOMAIN t \ {k} : Without(t, k)[j] = t[j]
  BY DEF Without, Restrict
<1> QED
  BY <1>1, FS_RemoveElement DEF Size

\* The buckets that are not full are kept.
Short == {k \in DOMAIN buckets : Logical(buckets[k], now) < Capacity}

\* #prune makes room for one; what it drops was full, or all the others are short.
LEMMA PrunedIs ==
  ASSUME BucketsTyped, NEW t \in BucketsPruned(buckets, now)
  PROVE  /\ IsFiniteSet(DOMAIN t) /\ DOMAIN t \subseteq DOMAIN buckets /\ Size(t) < MaxKeys
         /\ \A k \in DOMAIN t : t[k] = buckets[k]
         /\ Cardinality(Short) >= MaxKeys \/ Short \subseteq DOMAIN t
<1> DEFINE kept == RestrictValues(buckets, LAMBDA b : Logical(b, now) < Capacity)
<1>1. kept = [k \in Short |-> buckets[k]]
  BY DEF RestrictValues, Restrict, Short
<1>2. DOMAIN kept = Short /\ Short \subseteq DOMAIN buckets /\ \A k \in Short : kept[k] = buckets[k]
  BY <1>1 DEF Short
<1>3. IsFiniteSet(Short) /\ Size(kept) = Cardinality(Short) /\ Size(kept) <= MaxKeys /\ Size(kept) \in Nat
  BY <1>2, FS_Subset, FS_CardinalityType, Constants DEF BucketsTyped, Size
<1>4. t \in IF Size(kept) < MaxKeys THEN {kept} ELSE {Without(kept, k) : k \in DOMAIN kept}
  BY DEF BucketsPruned
<1> HIDE DEF kept
<1>5. CASE Size(kept) < MaxKeys
  BY <1>2, <1>3, <1>4, <1>5
<1>6. CASE ~(Size(kept) < MaxKeys)
  <2>1. PICK k \in Short : t = Without(kept, k)
    BY <1>2, <1>4, <1>6
  <2>2. /\ DOMAIN Without(kept, k) = DOMAIN kept \ {k}
        /\ \A j \in DOMAIN kept \ {k} : Without(kept, k)[j] = kept[j]
        /\ IsFiniteSet(DOMAIN Without(kept, k)) /\ Size(Without(kept, k)) = Size(kept) - 1
    <3>1. IsFiniteSet(DOMAIN kept) /\ k \in DOMAIN kept
      BY <1>2, <1>3
    <3> QED
      BY <3>1, WithoutIs
  <2> QED
    BY <1>2, <1>3, <1>6, <2>1, <2>2, Constants
<1> QED
  BY <1>5, <1>6

\* tryConsume(): the sender's bucket is refilled or fresh, and the others are as they were
\* or gone.
LEMMA ReadyIs ==
  ASSUME BucketsTyped, now \in Nat, NEW s \in Senders, NEW t \in BucketsReady(buckets, s, now)
  PROVE  /\ IsFiniteSet(DOMAIN t) /\ DOMAIN t \subseteq Senders /\ Size(t) <= MaxKeys
         /\ s \in DOMAIN t /\ \A k \in DOMAIN t : t[k] \in Bucket
         /\ \A k \in DOMAIN t \ {s} : k \in DOMAIN buckets /\ t[k] = buckets[k]
         /\ s \in DOMAIN buckets => t[s] = Refilled(buckets[s], now) /\ DOMAIN t = DOMAIN buckets
         /\ s \notin DOMAIN buckets =>
              /\ t[s] = [tokens |-> Capacity, updated |-> now]
              /\ Cardinality(Short) >= MaxKeys \/ Short \subseteq DOMAIN t
<1>1. CASE s \in DOMAIN buckets
  <2>1. t = [buckets EXCEPT ![s] = Refilled(buckets[s], now)]
    BY <1>1 DEF BucketsReady
  <2>2. DOMAIN t = DOMAIN buckets /\ t[s] = Refilled(buckets[s], now)
        /\ \A k \in DOMAIN t \ {s} : t[k] = buckets[k]
    BY <1>1, <2>1
  <2>3. t[s] \in Bucket
    BY <1>1, <2>2, RefilledIs DEF BucketsTyped
  <2> QED
    BY <1>1, <2>2, <2>3 DEF BucketsTyped, Size
<1>2. CASE s \notin DOMAIN buckets
  <2> DEFINE fresh == [tokens |-> Capacity, updated |-> now]
  <2>1. PICK u \in (IF Size(buckets) < MaxKeys THEN {buckets} ELSE BucketsPruned(buckets, now)) :
          t = With(u, s, fresh)
    BY <1>2 DEF BucketsReady
  <2>2. /\ IsFiniteSet(DOMAIN u) /\ DOMAIN u \subseteq DOMAIN buckets /\ Size(u) < MaxKeys
        /\ \A k \in DOMAIN u : u[k] = buckets[k]
        /\ Cardinality(Short) >= MaxKeys \/ Short \subseteq DOMAIN u
    <3>1. CASE Size(buckets) < MaxKeys
      BY <2>1, <3>1 DEF BucketsTyped, Short
    <3>2. CASE ~(Size(buckets) < MaxKeys)
      BY <2>1, <3>2, PrunedIs
    <3> QED
      BY <3>1, <3>2
  <2>3. s \notin DOMAIN u
    BY <1>2, <2>2
  <2>4. /\ DOMAIN t = DOMAIN u \cup {s} /\ \A k \in DOMAIN u \ {s} : t[k] = u[k]
        /\ t[s] = fresh /\ IsFiniteSet(DOMAIN t) /\ Size(t) = Size(u) + 1
    <3>1. DOMAIN t = DOMAIN u \cup {s} /\ t[s] = fresh /\ \A k \in DOMAIN u \ {s} : t[k] = u[k]
      BY <2>1 DEF With
    <3>2. IsFiniteSet(DOMAIN t) /\ Size(t) = Size(u) + 1
      BY <2>2, <2>3, <3>1, FS_AddElement DEF Size
    <3> QED
      BY <3>1, <3>2
  <2>5. fresh \in Bucket
    BY Constants DEF Bucket
  <2>6. Size(t) <= MaxKeys
    BY <2>2, <2>4, FS_CardinalityType, Constants DEF Size
  <2> QED
    BY <1>2, <2>2, <2>3, <2>4, <2>5, <2>6 DEF BucketsTyped
<1> QED
  BY <1>1, <1>2

\* The cooldowns that have not run out.
Live == {k \in DOMAIN until : until[k] > now}

Keys == (Senders \X Names) \cup {LogKey}

\* #pruneExpired, and the eviction behind it, make room for one; what is lost was expired,
\* or the table is full of live ones.
LEMMA UntilPrunedIs ==
  ASSUME UntilTyped, NEW t \in UntilPruned(until, now)
  PROVE  /\ IsFiniteSet(DOMAIN t) /\ DOMAIN t \subseteq DOMAIN until /\ Size(t) < MaxEntries
         /\ \A k \in DOMAIN t : t[k] = until[k]
         /\ Cardinality(Live) >= MaxEntries \/ Live \subseteq DOMAIN t
<1> DEFINE kept == RestrictValues(until, LAMBDA u : u > now)
<1>1. kept = [k \in Live |-> until[k]]
  BY DEF RestrictValues, Restrict, Live
<1>2. DOMAIN kept = Live /\ Live \subseteq DOMAIN until /\ \A k \in Live : kept[k] = until[k]
  BY <1>1 DEF Live
<1>3. IsFiniteSet(Live) /\ Size(kept) = Cardinality(Live) /\ Size(kept) <= MaxEntries /\ Size(kept) \in Nat
  BY <1>2, FS_Subset, FS_CardinalityType, Constants DEF UntilTyped, Size
<1>4. \/ Size(kept) < MaxEntries /\ t = kept
      \/ ~(Size(kept) < MaxEntries) /\ \E k \in DOMAIN kept : t = Without(kept, k)
  BY DEF UntilPruned
<1> HIDE DEF kept
<1>5. CASE Size(kept) < MaxEntries
  BY <1>2, <1>3, <1>4, <1>5
<1>6. CASE ~(Size(kept) < MaxEntries)
  <2>1. PICK k \in Live : t = Without(kept, k)
    BY <1>2, <1>4, <1>6
  <2>2. /\ DOMAIN Without(kept, k) = DOMAIN kept \ {k}
        /\ \A j \in DOMAIN kept \ {k} : Without(kept, k)[j] = kept[j]
        /\ IsFiniteSet(DOMAIN Without(kept, k)) /\ Size(Without(kept, k)) = Size(kept) - 1
    <3>1. IsFiniteSet(DOMAIN kept) /\ k \in DOMAIN kept
      BY <1>2, <1>3
    <3> QED
      BY <3>1, WithoutIs
  <2> QED
    BY <1>2, <1>3, <1>6, <2>1, <2>2, Constants
<1> QED
  BY <1>5, <1>6

\* check(): the key's entry is set, the others are as they were or gone.
LEMMA ArmedIs ==
  ASSUME UntilTyped, now \in Nat, NEW key \in Keys, NEW ms \in Nat, NEW t \in Armed(until, key, ms, now)
  PROVE  /\ IsFiniteSet(DOMAIN t) /\ DOMAIN t \subseteq Keys /\ Size(t) <= MaxEntries
         /\ \A k \in DOMAIN t : t[k] \in Nat
         /\ key \in DOMAIN t /\ t[key] = now + ms
         /\ \A k \in DOMAIN t \ {key} : k \in DOMAIN until /\ t[k] = until[k]
         /\ Live \subseteq DOMAIN t \/ (key \notin DOMAIN until /\ Cardinality(Live) >= MaxEntries)
<1>1. PICK u \in (IF key \in DOMAIN until \/ Size(until) < MaxEntries THEN {until}
                  ELSE UntilPruned(until, now)) :
        t = With(u, key, now + ms)
  BY DEF Armed
<1>2. /\ IsFiniteSet(DOMAIN u) /\ DOMAIN u \subseteq DOMAIN until
      /\ \A k \in DOMAIN u : u[k] = until[k]
      /\ Size(u) <= MaxEntries /\ (key \notin DOMAIN u => Size(u) < MaxEntries)
      /\ Live \subseteq DOMAIN u \/ (key \notin DOMAIN until /\ Cardinality(Live) >= MaxEntries)
  <2>1. CASE key \in DOMAIN until \/ Size(until) < MaxEntries
    BY <1>1, <2>1 DEF UntilTyped, Live
  <2>2. CASE ~(key \in DOMAIN until \/ Size(until) < MaxEntries)
    <3>1. u \in UntilPruned(until, now)
      BY <1>1, <2>2
    <3>2. Size(u) \in Nat
      BY <3>1, UntilPrunedIs, FS_CardinalityType DEF Size
    <3> QED
      BY <2>2, <3>1, <3>2, UntilPrunedIs, Constants
  <2> QED
    BY <2>1, <2>2
<1>3. DOMAIN t = DOMAIN u \cup {key} /\ t[key] = now + ms /\ \A k \in DOMAIN u \ {key} : t[k] = u[k]
  BY <1>1 DEF With
<1>4. IsFiniteSet(DOMAIN t) /\ Size(t) <= MaxEntries
  <2>1. Size(u) \in Nat
    BY <1>2, FS_CardinalityType DEF Size
  <2>2. IsFiniteSet(DOMAIN t) /\ Size(t) = IF key \in DOMAIN u THEN Size(u) ELSE Size(u) + 1
    BY <1>2, <1>3, FS_AddElement DEF Size
  <2> QED
    BY <1>2, <2>1, <2>2, Constants
<1>5. DOMAIN u \subseteq Keys /\ \A k \in DOMAIN u : u[k] \in Nat
  BY <1>2 DEF UntilTyped, Keys
<1> QED
  BY <1>2, <1>3, <1>4, <1>5

-----------------------------------------------------------------------------
(* The history of runs.                                                    *)

\* What a run is told by does not change any more.
SameTo(n) ==
  \A k \in 1..n : /\ runs'[k].sender = runs[k].sender /\ runs'[k].entry = runs[k].entry
                  /\ runs'[k].since = runs[k].since
                  /\ (runs'[k].phase = "refused") = (runs[k].phase = "refused")

\* Who was busy and what was in force at a run depends on the runs up to it.
LEMMA PastStays ==
  ASSUME NEW n \in Nat, SameTo(n), NEW m \in 1..n
  PROVE  /\ Busy(m)' = Busy(m) /\ InForce(m)' = InForce(m)
         /\ Arms(m)' = Arms(m) /\ KeyOf(m)' = KeyOf(m) /\ EndsAt(m)' = EndsAt(m)
<1>1. ASSUME NEW k \in 1..m
      PROVE  /\ Arms(k)' = Arms(k) /\ KeyOf(k)' = KeyOf(k) /\ EndsAt(k)' = EndsAt(k)
             /\ runs'[k].sender = runs[k].sender /\ runs'[k].since = runs[k].since
  BY DEF SameTo, Arms, KeyOf, EndsAt, CooldownKey
<1>2. m \in 1..m
  OBVIOUS
<1>3. Busy(m)' = Busy(m)
  BY <1>1, <1>2 DEF Busy
<1>4. InForce(m)' = InForce(m)
  BY <1>1, <1>2 DEF InForce
<1> QED
  BY <1>1, <1>2, <1>3, <1>4

\* A step leaves the history as it was, moves one run on, or adds one that starts now.
Grown ==
  /\ runs' \in Seq(Run) /\ SameTo(Len(runs))
  /\ \/ Len(runs') = Len(runs)
     \/ Len(runs') = Len(runs) + 1 /\ runs'[Len(runs')].since = now /\ now' = now

\* What was calm or roomy before is so still, up to the runs there were.
LEMMA PastCounts ==
  ASSUME RunsTyped, Grown, NEW i \in DOMAIN runs
  PROVE  (Calm(i)' => Calm(i)) /\ (Roomy(i)' => Roomy(i))
<1>1. Len(runs) \in Nat /\ Len(runs') \in Nat /\ Len(runs) <= Len(runs') /\ DOMAIN runs = 1..Len(runs)
  BY DEF RunsTyped, Grown
<1>2. ASSUME NEW m \in i..Len(runs)
      PROVE  m \in (i..Len(runs'))  /\ Busy(m)' = Busy(m) /\ InForce(m)' = InForce(m)
  BY <1>1, PastStays DEF Grown
<1> QED
  BY <1>2 DEF Calm, Roomy

\* A command that gets its token is the last of the history.
LEMMA AppendGrows ==
  ASSUME RunsTyped, NEW s \in Senders, NEW e \in Entries, NEW p \in Phases, Len(runs) < MaxRuns,
         runs' = Append(runs, [sender |-> s, entry |-> e, since |-> now, phase |-> p]),
         UNCHANGED <<now, disposed>>, inFlight' \in 0..Concurrency
  PROVE  /\ Grown /\ RunsTyped' /\ Len(runs') = Len(runs) + 1
         /\ runs'[Len(runs) + 1] = [sender |-> s, entry |-> e, since |-> now, phase |-> p]
         /\ \A k \in DOMAIN runs : runs'[k] = runs[k]
<1> DEFINE r == [sender |-> s, entry |-> e, since |-> now, phase |-> p]
<1>1. r \in Run /\ r.since = now
  BY DEF Run, RunsTyped
<1> HIDE DEF r
<1>2. runs' = Append(runs, r) /\ runs \in Seq(Run) /\ Len(runs) \in Nat
  BY DEF r, RunsTyped
<1>3. /\ runs' \in Seq(Run) /\ Len(runs') = Len(runs) + 1 /\ runs'[Len(runs) + 1] = r
      /\ \A k \in 1..Len(runs) : runs'[k] = runs[k]
  BY <1>1, <1>2, AppendProperties
<1>4. Grown
  BY <1>1, <1>2, <1>3 DEF Grown, SameTo
<1>5. DOMAIN runs = 1..Len(runs) /\ DOMAIN runs' = 1..Len(runs')
  BY <1>2, <1>3
<1>6. ASSUME NEW j \in DOMAIN runs', NEW i \in 1..j
      PROVE  runs'[i].since <= runs'[j].since /\ runs'[j].since <= now
  <2>1. now \in Nat /\ runs'[j].since <= now
    BY <1>1, <1>2, <1>3, <1>5 DEF RunsTyped
  <2>2. CASE j \in DOMAIN runs
    BY <1>3, <1>5, <2>1, <2>2 DEF RunsTyped
  <2>3. CASE j = Len(runs) + 1
    BY <1>1, <1>2, <1>3, <1>5, <2>3, <2>1 DEF RunsTyped
  <2> QED
    BY <1>2, <1>3, <1>5, <2>2, <2>3
<1>7. RunsTyped'
  <2>1. \A j \in DOMAIN runs' : runs'[j].since <= now /\ \A i \in 1..j : runs'[i].since <= runs'[j].since
    <3> SUFFICES ASSUME NEW j \in DOMAIN runs'
                 PROVE  runs'[j].since <= now /\ \A i \in 1..j : runs'[i].since <= runs'[j].since
      OBVIOUS
    <3>1. j \in 1..j
      BY <1>5
    <3> QED
      BY <1>6, <3>1
  <2>2. Len(runs') <= MaxRuns
    BY <1>2, <1>3, RouterAssumption
  <2> QED
    BY <1>3, <2>1, <2>2 DEF RunsTyped
<1> QED
  BY <1>3, <1>4, <1>5, <1>7 DEF r

\* A run that moves on keeps its place.
LEMMA PhaseGrows ==
  ASSUME RunsTyped, NEW i \in DOMAIN runs, NEW p \in Phases \ {"refused"}, runs[i].phase # "refused",
         runs' = [runs EXCEPT ![i].phase = p], UNCHANGED <<now, disposed>>, inFlight' \in 0..Concurrency
  PROVE  /\ Grown /\ RunsTyped' /\ Len(runs') = Len(runs) /\ DOMAIN runs' = DOMAIN runs
         /\ runs'[i].phase = p /\ \A k \in DOMAIN runs \ {i} : runs'[k] = runs[k]
<1>1. runs \in Seq(Run) /\ Len(runs) \in Nat /\ DOMAIN runs = 1..Len(runs)
  BY DEF RunsTyped
<1>2. runs[i] \in Run
  BY <1>1, ElementOfSeq
<1>3. [runs[i] EXCEPT !.phase = p] \in Run
  BY <1>2 DEF Run
<1>4. runs' = [runs EXCEPT ![i] = [runs[i] EXCEPT !.phase = p]]
  OBVIOUS
<1>5. runs' \in Seq(Run) /\ Len(runs') = Len(runs)
  BY <1>1, <1>3, <1>4, ExceptSeq
<1>6. DOMAIN runs' = DOMAIN runs
  OBVIOUS
<1>7. \A k \in DOMAIN runs \ {i} : runs'[k] = runs[k]
  OBVIOUS
<1>8. /\ runs'[i].phase = p /\ runs'[i].sender = runs[i].sender /\ runs'[i].entry = runs[i].entry
      /\ runs'[i].since = runs[i].since
  BY <1>2, <1>4 DEF Run
<1>9. \A k \in DOMAIN runs : runs'[k].since = runs[k].since
  BY <1>7, <1>8
<1>10. Grown
  BY <1>1, <1>5, <1>7, <1>8 DEF Grown, SameTo
<1>11. RunsTyped'
  <2>1. \A j \in DOMAIN runs' : runs'[j].since <= now /\ \A k \in 1..j : runs'[k].since <= runs'[j].since
    <3> SUFFICES ASSUME NEW j \in DOMAIN runs', NEW k \in 1..j
                 PROVE  runs'[j].since <= now /\ runs'[k].since <= runs'[j].since
      BY <1>1, <1>6
    <3>1. j \in DOMAIN runs /\ k \in DOMAIN runs
      BY <1>1, <1>6
    <3> QED
      BY <1>9, <3>1 DEF RunsTyped
  <2> QED
    BY <1>5, <2>1 DEF RunsTyped
<1> QED
  BY <1>5, <1>6, <1>7, <1>8, <1>10, <1>11

\* The runs that hold a slot are finitely many.
LEMMA UnfinishedIsFinite ==
  ASSUME RunsTyped
  PROVE  IsFiniteSet(Unfinished) /\ Cardinality(Unfinished) \in Nat /\ Unfinished \subseteq 1..Len(runs)
<1>1. Len(runs) \in Nat /\ Unfinished \subseteq 1..Len(runs)
  BY DEF RunsTyped, Unfinished
<1>2. IsFiniteSet(1..Len(runs))
  BY <1>1, FS_Interval
<1>3. IsFiniteSet(Unfinished)
  BY <1>1, <1>2, FS_Subset
<1> QED
  BY <1>1, <1>3, FS_CardinalityType

-----------------------------------------------------------------------------
(* The command table.                                                      *)

\* What Next does to the command table.
LEMMA NamesSteps ==
  ASSUME [Next]_vars
  PROVE  (\E e \in Entries : Add(e) \/ Remove(e)) \/ Dispose \/ UNCHANGED <<byName, added>>
BY DEF Next, vars, Overloaded, RateLimited, OnCooldown, Admitted, TakesToken, HandlerSettles, TimesOut, Settles,
       Finalizes, Tick

\* add() takes all names or none, and a disposer frees only what is still the entry's own.
LEMMA NamesKeep ==
  ASSUME NamesTyped, WholeEntries, [Next]_vars
  PROVE  NamesTyped' /\ WholeEntries'
<1>0. NoEntry \notin Entries /\ \A e \in Entries : NamesOf[e] \subseteq Names
  BY RouterAssumption DEF Names
<1>1. ASSUME NEW e \in Entries, Add(e)
      PROVE  NamesTyped' /\ WholeEntries'
  <2>1. /\ \A n \in NamesOf[e] : byName[n] = NoEntry
        /\ byName' = [n \in Names |-> IF n \in NamesOf[e] THEN e ELSE byName[n]]
        /\ added' = added \cup {e}
    BY <1>1 DEF Add
  <2>2. NamesTyped'
    BY <2>1 DEF NamesTyped
  <2>3. ASSUME NEW f \in Entries
        PROVE  {n \in NamesOf[f] : byName'[n] = f} \in {{}, NamesOf[f]}
    <3>1. CASE f = e
      <4>1. {n \in NamesOf[f] : byName'[n] = f} = NamesOf[f]
        BY <1>0, <2>1, <3>1
      <4> QED
        BY <4>1
    <3>2. CASE f # e
      <4>1. {n \in NamesOf[f] : byName'[n] = f} = {n \in NamesOf[f] : byName[n] = f}
        BY <1>0, <2>1, <3>2
      <4> QED
        BY <4>1 DEF WholeEntries
    <3> QED
      BY <3>1, <3>2
  <2> QED
    BY <2>2, <2>3 DEF WholeEntries
<1>2. ASSUME NEW e \in Entries, Remove(e)
      PROVE  NamesTyped' /\ WholeEntries'
  <2>1. byName' = [n \in Names |-> IF byName[n] = e THEN NoEntry ELSE byName[n]] /\ added' = added
    BY <1>2 DEF Remove
  <2>2. NamesTyped'
    BY <2>1 DEF NamesTyped
  <2>3. ASSUME NEW f \in Entries
        PROVE  {n \in NamesOf[f] : byName'[n] = f} \in {{}, NamesOf[f]}
    <3>1. CASE f = e
      <4>1. {n \in NamesOf[f] : byName'[n] = f} = {}
        BY <1>0, <2>1, <3>1
      <4> QED
        BY <4>1
    <3>2. CASE f # e
      <4>1. {n \in NamesOf[f] : byName'[n] = f} = {n \in NamesOf[f] : byName[n] = f}
        BY <1>0, <2>1, <3>2
      <4> QED
        BY <4>1 DEF WholeEntries
    <3> QED
      BY <3>1, <3>2
  <2> QED
    BY <2>2, <2>3 DEF WholeEntries
<1>3. CASE Dispose
  <2>1. byName' = [n \in Names |-> NoEntry] /\ added' = added
    BY <1>3 DEF Dispose
  <2>2. ASSUME NEW f \in Entries
        PROVE  {n \in NamesOf[f] : byName'[n] = f} = {}
    BY <1>0, <2>1
  <2> QED
    BY <2>1, <2>2 DEF NamesTyped, WholeEntries
<1>4. CASE UNCHANGED <<byName, added>>
  BY <1>4 DEF NamesTyped, WholeEntries
<1> QED
  BY <1>1, <1>2, <1>3, <1>4, NamesSteps

-----------------------------------------------------------------------------
(* Slots.                                                                  *)

\* The steps that touch neither the history nor the slots.
LEMMA SlotsStay ==
  ASSUME RunsTyped, SlotsMatch, UNCHANGED <<runs, inFlight, disposed>>, now' \in now..MaxTime
  PROVE  RunsTyped' /\ SlotsMatch' /\ Grown
<1>1. RunsTyped'
  <2>1. runs \in Seq(Run) /\ now \in Nat /\ now' \in Nat /\ now <= now' /\ now' \in 0..MaxTime
    BY DEF RunsTyped
  <2>2. \A j \in DOMAIN runs : runs[j].since \in Nat
    <3> SUFFICES ASSUME NEW j \in DOMAIN runs PROVE runs[j].since \in Nat
      OBVIOUS
    <3>1. runs[j] \in Run
      BY <2>1, ElementOfSeq
    <3> QED
      BY <3>1, RouterAssumption DEF Run
  <2>3. \A j \in DOMAIN runs : runs[j].since <= now'
    BY <2>1, <2>2 DEF RunsTyped
  <2> QED
    BY <2>1, <2>3 DEF RunsTyped
<1>2. SlotsMatch'
  BY DEF SlotsMatch, Unfinished
<1>3. Grown
  BY DEF Grown, SameTo, RunsTyped
<1> QED
  BY <1>1, <1>2, <1>3

\* A command that is admitted takes one slot, one that is refused none.
LEMMA SlotsTaken ==
  ASSUME RunsTyped, SlotsMatch, NEW s \in Senders, NEW e \in Entries, OnCooldown(s, e) \/ Admitted(s, e)
  PROVE  RunsTyped' /\ SlotsMatch' /\ Grown
<1>1. PICK p \in {"refused", "working"} :
        /\ TakesToken(s, e, p)
        /\ inFlight' = IF p = "working" THEN inFlight + 1 ELSE inFlight
  BY DEF OnCooldown, Admitted
<1>2. /\ ~disposed /\ inFlight < Concurrency /\ Len(runs) < MaxRuns /\ UNCHANGED <<now, disposed>>
      /\ runs' = Append(runs, [sender |-> s, entry |-> e, since |-> now, phase |-> p])
  BY <1>1 DEF TakesToken, Resolved
<1>3. p \in Phases /\ inFlight' \in 0..Concurrency
  BY <1>1, <1>2, RouterAssumption DEF Phases, RunsTyped
<1>4. /\ Grown /\ RunsTyped' /\ Len(runs') = Len(runs) + 1
      /\ runs'[Len(runs) + 1].phase = p /\ \A k \in DOMAIN runs : runs'[k] = runs[k]
  BY <1>2, <1>3, AppendGrows
<1>5. /\ DOMAIN runs = 1..Len(runs) /\ DOMAIN runs' = 1..(Len(runs) + 1) /\ Len(runs) \in Nat
      /\ Len(runs) + 1 \notin DOMAIN runs
  BY <1>4 DEF RunsTyped
<1>6. Unfinished' = IF p = "working" THEN Unfinished \cup {Len(runs) + 1} ELSE Unfinished
  BY <1>1, <1>4, <1>5 DEF Unfinished
<1>7. Cardinality(Unfinished') = IF p = "working" THEN Cardinality(Unfinished) + 1 ELSE Cardinality(Unfinished)
  BY <1>5, <1>6, UnfinishedIsFinite, FS_AddElement DEF Unfinished
<1> QED
  BY <1>1, <1>2, <1>4, <1>7 DEF SlotsMatch

\* A handler that settles, or times out, keeps its slot until the finalizer.
LEMMA SlotsSettle ==
  ASSUME RunsTyped, SlotsMatch, NEW i \in DOMAIN runs, Settles(i)
  PROVE  RunsTyped' /\ SlotsMatch' /\ Grown
<1>1. /\ runs[i].phase = "working" /\ runs' = [runs EXCEPT ![i].phase = "settled"]
      /\ UNCHANGED <<now, disposed, inFlight>>
  BY DEF Settles
<1>2. inFlight' \in 0..Concurrency /\ "settled" \in Phases \ {"refused"} /\ runs[i].phase # "refused"
  BY <1>1 DEF RunsTyped, Phases
<1>3. /\ Grown /\ RunsTyped' /\ DOMAIN runs' = DOMAIN runs
      /\ runs'[i].phase = "settled" /\ \A k \in DOMAIN runs \ {i} : runs'[k] = runs[k]
  BY <1>1, <1>2, PhaseGrows
<1>4. Unfinished' = Unfinished
  BY <1>1, <1>3 DEF Unfinished
<1> QED
  BY <1>1, <1>3, <1>4 DEF SlotsMatch

\* The finalizer gives the slot back, unless dispose() did.
LEMMA SlotsReturn ==
  ASSUME RunsTyped, SlotsMatch, NEW i \in DOMAIN runs, Finalizes(i)
  PROVE  RunsTyped' /\ SlotsMatch' /\ Grown
<1>1. /\ runs[i].phase = "settled" /\ runs' = [runs EXCEPT ![i].phase = "done"]
      /\ inFlight' = (IF disposed THEN inFlight ELSE inFlight - 1) /\ UNCHANGED <<now, disposed>>
  BY DEF Finalizes
<1>2. i \in Unfinished /\ IsFiniteSet(Unfinished) /\ Cardinality(Unfinished) \in Nat
  BY <1>1, UnfinishedIsFinite DEF Unfinished
<1>3. Cardinality(Unfinished \ {i}) = Cardinality(Unfinished) - 1 /\ Cardinality(Unfinished) # 0
  BY <1>2, FS_RemoveElement, FS_EmptySet
<1>4. inFlight' \in 0..Concurrency
  BY <1>1, <1>2, <1>3, RouterAssumption DEF RunsTyped, SlotsMatch
<1>5. "done" \in Phases \ {"refused"} /\ runs[i].phase # "refused"
  BY <1>1 DEF Phases
<1>6. /\ Grown /\ RunsTyped' /\ DOMAIN runs' = DOMAIN runs
      /\ runs'[i].phase = "done" /\ \A k \in DOMAIN runs \ {i} : runs'[k] = runs[k]
  BY <1>1, <1>4, <1>5, PhaseGrows
<1>7. Unfinished' = Unfinished \ {i}
  BY <1>6 DEF Unfinished
<1> QED
  BY <1>1, <1>3, <1>6, <1>7 DEF SlotsMatch

\* dispose() returns all slots at once.
LEMMA SlotsDisposed ==
  ASSUME RunsTyped, SlotsMatch, Dispose
  PROVE  RunsTyped' /\ SlotsMatch' /\ Grown
<1>1. /\ ~disposed /\ disposed' = TRUE /\ inFlight' = inFlight - Cardinality(Unfinished)
      /\ UNCHANGED <<runs, now>>
  BY DEF Dispose
<1>2. inFlight' = 0
  BY <1>1, UnfinishedIsFinite DEF SlotsMatch
<1>3. RunsTyped'
  BY <1>1, <1>2, RouterAssumption DEF RunsTyped
<1>4. SlotsMatch' /\ Grown
  BY <1>1, <1>2 DEF SlotsMatch, Grown, SameTo, RunsTyped
<1> QED
  BY <1>3, <1>4

\* What Next does to the history and the slots.
LEMMA SlotsKeep ==
  ASSUME RunsTyped, SlotsMatch, [Next]_vars
  PROVE  RunsTyped' /\ SlotsMatch' /\ Grown
<1>0. now \in now..MaxTime
  BY RouterAssumption DEF RunsTyped
<1>1. ASSUME NEW s \in Senders, NEW e \in Entries, OnCooldown(s, e) \/ Admitted(s, e)
      PROVE  RunsTyped' /\ SlotsMatch' /\ Grown
  BY <1>1, SlotsTaken
<1>2. ASSUME NEW i \in DOMAIN runs, HandlerSettles(i) \/ TimesOut(i) \/ Finalizes(i)
      PROVE  RunsTyped' /\ SlotsMatch' /\ Grown
  BY <1>2, SlotsSettle, SlotsReturn DEF HandlerSettles, TimesOut
<1>3. CASE Dispose
  BY <1>3, SlotsDisposed
<1>4. CASE Tick
  <2>1. now' \in now..MaxTime /\ UNCHANGED <<runs, inFlight, disposed>>
    BY <1>4, RouterAssumption DEF Tick, RunsTyped
  <2> QED
    BY <2>1, SlotsStay
<1>5. CASE UNCHANGED <<runs, inFlight, disposed, now>>
  BY <1>0, <1>5, SlotsStay
<1> QED
  BY <1>1, <1>2, <1>3, <1>4, <1>5 DEF Next, vars, Add, Remove, Overloaded, RateLimited

-----------------------------------------------------------------------------
(* Rates.                                                                  *)

RateInv == BucketsTyped /\ Spent /\ Fair /\ RateHolds

\* RateHolds for one stretch of the history.
RateAt(i, j) ==
  (\A m \in i..j : Cardinality(Busy(m)) <= MaxKeys) =>
    Cardinality({k \in i..j : runs[k].sender = runs[j].sender}) <= Capacity + Gain(i, runs[j].since)

\* Division by the period: monotone, and a whole number of periods comes out of it.
LEMMA Division ==
  ASSUME NEW a \in Int, NEW n \in Nat
  PROVE  /\ a \div RefillMs \in Int /\ (a + n * RefillMs) \div RefillMs = a \div RefillMs + n
         /\ a >= 0 => a \div RefillMs >= 0
         /\ \A b \in Int : a <= b => a \div RefillMs <= b \div RefillMs
BY Constants

\* The attributes of a run have their types.
LEMMA RunTypes ==
  ASSUME RunsTyped, NEW i \in DOMAIN runs
  PROVE  /\ i \in Nat \ {0} /\ i <= Len(runs) /\ Len(runs) \in Nat /\ DOMAIN runs = 1..Len(runs) /\ now \in Nat
         /\ runs[i].since \in Nat /\ runs[i].since <= now /\ runs[i].sender \in Senders
         /\ runs[i].entry \in Entries /\ runs[i].phase \in Phases
<1>1. runs[i] \in Run /\ Len(runs) \in Nat /\ DOMAIN runs = 1..Len(runs)
  BY ElementOfSeq DEF RunsTyped
<1> QED
  BY <1>1, RouterAssumption DEF Run, RunsTyped

\* What a sender gains grows by one with each period, and is no less than nothing from
\* less than a period before the run on.
LEMMA GainedIs ==
  ASSUME NEW a \in Nat, NEW t \in Int
  PROVE  /\ Gained(a, t) \in Int
         /\ \A n \in Nat : Gained(a, t + n * RefillMs) = Gained(a, t) + n
         /\ \A u \in Int : t <= u => Gained(a, t) <= Gained(a, u)
         /\ a - t < RefillMs => Gained(a, t) >= 0
<1> DEFINE d == t - a + RefillMs - 1
<1>1. d \in Int
  BY Constants
<1>2. Gained(a, t) \in Int
  BY <1>1, Division DEF Gained
<1>3. ASSUME NEW n \in Nat
      PROVE  Gained(a, t + n * RefillMs) = Gained(a, t) + n
  <2>1. (t + n * RefillMs) - a + RefillMs - 1 = d + n * RefillMs
    BY <1>1, Constants
  <2>2. (d + n * RefillMs) \div RefillMs = d \div RefillMs + n
    BY <1>1, Division
  <2> QED
    BY <2>1, <2>2 DEF Gained
<1>4. ASSUME NEW u \in Int, t <= u
      PROVE  Gained(a, t) <= Gained(a, u)
  <2>1. u - a + RefillMs - 1 \in Int /\ d <= u - a + RefillMs - 1
    BY <1>1, <1>4, Constants
  <2> QED
    BY <1>1, <2>1, Division DEF Gained
<1>5. ASSUME a - t < RefillMs
      PROVE  Gained(a, t) >= 0
  <2>1. d >= 0
    BY <1>1, <1>5, Constants
  <2> QED
    BY <1>1, <2>1, Division DEF Gained
<1> QED
  BY <1>2, <1>3, <1>4, <1>5

\* What a sender gains does not shrink with time.
LEMMA GainedGrows ==
  ASSUME NEW a \in Nat, NEW t \in Int, NEW u \in Int, t <= u
  PROVE  Gained(a, t) \in Int /\ Gained(a, u) \in Int /\ Gained(a, t) <= Gained(a, u)
<1>1. Gained(a, t) \in Int /\ (\A v \in Int : t <= v => Gained(a, t) <= Gained(a, v))
  BY GainedIs
<1>2. Gained(a, u) \in Int
  BY GainedIs
<1> QED
  BY <1>1, <1>2

\* Less than a period before a time, nothing is gained yet, and nothing is owed.
LEMMA GainedStarts ==
  ASSUME NEW a \in Nat, NEW t \in Int, a - t < RefillMs
  PROVE  Gained(a, t) \in Int /\ Gained(a, t) >= 0
BY GainedIs

\* A period is a token.
LEMMA GainedPeriods ==
  ASSUME NEW a \in Nat, NEW t \in Int, NEW p \in Nat
  PROVE  Gained(a, t) \in Int /\ Gained(a, t + p * RefillMs) = Gained(a, t) + p
BY GainedIs

\* Counting the runs of a sender.
LEMMA RunsOfIs ==
  ASSUME RunsTyped, NEW i \in DOMAIN runs, NEW s
  PROVE  /\ IsFiniteSet(RunsOf(i, s)) /\ Cardinality(RunsOf(i, s)) \in Nat
         /\ RunsOf(i, s) \subseteq 1..Len(runs)
<1>1. RunsOf(i, s) \subseteq 1..Len(runs) /\ IsFiniteSet(1..Len(runs))
  BY RunTypes, FS_Interval DEF RunsOf
<1>2. IsFiniteSet(RunsOf(i, s))
  BY <1>1, FS_Subset
<1> QED
  BY <1>1, <1>2, FS_CardinalityType

\* A stretch that is past is judged as it was.
LEMMA RatePast ==
  ASSUME NEW n \in Nat, SameTo(n), NEW i \in 1..n, NEW j \in i..n
  PROVE  RateAt(i, j)' = RateAt(i, j)
<1>1. ASSUME NEW m \in i..j
      PROVE  Busy(m)' = Busy(m) /\ runs'[m].sender = runs[m].sender
  BY PastStays DEF SameTo
<1>2. runs'[j].sender = runs[j].sender /\ runs'[j].since = runs[j].since /\ runs'[i].since = runs[i].since
  BY DEF SameTo
<1>3. {k \in i..j : runs'[k].sender = runs'[j].sender} = {k \in i..j : runs[k].sender = runs[j].sender}
  BY <1>1, <1>2
<1>4. (\A m \in i..j : Cardinality(Busy(m)') <= MaxKeys) <=> (\A m \in i..j : Cardinality(Busy(m)) <= MaxKeys)
  BY <1>1
<1> QED
  BY <1>2, <1>3, <1>4 DEF RateAt, Gain

\* RateHolds is RateAt for all stretches.
LEMMA RateHoldsIs == RunsTyped => (RateHolds <=> \A i \in DOMAIN runs : \A j \in i..Len(runs) : RateAt(i, j))
BY DEF RateHolds, RateAt, Gain, Gained

\* Steps without a token: the buckets are as they were, and time may pass.
LEMMA BucketsStay ==
  ASSUME RunsTyped, RunsTyped', RateInv, Grown, Len(runs') = Len(runs), now <= now',
         DOMAIN buckets' = DOMAIN buckets, \A k \in DOMAIN buckets : buckets'[k] = buckets[k]
  PROVE  RateInv'
<1>1. /\ DOMAIN runs = 1..Len(runs) /\ DOMAIN runs' = DOMAIN runs /\ Len(runs) \in Nat
      /\ now \in Nat /\ now' \in Nat /\ SameTo(Len(runs))
  BY RouterAssumption DEF RunsTyped, Grown
<1>2. \A k \in DOMAIN runs : runs'[k].sender = runs[k].sender /\ runs'[k].since = runs[k].since
  BY <1>1 DEF SameTo
<1>3. BucketsTyped'
  <2>1. \A k \in DOMAIN buckets : buckets[k] \in [tokens : 0..Capacity, updated : 0..now']
    BY <1>1 DEF RateInv, BucketsTyped, Bucket
  <2> QED
    BY <2>1 DEF RateInv, BucketsTyped, Bucket, Size
<1>4. Spent'
  BY <1>1, <1>2 DEF RateInv, Spent
<1>5. Fair'
  <2> SUFFICES ASSUME NEW i \in DOMAIN runs, NEW s \in Senders, Calm(i)'
               PROVE  IF s \in DOMAIN buckets
                      THEN \/ Cardinality(RunsOf(i, s)') = 0
                           \/ Cardinality(RunsOf(i, s)') + buckets[s].tokens
                                <= Capacity + Gain(i, buckets[s].updated)
                      ELSE Cardinality(RunsOf(i, s)') <= Gain(i, now')
    BY <1>1, <1>2 DEF Fair, Gain
  <2>1. RunsOf(i, s)' = RunsOf(i, s)
    BY <1>1, <1>2 DEF RunsOf
  <2>2. Calm(i)
    BY PastCounts
  <2>3. Gain(i, now) <= Gain(i, now') /\ Gain(i, now) \in Int /\ Gain(i, now') \in Int
    <3>1. runs[i].since \in Nat /\ now \in Int /\ now' \in Int /\ now <= now'
      BY <1>1, RunTypes
    <3> QED
      BY <3>1, GainedGrows DEF Gain
  <2>4. Cardinality(RunsOf(i, s)) \in Nat
    BY RunsOfIs
  <2> QED
    BY <2>1, <2>2, <2>3, <2>4 DEF RateInv, Fair
<1>6. RateHolds'
  <2>1. \A i \in DOMAIN runs : \A j \in i..Len(runs) : RateAt(i, j)
    BY RateHoldsIs DEF RateInv
  <2>2. \A i \in DOMAIN runs : \A j \in i..Len(runs) : RateAt(i, j)'
    BY <1>1, <2>1, RatePast
  <2> QED
    BY <1>1, <2>2 DEF RateHolds, RateAt, Gain, Gained
<1> QED
  BY <1>3, <1>4, <1>5, <1>6 DEF RateInv

\* A bucket that is short of a token belongs to a sender who was busy not long ago.
LEMMA ShortAreBusy ==
  ASSUME RunsTyped, RateInv, NEW q \in Short
  PROVE  \E k \in DOMAIN runs : runs[k].sender = q /\ now - runs[k].since < Capacity * RefillMs
<1>1. PICK k \in DOMAIN runs : runs[k].sender = q /\ buckets[q].updated <= runs[k].since
  BY DEF RateInv, Spent, Short
<1>2. /\ buckets[q].tokens \in Nat /\ buckets[q].updated \in Nat /\ buckets[q].updated <= now
      /\ now \in Nat /\ runs[k].since \in Nat
      /\ buckets[q].tokens + ((now - buckets[q].updated) \div RefillMs) < Capacity
  BY RunTypes, <1>1 DEF RateInv, BucketsTyped, Bucket, Short, Logical, Periods
<1>3. ASSUME NEW d \in Nat, d \div RefillMs < Capacity
      PROVE  d < Capacity * RefillMs
  <2>1. d < ((d \div RefillMs) + 1) * RefillMs /\ d \div RefillMs \in Nat
    BY Constants
  <2>2. (d \div RefillMs) + 1 <= Capacity
    BY <1>3, <2>1, Constants
  <2>3. \A x, y \in Nat : x <= y => x * RefillMs <= y * RefillMs
    BY Constants
  <2>4. ((d \div RefillMs) + 1) * RefillMs <= Capacity * RefillMs
    BY <2>1, <2>2, <2>3, Constants
  <2>5. ((d \div RefillMs) + 1) * RefillMs \in Nat /\ Capacity * RefillMs \in Nat
    BY <2>1, Constants
  <2> QED
    BY <2>1, <2>4, <2>5
<1>4. now - buckets[q].updated \in Nat /\ (now - buckets[q].updated) \div RefillMs < Capacity
  BY <1>2, Constants
<1>5. now - buckets[q].updated < Capacity * RefillMs /\ Capacity * RefillMs \in Nat
  BY <1>3, <1>4, Constants
<1> QED
  BY <1>1, <1>2, <1>5

\* The values a function takes on a finite set are finitely many.
LEMMA ImageIsFinite ==
  ASSUME NEW S, IsFiniteSet(S), NEW f
  PROVE  IsFiniteSet({f[k] : k \in S})
<1> DEFINE g == [k \in S |-> f[k]]
           T == {f[k] : k \in S}
<1>1. g \in Surjection(S, T)
  BY DEF Surjection
<1> QED
  BY <1>1, FS_Surjection

\* Only finitely many senders are busy at the last run.
LEMMA BusyIsFinite ==
  ASSUME Len(runs') \in Nat
  PROVE  IsFiniteSet(Busy(Len(runs))')
<1> DEFINE m == Len(runs')
           S == {k \in 1..m : runs'[m].since - runs'[k].since < Capacity * RefillMs}
           f == [k \in S |-> runs'[k].sender]
<1>1. IsFiniteSet(S)
  <2>1. IsFiniteSet(1..m) /\ S \subseteq 1..m
    BY FS_Interval
  <2> QED
    BY <2>1, FS_Subset
<1>2. IsFiniteSet({f[k] : k \in S})
  BY <1>1, ImageIsFinite
<1>3. Busy(Len(runs))' = {f[k] : k \in S}
  BY DEF Busy
<1> QED
  BY <1>2, <1>3

\* A step in which a sender got a token.
Consumes(s) ==
  LET n == Len(runs) IN
  /\ Grown /\ RunsTyped' /\ Len(runs') = n + 1 /\ now' = now
  /\ runs'[n + 1].sender = s /\ runs'[n + 1].since = now
  /\ \A k \in DOMAIN runs : runs'[k] = runs[k]
  /\ \E t \in BucketsReady(buckets, s, now) :
       t[s].tokens > 0 /\ buckets' = [t EXCEPT ![s].tokens = @ - 1]

\* A bucket that was dropped short of a token tells of too many busy senders: all whose
\* buckets were short, and the one that got the token.
LEMMA DroppedWhenCrowded ==
  ASSUME RunsTyped, RateInv, NEW s \in Senders, Consumes(s), s \notin DOMAIN buckets, Cardinality(Short) >= MaxKeys
  PROVE  ~(Cardinality(Busy(Len(runs))') <= MaxKeys)
<1> DEFINE n == Len(runs)
           B == Busy(Len(runs))'
<1>1. /\ n \in Nat /\ DOMAIN runs = 1..n /\ now \in Nat /\ Capacity * RefillMs \in Nat \ {0}
  BY Constants DEF RunsTyped
<1>2. /\ runs'[n + 1].sender = s /\ runs'[n + 1].since = now /\ \A k \in 1..n : runs'[k] = runs[k]
      /\ Len(runs') = n + 1
  BY <1>1 DEF Consumes
<1>3. ASSUME NEW k \in 1..(n + 1), now - runs'[k].since < Capacity * RefillMs
      PROVE  runs'[k].sender \in B
  BY <1>2, <1>3 DEF Busy
<1>4. s \in B
  <2>1. n + 1 \in 1..(n + 1) /\ now - runs'[n + 1].since < Capacity * RefillMs
    BY <1>1, <1>2
  <2> QED
    BY <1>2, <1>3, <2>1
<1>5. ASSUME NEW q \in Short
      PROVE  q \in B
  <2>1. PICK k \in 1..n : runs[k].sender = q /\ now - runs[k].since < Capacity * RefillMs
    BY <1>1, ShortAreBusy
  <2>2. k \in 1..(n + 1) /\ runs'[k] = runs[k]
    BY <1>1, <1>2
  <2> QED
    BY <1>3, <2>1, <2>2
<1>9. IsFiniteSet(B)
  BY <1>1, <1>2, BusyIsFinite
<1>6. Short \cup {s} \subseteq B /\ s \notin Short
  BY <1>4, <1>5 DEF Short
<1>7. IsFiniteSet(Short)
  BY FS_Subset DEF Short, RateInv, BucketsTyped
<1> HIDE DEF B
<1>8. Cardinality(Short \cup {s}) = Cardinality(Short) + 1 /\ Cardinality(Short) \in Nat
  BY <1>6, <1>7, FS_AddElement, FS_CardinalityType
<1>10. Cardinality(Short \cup {s}) <= Cardinality(B) /\ Cardinality(B) \in Nat
  BY <1>6, <1>9, FS_Subset, FS_CardinalityType
<1> QED
  BY <1>8, <1>10, Constants DEF B

\* A step that takes a token leaves the rates as they should be: what the sender spends is
\* in its bucket, and the buckets that are dropped were full.
LEMMA TokenTaken ==
  ASSUME RunsTyped, RateInv, NEW s \in Senders, Consumes(s)
  PROVE  RateInv'
<1> DEFINE n == Len(runs)
<1>1. /\ n \in Nat /\ DOMAIN runs = 1..n /\ DOMAIN runs' = 1..(n + 1) /\ Len(runs') = n + 1
      /\ now \in Nat /\ now' = now /\ n + 1 \notin DOMAIN runs
      /\ runs'[n + 1].sender = s /\ runs'[n + 1].since = now /\ \A k \in 1..n : runs'[k] = runs[k]
  BY RouterAssumption DEF Consumes, RunsTyped
<1>2. BucketsTyped /\ Spent /\ Fair /\ RateHolds
  BY DEF RateInv
<1>3. PICK t \in BucketsReady(buckets, s, now) : t[s].tokens > 0 /\ buckets' = [t EXCEPT ![s].tokens = @ - 1]
  BY DEF Consumes
<1>4. /\ IsFiniteSet(DOMAIN t) /\ DOMAIN t \subseteq Senders /\ Size(t) <= MaxKeys
      /\ s \in DOMAIN t /\ \A k \in DOMAIN t : t[k] \in Bucket
      /\ \A k \in DOMAIN t \ {s} : k \in DOMAIN buckets /\ t[k] = buckets[k]
      /\ s \in DOMAIN buckets => t[s] = Refilled(buckets[s], now) /\ DOMAIN t = DOMAIN buckets
      /\ s \notin DOMAIN buckets =>
           /\ t[s] = [tokens |-> Capacity, updated |-> now]
           /\ Cardinality(Short) >= MaxKeys \/ Short \subseteq DOMAIN t
  BY <1>1, <1>2, <1>3, ReadyIs
<1>5. /\ t[s].tokens \in 0..Capacity /\ t[s].updated \in 0..now /\ t[s].tokens - 1 \in 0..Capacity
      /\ now - t[s].updated < RefillMs
  <2>1. t[s].tokens \in 0..Capacity /\ t[s].updated \in 0..now /\ t[s].tokens - 1 \in 0..Capacity
    BY <1>3, <1>4, Constants DEF Bucket
  <2>2. CASE s \in DOMAIN buckets
    <3>1. buckets[s] \in Bucket
      BY <1>2, <2>2 DEF BucketsTyped
    <3> QED
      BY <1>1, <1>4, <2>1, <2>2, <3>1, RefilledIs
  <2>3. CASE s \notin DOMAIN buckets
    BY <1>1, <1>4, <2>1, <2>3, Constants
  <2> QED
    BY <2>1, <2>2, <2>3
<1>6. /\ DOMAIN buckets' = DOMAIN t /\ \A q \in DOMAIN t \ {s} : buckets'[q] = buckets[q] /\ q \in DOMAIN buckets
      /\ buckets'[s].tokens = t[s].tokens - 1 /\ buckets'[s].updated = t[s].updated
      /\ \A q \in DOMAIN t : buckets'[q] \in Bucket
  <2>1. buckets' = [t EXCEPT ![s] = [t[s] EXCEPT !.tokens = t[s].tokens - 1]]
    BY <1>3
  <2>2. t[s] \in Bucket
    BY <1>4
  <2>3. [t[s] EXCEPT !.tokens = t[s].tokens - 1] \in Bucket
    BY <1>5, <2>2 DEF Bucket
  <2>4. /\ [t[s] EXCEPT !.tokens = t[s].tokens - 1].tokens = t[s].tokens - 1
        /\ [t[s] EXCEPT !.tokens = t[s].tokens - 1].updated = t[s].updated
    BY <2>2 DEF Bucket
  <2> QED
    BY <1>4, <2>1, <2>3, <2>4
<1>7. BucketsTyped'
  <2>1. \A q \in DOMAIN t : buckets'[q] \in [tokens : 0..Capacity, updated : 0..now']
    BY <1>1, <1>6 DEF Bucket
  <2> QED
    BY <1>4, <1>6, <2>1 DEF BucketsTyped, Bucket, Size
<1>8. Spent'
  <2> SUFFICES ASSUME NEW q \in DOMAIN t
               PROVE  \E k \in 1..(n + 1) : runs'[k].sender = q /\ buckets'[q].updated <= runs'[k].since
    BY <1>1, <1>6 DEF Spent
  <2>1. CASE q = s
    <3>1. n + 1 \in 1..(n + 1) /\ runs'[n + 1].sender = q /\ buckets'[q].updated <= runs'[n + 1].since
      BY <1>1, <1>5, <1>6, <2>1
    <3> QED
      BY <3>1
  <2>2. CASE q # s
    <3>1. PICK k \in 1..n : runs[k].sender = q /\ buckets[q].updated <= runs[k].since
      BY <1>1, <1>2, <1>6, <2>2 DEF Spent
    <3>2. k \in 1..(n + 1) /\ runs'[k] = runs[k] /\ buckets'[q] = buckets[q]
      BY <1>1, <1>6, <2>2
    <3> QED
      BY <3>1, <3>2
  <2> QED
    BY <2>1, <2>2

<1> DEFINE R(i, q) == {k \in i..(n + 1) : runs'[k].sender = q}
           After(i, q) ==
             IF q \in DOMAIN t
             THEN \/ Cardinality(R(i, q)) = 0
                  \/ Cardinality(R(i, q)) + buckets'[q].tokens
                       <= Capacity + Gained(runs'[i].since, buckets'[q].updated)
             ELSE Cardinality(R(i, q)) <= Gained(runs'[i].since, now)
<1>9. ASSUME NEW q \in Senders
      PROVE  After(n + 1, q)
  <2>1. R(n + 1, q) = IF q = s THEN {n + 1} ELSE {}
    BY <1>1
  <2>2. Cardinality(R(n + 1, q)) = IF q = s THEN 1 ELSE 0
    BY <2>1, FS_Singleton, FS_EmptySet
  <2>3. CASE q = s
    <3>1. Gained(now, t[s].updated) >= 0 /\ Gained(now, t[s].updated) \in Int
      <4>1. t[s].updated \in Int /\ now \in Nat /\ now - t[s].updated < RefillMs
        BY <1>1, <1>5
      <4> QED
        BY <4>1, GainedStarts
    <3> QED
      BY <1>1, <1>4, <1>5, <1>6, <2>2, <2>3, <3>1, Constants
  <2>4. CASE q # s
    <3>1. Gained(now, now) >= 0 /\ Gained(now, now) \in Int
      <4>1. now \in Int /\ now \in Nat /\ now - now < RefillMs
        BY <1>1, Constants
      <4> QED
        BY <4>1, GainedStarts
    <3> QED
      BY <1>1, <2>2, <2>4, <3>1
  <2> QED
    BY <2>3, <2>4
<1>10. ASSUME NEW i \in 1..n, NEW q \in Senders, Calm(i)'
       PROVE  After(i, q)
  <2> DEFINE a == runs[i].since
             c == Cardinality(RunsOf(i, q))
  <2>1. /\ Calm(i) /\ Cardinality(Busy(Len(runs))') <= MaxKeys
    <3>1. i \in DOMAIN runs /\ Len(runs') \in i..Len(runs')
      BY <1>1
    <3>2. Calm(i)
      BY <1>10, <3>1, PastCounts DEF Consumes
    <3>3. Cardinality(Busy(Len(runs))') <= MaxKeys
      BY <1>10, <3>1 DEF Calm
    <3> QED
      BY <3>2, <3>3
  <2>2. /\ i \in DOMAIN runs /\ a \in Nat /\ a <= now /\ c \in Nat /\ IsFiniteSet(RunsOf(i, q))
        /\ n + 1 \notin RunsOf(i, q) /\ runs'[i] = runs[i]
    BY <1>1, RunTypes, RunsOfIs
  <2>3. R(i, q) = IF q = s THEN RunsOf(i, q) \cup {n + 1} ELSE RunsOf(i, q)
    BY <1>1 DEF RunsOf
  <2>4. Cardinality(R(i, q)) = IF q = s THEN c + 1 ELSE c
    BY <2>2, <2>3, FS_AddElement
  <2>5. IF q \in DOMAIN buckets
        THEN c = 0 \/ c + buckets[q].tokens <= Capacity + Gained(a, buckets[q].updated)
        ELSE c <= Gained(a, now)
    BY <1>1, <1>2, <2>1, <2>2 DEF Fair, Gain
  <2> SUFFICES IF q \in DOMAIN t
               THEN \/ Cardinality(R(i, q)) = 0
                    \/ Cardinality(R(i, q)) + buckets'[q].tokens <= Capacity + Gained(a, buckets'[q].updated)
               ELSE Cardinality(R(i, q)) <= Gained(a, now)
    BY <2>2
  <2> HIDE DEF a, c, After, R
  <2>6. Gained(a, now) \in Int /\ Gained(a, now) >= 0
    <3>1. now \in Int /\ a - now < RefillMs
      BY <1>1, <2>2, Constants
    <3> QED
      BY <2>2, <3>1, GainedStarts
  <2>7. ASSUME q \in DOMAIN buckets
        PROVE  LET p == Periods(buckets[q], now)
                   u == buckets[q].updated IN
               /\ p \in Nat /\ u \in Nat /\ buckets[q].tokens \in 0..Capacity /\ u + p * RefillMs \in Int
               /\ Refilled(buckets[q], now).tokens <= buckets[q].tokens + p
               /\ Refilled(buckets[q], now).updated = u + p * RefillMs /\ u + p * RefillMs <= now
               /\ Gained(a, u) \in Int /\ Gained(a, u + p * RefillMs) = Gained(a, u) + p
               /\ Gained(a, u + p * RefillMs) <= Gained(a, now)
    <3>1. buckets[q] \in Bucket /\ buckets[q].updated \in Nat /\ buckets[q].tokens \in 0..Capacity
      BY <1>1, <1>2, <2>7 DEF BucketsTyped, Bucket
    <3>2. /\ Refilled(buckets[q], now) \in Bucket /\ Periods(buckets[q], now) \in Nat
          /\ Refilled(buckets[q], now).tokens <= buckets[q].tokens + Periods(buckets[q], now)
          /\ Refilled(buckets[q], now).updated = buckets[q].updated + Periods(buckets[q], now) * RefillMs
      BY <1>1, <3>1, RefilledIs
    <3>3. /\ buckets[q].updated + Periods(buckets[q], now) * RefillMs <= now
          /\ buckets[q].updated + Periods(buckets[q], now) * RefillMs \in Int
      BY <1>1, <3>2 DEF Bucket
    <3>4. /\ Gained(a, buckets[q].updated) \in Int
          /\ Gained(a, buckets[q].updated + Periods(buckets[q], now) * RefillMs)
               = Gained(a, buckets[q].updated) + Periods(buckets[q], now)
      <4>1. buckets[q].updated \in Int
        BY <3>1
      <4> QED
        BY <2>2, <3>2, <4>1, GainedPeriods
    <3>5. Gained(a, buckets[q].updated + Periods(buckets[q], now) * RefillMs) <= Gained(a, now)
      <4>1. now \in Int
        BY <1>1
      <4> QED
        BY <2>2, <3>3, <4>1, GainedGrows
    <3> QED
      BY <3>1, <3>2, <3>3, <3>4, <3>5
  <2>8. CASE q = s
    <3>1. CASE q \in DOMAIN buckets
      <4>1. Gained(a, t[s].updated) >= 0
        <5>1. a - t[s].updated < RefillMs /\ t[s].updated \in Int
          BY <1>1, <1>5, <2>2, Constants
        <5> QED
          BY <2>2, <5>1, GainedStarts
      <4>2. /\ t[s] = Refilled(buckets[q], now) /\ buckets'[q].tokens = t[s].tokens - 1
            /\ buckets'[q].updated = t[s].updated /\ q \in DOMAIN t
        BY <1>4, <1>6, <2>8, <3>1
      <4>3. /\ Cardinality(R(i, q)) = c + 1 /\ buckets'[q].tokens = t[s].tokens - 1
            /\ buckets'[q].updated = t[s].updated /\ t[s].tokens \in 0..Capacity
        BY <1>5, <2>4, <2>8, <4>2
      <4>4. PICK p \in Nat : /\ t[s].tokens <= buckets[q].tokens + p /\ buckets[q].tokens \in Nat
                             /\ Gained(a, buckets[q].updated) \in Int
                             /\ Gained(a, t[s].updated) = Gained(a, buckets[q].updated) + p
        BY <2>7, <3>1, <4>2
      <4>5. CASE c = 0
        BY <4>1, <4>2, <4>3, <4>4, <4>5, Constants
      <4>6. CASE c + buckets[q].tokens <= Capacity + Gained(a, buckets[q].updated)
        <5>1. ASSUME NEW x \in Nat, NEW y \in Nat, NEW z \in Nat, NEW g \in Int, x + y <= Capacity + g, z <= y + p
              PROVE  (x + 1) + (z - 1) <= Capacity + (g + p)
          BY <5>1, Constants
        <5>2. c \in Nat /\ t[s].tokens \in Nat
          BY <2>2, <4>3
        <5>3. (c + 1) + (t[s].tokens - 1) <= Capacity + (Gained(a, buckets[q].updated) + p)
          BY <4>4, <4>6, <5>1, <5>2
        <5> QED
          BY <4>2, <4>3, <4>4, <5>3
      <4> QED
        BY <2>5, <3>1, <4>5, <4>6
    <3>2. CASE q \notin DOMAIN buckets
      BY <1>4, <1>6, <2>2, <2>4, <2>5, <2>6, <2>8, <3>2, Constants
    <3> QED
      BY <3>1, <3>2
  <2>9. CASE q # s
    <3>1. CASE q \in DOMAIN t
      BY <1>6, <2>2, <2>4, <2>5, <2>9, <3>1
    <3>2. CASE q \notin DOMAIN t /\ q \notin DOMAIN buckets
      BY <2>2, <2>4, <2>5, <2>9, <3>2
    <3>3. CASE q \notin DOMAIN t /\ q \in DOMAIN buckets
      <4>1. q \notin Short
        BY <1>4, <2>1, <3>3, DroppedWhenCrowded
      <4>2. ~(buckets[q].tokens + Periods(buckets[q], now) < Capacity)
        BY <3>3, <4>1 DEF Short, Logical
      <4>3. PICK p \in Nat : /\ p = Periods(buckets[q], now) /\ buckets[q].tokens \in Nat
                             /\ Gained(a, buckets[q].updated) \in Int
                             /\ Gained(a, buckets[q].updated) + p <= Gained(a, now)
        BY <2>7, <3>3
      <4>4. ASSUME NEW x \in Nat, NEW y \in Nat, NEW g \in Int, NEW h \in Int,
                   x + y <= Capacity + g, ~(y + p < Capacity), g + p <= h
            PROVE  x <= h
        BY <4>4, Constants
      <4>5. CASE c = 0
        BY <2>4, <2>6, <2>9, <3>3, <4>5
      <4>6. CASE c + buckets[q].tokens <= Capacity + Gained(a, buckets[q].updated)
        <5>1. c <= Gained(a, now)
          BY <2>2, <2>6, <4>2, <4>3, <4>4, <4>6
        <5> QED
          BY <2>4, <2>9, <3>3, <5>1
      <4> QED
        BY <2>5, <3>3, <4>5, <4>6
    <3> QED
      BY <3>1, <3>2, <3>3
  <2> QED
    BY <2>8, <2>9
<1>11. ASSUME NEW i \in 1..(n + 1), NEW q \in Senders, Calm(i)'
       PROVE  After(i, q)
  <2>1. CASE i = n + 1
    BY <1>9, <2>1
  <2>2. CASE i # n + 1
    <3>1. i \in 1..n
      BY <1>1, <2>2
    <3> QED
      BY <1>10, <1>11, <3>1
  <2> QED
    BY <2>1, <2>2
<1>12. Fair'
  <2>1. ASSUME NEW i \in 1..(n + 1), NEW q \in Senders
        PROVE  RunsOf(i, q)' = R(i, q)
    BY <1>1 DEF RunsOf
  <2> QED
    <3> SUFFICES ASSUME NEW i \in 1..(n + 1), NEW q \in Senders, Calm(i)'
                 PROVE  IF q \in DOMAIN buckets'
                        THEN \/ Cardinality(R(i, q)) = 0
                             \/ Cardinality(R(i, q)) + buckets'[q].tokens
                                  <= Capacity + Gained(runs'[i].since, buckets'[q].updated)
                        ELSE Cardinality(R(i, q)) <= Gained(runs'[i].since, now')
      BY <1>1, <2>1 DEF Fair, Gain
    <3>1. After(i, q)
      BY <1>11
    <3> QED
      BY <1>1, <1>6, <3>1
<1>13. ASSUME NEW i \in 1..(n + 1), NEW j \in i..(n + 1)
       PROVE  RateAt(i, j)'
  <2>1. CASE j = n + 1
    <3> DEFINE a == runs'[i].since
    <3> SUFFICES ASSUME Calm(i)'
                 PROVE  Cardinality(R(i, s)) <= Capacity + Gained(a, now)
      BY <1>1, <2>1 DEF RateAt, Calm, Gain
    <3>1. After(i, s)
      BY <1>11
    <3>2. a \in Nat /\ a <= now /\ now \in Int /\ a - now < RefillMs /\ t[s].updated \in Int /\ t[s].updated <= now
      <4>1. a \in Nat /\ a <= now
        <5>1. CASE i = n + 1
          BY <1>1, <5>1
        <5>2. CASE i # n + 1
          <6>1. i \in DOMAIN runs /\ a = runs[i].since
            BY <1>1, <5>2
          <6> QED
            BY <6>1, RunTypes
        <5> QED
          BY <5>1, <5>2
      <4> QED
        BY <1>1, <1>5, <4>1, Constants
    <3> HIDE DEF a
    <3>3. Gained(a, now) \in Int /\ Gained(a, now) >= 0
      BY <3>2, GainedStarts
    <3>4. Gained(a, t[s].updated) \in Int /\ Gained(a, t[s].updated) <= Gained(a, now)
      BY <3>2, GainedGrows
    <3>5. Cardinality(R(i, s)) \in Nat
      <4>1. IsFiniteSet(i..(n + 1)) /\ R(i, s) \subseteq i..(n + 1)
        BY <1>1, FS_Interval
      <4>2. IsFiniteSet(R(i, s))
        BY <4>1, FS_Subset
      <4> QED
        BY <4>2, FS_CardinalityType
    <3> USE DEF a
    <3> QED
      BY <1>4, <1>5, <1>6, <3>1, <3>3, <3>4, <3>5, Constants
  <2>2. CASE j # n + 1
    <3>1. i \in 1..n /\ j \in i..n /\ SameTo(n)
      BY <1>1, <2>2 DEF Consumes, Grown
    <3>2. RateAt(i, j)
      BY <1>1, <1>2, <3>1, RateHoldsIs
    <3> QED
      BY <1>1, <3>1, <3>2, RatePast
  <2> QED
    BY <2>1, <2>2
<1>14. RateHolds'
  BY <1>1, <1>13 DEF RateHolds, RateAt, Gain, Gained
<1> QED
  BY <1>7, <1>8, <1>12, <1>14 DEF RateInv

\* A command that finds no token takes none: its sender's bucket is as empty as it was.
LEMMA NoTokenNoChange ==
  ASSUME RunsTyped, BucketsTyped, NEW s \in Senders, NEW e \in Entries, RateLimited(s, e)
  PROVE  DOMAIN buckets' = DOMAIN buckets /\ \A k \in DOMAIN buckets : buckets'[k] = buckets[k]
<1>1. buckets' \in BucketsReady(buckets, s, now) /\ buckets'[s].tokens <= 0 /\ now \in Nat
  BY RouterAssumption DEF RateLimited, RunsTyped
<1>2. PICK t \in BucketsReady(buckets, s, now) : t = buckets' /\ t[s].tokens <= 0
  BY <1>1
<1>3. /\ \A k \in DOMAIN t \ {s} : k \in DOMAIN buckets /\ t[k] = buckets[k]
      /\ s \in DOMAIN buckets => t[s] = Refilled(buckets[s], now) /\ DOMAIN t = DOMAIN buckets
      /\ s \notin DOMAIN buckets => t[s] = [tokens |-> Capacity, updated |-> now]
  BY <1>1, ReadyIs
<1>4. s \in DOMAIN buckets
  BY <1>2, <1>3, Constants
<1>5. Refilled(buckets[s], now) = buckets[s]
  <2> DEFINE b == buckets[s]
             p == Periods(b, now)
  <2>1. b \in Bucket
    BY <1>4 DEF BucketsTyped
  <2>2. p \in Nat /\ b.tokens \in Nat /\ b.updated \in Nat
    BY <1>1, <2>1, RefilledIs DEF Bucket
  <2>3. Logical(b, now) = b.tokens + p
    BY DEF Logical
  <2>4. Refilled(b, now).tokens <= 0
    BY <1>2, <1>3, <1>4
  <2>5. Refilled(b, now) = [tokens  |-> IF b.tokens + p > Capacity THEN Capacity ELSE b.tokens + p,
                            updated |-> b.updated + p * RefillMs]
    BY <2>3 DEF Refilled
  <2> HIDE DEF b, p
  <2>6. b.tokens + p = 0 /\ p = 0
    BY <2>2, <2>4, <2>5, Constants
  <2>7. Refilled(b, now) = [tokens |-> b.tokens, updated |-> b.updated]
    BY <2>2, <2>5, <2>6, Constants
  <2>8. b = [tokens |-> b.tokens, updated |-> b.updated]
    BY <2>1 DEF Bucket
  <2> QED
    BY <2>7, <2>8 DEF b
<1> QED
  BY <1>2, <1>3, <1>4, <1>5

\* What Next does to the buckets.
LEMMA RateKeeps ==
  ASSUME RunsTyped, RunsTyped', RateInv, Grown, [Next]_vars
  PROVE  RateInv'
<1>1. ASSUME NEW s \in Senders, NEW e \in Entries, OnCooldown(s, e) \/ Admitted(s, e)
      PROVE  RateInv'
  <2>1. PICK p \in {"refused", "working"} : TakesToken(s, e, p)
    BY <1>1 DEF OnCooldown, Admitted
  <2>2. /\ runs' = Append(runs, [sender |-> s, entry |-> e, since |-> now, phase |-> p])
        /\ UNCHANGED <<now, disposed>> /\ Len(runs) < MaxRuns /\ inFlight' \in 0..Concurrency /\ p \in Phases
    BY <2>1 DEF TakesToken, RunsTyped, Phases
  <2>3. /\ Len(runs') = Len(runs) + 1 /\ \A k \in DOMAIN runs : runs'[k] = runs[k]
        /\ runs'[Len(runs) + 1] = [sender |-> s, entry |-> e, since |-> now, phase |-> p]
    BY <2>2, AppendGrows
  <2>4. runs'[Len(runs) + 1].sender = s /\ runs'[Len(runs) + 1].since = now
    BY <2>3
  <2>5. \E t \in BucketsReady(buckets, s, now) :
          t[s].tokens > 0 /\ buckets' = [t EXCEPT ![s].tokens = @ - 1]
    BY <2>1 DEF TakesToken
  <2>6. Consumes(s)
    BY <2>2, <2>3, <2>4, <2>5 DEF Consumes
  <2> QED
    BY <2>6, TokenTaken
<1>2. ASSUME NEW s \in Senders, NEW e \in Entries, RateLimited(s, e)
      PROVE  RateInv'
  <2>1. now' = now /\ runs' = runs /\ now <= now'
    BY <1>2, RouterAssumption DEF RateLimited, RunsTyped
  <2>2. BucketsTyped
    BY DEF RateInv
  <2> QED
    BY <1>2, <2>1, <2>2, NoTokenNoChange, BucketsStay
<1>3. ASSUME NEW i \in DOMAIN runs, HandlerSettles(i) \/ TimesOut(i) \/ Finalizes(i)
      PROVE  RateInv'
  <2>1. buckets' = buckets /\ now' = now
    BY <1>3 DEF HandlerSettles, TimesOut, Settles, Finalizes
  <2>2. runs' = [runs EXCEPT ![i].phase = "settled"] \/ runs' = [runs EXCEPT ![i].phase = "done"]
    BY <1>3 DEF HandlerSettles, TimesOut, Settles, Finalizes
  <2>3. Len(runs') = Len(runs)
    <3>1. DOMAIN runs' = DOMAIN runs
      BY <2>2
    <3> QED
      BY <3>1 DEF RunsTyped, Grown
  <2>4. now <= now'
    BY <2>1, RouterAssumption DEF RunsTyped
  <2> QED
    BY <2>1, <2>3, <2>4, BucketsStay
<1>4. CASE UNCHANGED <<buckets, runs>> /\ now' \in {now, now + 1}
  <2>1. now <= now'
    BY <1>4, RouterAssumption DEF RunsTyped
  <2> QED
    BY <1>4, <2>1, BucketsStay
<1> QED
  BY <1>1, <1>2, <1>3, <1>4 DEF Next, vars, Add, Remove, Overloaded, Dispose, Tick

-----------------------------------------------------------------------------
(* Cooldowns.                                                              *)

CoolInv == UntilTyped /\ CooldownsAreEarned /\ OnFile /\ NoEarlyRepeat

\* Only finitely many cooldowns are in force at the last run, now and after a step.
LEMMA InForceIsFinite ==
  /\ Len(runs) \in Nat => IsFiniteSet(InForce(Len(runs)))
  /\ Len(runs') \in Nat => IsFiniteSet(InForce(Len(runs))')
<1> DEFINE m == Len(runs)
           S == {k \in 1..m : Arms(k) /\ EndsAt(k) > runs[m].since}
           f == [k \in S |-> KeyOf(k)]
           mm == Len(runs')
           SS == {k \in 1..mm : Arms(k)' /\ EndsAt(k)' > runs'[mm].since}
           ff == [k \in SS |-> KeyOf(k)']
<1>1. ASSUME m \in Nat
      PROVE  IsFiniteSet({f[k] : k \in S})
  <2>1. IsFiniteSet(1..m) /\ S \subseteq 1..m
    BY <1>1, FS_Interval
  <2>2. IsFiniteSet(S)
    BY <2>1, FS_Subset
  <2> QED
    BY <2>2, ImageIsFinite
<1>2. InForce(Len(runs)) = {f[k] : k \in S}
  BY DEF InForce
<1>3. ASSUME mm \in Nat
      PROVE  IsFiniteSet({ff[k] : k \in SS})
  <2>1. IsFiniteSet(1..mm) /\ SS \subseteq 1..mm
    BY <1>3, FS_Interval
  <2>2. IsFiniteSet(SS)
    BY <2>1, FS_Subset
  <2> QED
    BY <2>2, ImageIsFinite
<1>4. InForce(Len(runs))' = {ff[k] : k \in SS}
  BY DEF InForce
<1> QED
  BY <1>1, <1>2, <1>3, <1>4

\* A live entry stems from a run whose cooldown is not over.
LEMMA LiveIsEarned ==
  ASSUME CooldownsAreEarned, NEW k \in Live \ {LogKey}
  PROVE  \E i \in DOMAIN runs : Arms(i) /\ KeyOf(i) = k /\ EndsAt(i) > now
BY DEF CooldownsAreEarned, Live

\* What the attributes of a run were, they are.
LEMMA RunsStay ==
  ASSUME RunsTyped, Grown, NEW i \in DOMAIN runs
  PROVE  /\ Arms(i)' = Arms(i) /\ KeyOf(i)' = KeyOf(i) /\ EndsAt(i)' = EndsAt(i)
         /\ InForce(i)' = InForce(i) /\ runs'[i].since = runs[i].since /\ i \in DOMAIN runs'
         /\ EndsAt(i) \in Nat
<1>1. Len(runs) \in Nat /\ i \in 1..Len(runs) /\ SameTo(Len(runs)) /\ i \in DOMAIN runs'
  BY DEF RunsTyped, Grown
<1>2. EndsAt(i) \in Nat
  BY RunTypes, RouterAssumption DEF EndsAt
<1> QED
  BY <1>1, <1>2, PastStays DEF SameTo

\* The cooldowns that were honoured were honoured.
LEMMA PastIsHonoured ==
  ASSUME RunsTyped, Grown, NoEarlyRepeat, NEW j \in DOMAIN runs, NEW i \in 1..(j - 1)
  PROVE  /\ Arms(i)' /\ Arms(j)' /\ KeyOf(i)' = KeyOf(j)'
         /\ \A m \in i..(j - 1) : Cardinality(InForce(m)') < MaxEntries
         => runs'[j].since >= EndsAt(i)'
<1>1. \A m \in i..j : m \in DOMAIN runs
  BY DEF RunsTyped
<1>2. i \in i..j /\ j \in Nat /\ (\A m \in i..(j - 1) : m \in i..j)
  BY DEF RunsTyped
<1>3. i \in DOMAIN runs /\ \A m \in i..(j - 1) : InForce(m)' = InForce(m)
  BY <1>1, <1>2, RunsStay
<1> QED
  BY <1>3, RunsStay DEF NoEarlyRepeat

\* The steps that start no cooldown.
LEMMA CoolStays ==
  ASSUME RunsTyped, RunsTyped', Grown, CoolInv, until' = until, now <= now',
         \A i \in DOMAIN runs' \ DOMAIN runs : ~Arms(i)'
  PROVE  CoolInv'
<1>1. UntilTyped'
  BY DEF CoolInv, UntilTyped, Size
<1>2. CooldownsAreEarned'
  <2> SUFFICES ASSUME NEW k \in DOMAIN until \ {LogKey}
               PROVE  \E i \in DOMAIN runs' : Arms(i)' /\ KeyOf(i)' = k /\ EndsAt(i)' = until[k]
    BY DEF CooldownsAreEarned
  <2>1. PICK i \in DOMAIN runs : Arms(i) /\ KeyOf(i) = k /\ EndsAt(i) = until[k]
    BY DEF CoolInv, CooldownsAreEarned
  <2> QED
    BY <2>1, RunsStay
<1>3. OnFile'
  <2> SUFFICES ASSUME NEW i \in DOMAIN runs', Arms(i)', EndsAt(i)' > now', Roomy(i)'
               PROVE  KeyOf(i)' \in DOMAIN until /\ until[KeyOf(i)'] >= EndsAt(i)'
    BY DEF OnFile
  <2>1. i \in DOMAIN runs
    OBVIOUS
  <2>2. now \in Nat /\ now' \in Nat
    BY RouterAssumption DEF RunsTyped
  <2>3. Arms(i) /\ EndsAt(i) > now /\ Roomy(i)
    BY <2>1, <2>2, RunsStay, PastCounts
  <2> QED
    BY <2>1, <2>3, RunsStay DEF CoolInv, OnFile
<1>4. NoEarlyRepeat'
  BY PastIsHonoured DEF CoolInv, NoEarlyRepeat
<1> QED
  BY <1>1, <1>2, <1>3, <1>4 DEF CoolInv

\* The throttle of the log takes its place among the cooldowns, but no live one's, unless
\* the table is full of those.
LEMMA CoolLogs ==
  ASSUME RunsTyped, CoolInv, UNCHANGED <<runs, now>>, ~Cooling(until, LogKey, now),
         until' \in Armed(until, LogKey, LogThrottle, now)
  PROVE  CoolInv'
<1>1. /\ IsFiniteSet(DOMAIN until') /\ DOMAIN until' \subseteq Keys /\ Size(until') <= MaxEntries
      /\ \A k \in DOMAIN until' : until'[k] \in Nat
      /\ \A k \in DOMAIN until' \ {LogKey} : k \in DOMAIN until /\ until'[k] = until[k]
      /\ Live \subseteq DOMAIN until' \/ (LogKey \notin DOMAIN until /\ Cardinality(Live) >= MaxEntries)
  <2>1. now \in Nat /\ LogKey \in Keys /\ LogThrottle \in Nat /\ UntilTyped
    BY RouterAssumption DEF RunsTyped, Keys, CoolInv
  <2>2. PICK t \in Armed(until, LogKey, LogThrottle, now) : t = until'
    OBVIOUS
  <2>3. /\ IsFiniteSet(DOMAIN t) /\ DOMAIN t \subseteq Keys /\ Size(t) <= MaxEntries
        /\ \A k \in DOMAIN t : t[k] \in Nat
        /\ \A k \in DOMAIN t \ {LogKey} : k \in DOMAIN until /\ t[k] = until[k]
        /\ Live \subseteq DOMAIN t \/ (LogKey \notin DOMAIN until /\ Cardinality(Live) >= MaxEntries)
    BY <2>1, ArmedIs
  <2> QED
    BY <2>2, <2>3
<1>2. UntilTyped'
  BY <1>1 DEF UntilTyped, Keys, Size
<1>6. \A k : Arms(k)' = Arms(k) /\ KeyOf(k)' = KeyOf(k) /\ EndsAt(k)' = EndsAt(k)
  BY DEF Arms, KeyOf, EndsAt
<1>7. \A m : InForce(m)' = InForce(m)
  BY <1>6 DEF InForce
<1>3. CooldownsAreEarned'
  BY <1>1, <1>6 DEF CoolInv, CooldownsAreEarned
<1>4. OnFile'
  <2> SUFFICES ASSUME NEW i \in DOMAIN runs, Arms(i), EndsAt(i) > now, Roomy(i)
               PROVE  KeyOf(i) \in DOMAIN until' /\ until'[KeyOf(i)] >= EndsAt(i)
    <3>1. \A i \in DOMAIN runs : Roomy(i)' => Roomy(i)
      BY <1>7 DEF Roomy
    <3> QED
      BY <1>6, <3>1 DEF OnFile
  <2>1. KeyOf(i) \in DOMAIN until /\ until[KeyOf(i)] >= EndsAt(i)
    BY DEF CoolInv, OnFile
  <2>2. until[KeyOf(i)] \in Nat /\ EndsAt(i) \in Nat /\ now \in Nat
    BY <2>1, RunTypes, RouterAssumption DEF CoolInv, UntilTyped, EndsAt
  <2>3. KeyOf(i) \in Live /\ KeyOf(i) # LogKey
    BY <2>1, <2>2 DEF Live, Cooling
  <2>4. Live \subseteq DOMAIN until'
    <3> SUFFICES ASSUME LogKey \notin DOMAIN until, Cardinality(Live) >= MaxEntries
                 PROVE  FALSE
      BY <1>1
    <3>1. /\ Len(runs) \in Nat /\ Len(runs) \in i..Len(runs) /\ Len(runs) \in DOMAIN runs
          /\ runs[Len(runs)].since \in Nat /\ runs[Len(runs)].since <= now /\ now \in Nat
      <4>1. Len(runs) \in DOMAIN runs /\ Len(runs) \in i..Len(runs) /\ Len(runs) \in Nat
        BY RunTypes
      <4> QED
        BY <4>1, RunTypes
    <3>2. ASSUME NEW k \in Live
          PROVE  k \in InForce(Len(runs))
      <4>1. PICK j \in DOMAIN runs : Arms(j) /\ KeyOf(j) = k /\ EndsAt(j) > now
        BY LiveIsEarned DEF CoolInv, Live
      <4>2. EndsAt(j) > runs[Len(runs)].since /\ j \in 1..Len(runs)
        <5>1. EndsAt(j) \in Nat /\ j \in 1..Len(runs)
          BY RunTypes, RouterAssumption DEF EndsAt
        <5> QED
          BY <3>1, <4>1, <5>1
      <4> QED
        BY <4>1, <4>2 DEF InForce
    <3>3. Cardinality(Live) <= Cardinality(InForce(Len(runs))) /\ Cardinality(Live) \in Nat
          /\ Cardinality(InForce(Len(runs))) \in Nat
      <4>1. IsFiniteSet(InForce(Len(runs))) /\ Live \subseteq InForce(Len(runs))
        BY <3>1, <3>2, InForceIsFinite
      <4> QED
        BY <4>1, FS_Subset, FS_CardinalityType
    <3>4. Cardinality(InForce(Len(runs))) < MaxEntries
      BY <3>1 DEF Roomy
    <3> QED
      BY <3>3, <3>4, Constants
  <2> QED
    BY <1>1, <2>1, <2>3, <2>4
<1>5. NoEarlyRepeat'
  BY <1>6, <1>7 DEF CoolInv, NoEarlyRepeat
<1> QED
  BY <1>2, <1>3, <1>4, <1>5 DEF CoolInv

\* A command that is run starts its cooldown; if that costs a live one its place, then more
\* were in force than there is room for.
LEMMA CoolArms ==
  ASSUME RunsTyped, RunsTyped', Grown, CoolInv, NEW s \in Senders, NEW e \in Entries, Admitted(s, e),
         CooldownMs[e] > 0, Len(runs') = Len(runs) + 1, now' = now,
         runs'[Len(runs) + 1] = [sender |-> s, entry |-> e, since |-> now, phase |-> "working"]
  PROVE  CoolInv'
<1> DEFINE ms == CooldownMs[e]
           K  == CooldownKey(s, e)
<1>0. PICK n \in Nat : n = Len(runs)
  BY DEF RunsTyped
<1>1. /\ DOMAIN runs = 1..n /\ DOMAIN runs' = 1..(n + 1) /\ Len(runs') = n + 1
      /\ now \in Nat /\ ms \in Nat /\ ms > 0 /\ n + 1 \notin DOMAIN runs
      /\ ~Cooling(until, K, now) /\ until' \in Armed(until, K, ms, now) /\ K \in Keys
  <2>1. CommandOf[e] \in Names
    BY RouterAssumption DEF Names
  <2> QED
    BY <1>0, <2>1, RouterAssumption DEF RunsTyped, Admitted, CooldownKey, Keys
<1>2. UntilTyped /\ CooldownsAreEarned /\ OnFile /\ NoEarlyRepeat
  BY DEF CoolInv
<1>3. /\ runs'[n + 1].sender = s /\ runs'[n + 1].entry = e /\ runs'[n + 1].since = now
      /\ Arms(n + 1)' /\ KeyOf(n + 1)' = K /\ EndsAt(n + 1)' = now + ms
  <2>1. /\ runs'[n + 1].sender = s /\ runs'[n + 1].entry = e /\ runs'[n + 1].since = now
        /\ runs'[n + 1].phase = "working"
    BY <1>0
  <2>2. ASSUME NEW k, runs'[k].sender = s, runs'[k].entry = e, runs'[k].since = now, runs'[k].phase = "working"
        PROVE  Arms(k)' /\ KeyOf(k)' = K /\ EndsAt(k)' = now + ms
    BY <1>1, <2>2 DEF Arms, KeyOf, EndsAt, CooldownKey
  <2> QED
    BY <2>1, <2>2
<1>4. /\ IsFiniteSet(DOMAIN until') /\ DOMAIN until' \subseteq Keys /\ Size(until') <= MaxEntries
      /\ \A k \in DOMAIN until' : until'[k] \in Nat
      /\ K \in DOMAIN until' /\ until'[K] = now + ms
      /\ \A k \in DOMAIN until' \ {K} : k \in DOMAIN until /\ until'[k] = until[k]
      /\ Live \subseteq DOMAIN until' \/ (K \notin DOMAIN until /\ Cardinality(Live) >= MaxEntries)
  <2>1. PICK t \in Armed(until, K, ms, now) : t = until'
    BY <1>1
  <2>2. /\ IsFiniteSet(DOMAIN t) /\ DOMAIN t \subseteq Keys /\ Size(t) <= MaxEntries
        /\ \A k \in DOMAIN t : t[k] \in Nat
        /\ K \in DOMAIN t /\ t[K] = now + ms
        /\ \A k \in DOMAIN t \ {K} : k \in DOMAIN until /\ t[k] = until[k]
        /\ Live \subseteq DOMAIN t \/ (K \notin DOMAIN until /\ Cardinality(Live) >= MaxEntries)
    BY <1>1, <1>2, ArmedIs
  <2> QED
    BY <2>1, <2>2
<1> HIDE DEF ms, K
<1>5. UntilTyped'
  BY <1>4 DEF UntilTyped, Keys, Size
<1>6. CooldownsAreEarned'
  <2> SUFFICES ASSUME NEW k \in DOMAIN until' \ {LogKey}
               PROVE  \E i \in 1..(n + 1) : Arms(i)' /\ KeyOf(i)' = k /\ EndsAt(i)' = until'[k]
    BY <1>1 DEF CooldownsAreEarned
  <2>1. CASE k = K
    <3>1. n + 1 \in 1..(n + 1)
      OBVIOUS
    <3> QED
      BY <1>3, <1>4, <2>1, <3>1
  <2>2. CASE k # K
    <3>1. PICK i \in DOMAIN runs : Arms(i) /\ KeyOf(i) = k /\ EndsAt(i) = until[k]
      BY <1>2, <1>4, <2>2 DEF CooldownsAreEarned
    <3>2. i \in 1..(n + 1) /\ until'[k] = until[k]
      BY <1>1, <1>4, <2>2
    <3> QED
      BY <3>1, <3>2, RunsStay
  <2> QED
    BY <2>1, <2>2
<1>7. ASSUME NEW i \in 1..n, Arms(i)', EndsAt(i)' > now, Roomy(i)'
      PROVE  KeyOf(i)' \in DOMAIN until' /\ until'[KeyOf(i)'] >= EndsAt(i)'
  <2>1. /\ i \in DOMAIN runs /\ Arms(i) /\ EndsAt(i) > now /\ Roomy(i) /\ EndsAt(i) \in Nat
        /\ KeyOf(i)' = KeyOf(i) /\ EndsAt(i)' = EndsAt(i)
    BY <1>1, <1>7, RunsStay, PastCounts
  <2>2. KeyOf(i) \in DOMAIN until /\ until[KeyOf(i)] >= EndsAt(i)
    BY <1>2, <2>1 DEF OnFile
  <2>3. until[KeyOf(i)] > now
    <3>1. until[KeyOf(i)] \in Nat
      BY <1>2, <2>2 DEF UntilTyped
    <3> QED
      BY <1>1, <2>1, <2>2, <3>1
  <2>4. KeyOf(i) \in Live /\ KeyOf(i) # K
    <3>1. now < until[KeyOf(i)]
      BY <2>3
    <3> QED
      BY <1>1, <2>2, <2>3, <3>1 DEF Live, Cooling
  <2>5. Live \subseteq DOMAIN until'
    <3> SUFFICES ASSUME K \notin DOMAIN until, Cardinality(Live) >= MaxEntries
                 PROVE  FALSE
      BY <1>4
    <3> DEFINE L == (Live \ {LogKey}) \cup {K}
               F == InForce(Len(runs))'
    <3>1. F = {KeyOf(k)' : k \in {k \in 1..(n + 1) : Arms(k)' /\ EndsAt(k)' > now}}
      BY <1>0, <1>1, <1>3 DEF InForce
    <3>2. K \in F
      <4>1. n + 1 \in 1..(n + 1) /\ now + ms > now
        BY <1>1
      <4> QED
        BY <1>3, <3>1, <4>1
    <3>3. ASSUME NEW k \in Live \ {LogKey}
          PROVE  k \in F
      <4>1. PICK j \in DOMAIN runs : Arms(j) /\ KeyOf(j) = k /\ EndsAt(j) > now
        BY <1>2, LiveIsEarned
      <4>2. j \in 1..(n + 1) /\ Arms(j)' /\ KeyOf(j)' = k /\ EndsAt(j)' > now
        BY <1>1, <4>1, RunsStay
      <4> QED
        BY <3>1, <4>2
    <3>4. IsFiniteSet(F) /\ L \subseteq F
      BY <1>1, <3>2, <3>3, InForceIsFinite
    <3>5. Cardinality(L) <= Cardinality(F) /\ Cardinality(F) \in Nat
      <4> HIDE DEF F, L
      <4> QED
        BY <3>4, FS_Subset, FS_CardinalityType
    <3>6. Cardinality(L) >= Cardinality(Live) /\ Cardinality(Live) \in Nat
      <4>1. IsFiniteSet(Live) /\ K \notin Live
        BY <1>2, FS_Subset DEF Live, UntilTyped
      <4>2. /\ IsFiniteSet(Live \ {LogKey}) /\ Cardinality(Live) \in Nat
            /\ Cardinality(Live \ {LogKey}) = IF LogKey \in Live THEN Cardinality(Live) - 1 ELSE Cardinality(Live)
        BY <4>1, FS_RemoveElement, FS_CardinalityType
      <4>3. Cardinality(L) = Cardinality(Live \ {LogKey}) + 1
        BY <4>1, <4>2, FS_AddElement
      <4> QED
        BY <4>2, <4>3
    <3>7. Cardinality(F) < MaxEntries
      <4>1. Len(runs') \in i..Len(runs')
        BY <1>1
      <4> QED
        BY <1>7, <4>1 DEF Roomy
    <3>8. Cardinality(L) \in Nat
      <4> HIDE DEF F, L
      <4> QED
        BY <3>4, FS_Subset, FS_CardinalityType
    <3> HIDE DEF F, L
    <3> QED
      BY <3>5, <3>6, <3>7, <3>8, Constants
  <2> QED
    BY <1>4, <2>1, <2>2, <2>4, <2>5
<1>8. OnFile'
  <2> SUFFICES ASSUME NEW i \in 1..(n + 1), Arms(i)', EndsAt(i)' > now, Roomy(i)'
               PROVE  KeyOf(i)' \in DOMAIN until' /\ until'[KeyOf(i)'] >= EndsAt(i)'
    BY <1>1 DEF OnFile
  <2>1. CASE i = n + 1
    BY <1>1, <1>3, <1>4, <2>1
  <2>2. CASE i # n + 1
    <3>1. i \in 1..n
      BY <2>2
    <3> QED
      BY <1>7, <3>1
  <2> QED
    BY <2>1, <2>2
<1>9. ASSUME NEW i \in 1..n, Arms(i)', KeyOf(i)' = K, \A m \in i..n : Cardinality(InForce(m)') < MaxEntries
      PROVE  now >= EndsAt(i)'
  <2>1. i \in DOMAIN runs /\ EndsAt(i)' = EndsAt(i) /\ EndsAt(i) \in Nat /\ Arms(i) /\ KeyOf(i) = K
    BY <1>1, <1>9, RunsStay
  <2>2. Roomy(i)
    <3>1. ASSUME NEW m \in i..n
          PROVE  InForce(m)' = InForce(m)
      <4>1. m \in DOMAIN runs
        BY <1>1
      <4> QED
        BY <4>1, RunsStay
    <3> QED
      BY <1>0, <1>9, <3>1 DEF Roomy
  <2>3. ~(EndsAt(i) > now)
    <3> SUFFICES ASSUME EndsAt(i) > now
                 PROVE  FALSE
      OBVIOUS
    <3>1. K \in DOMAIN until /\ until[K] >= EndsAt(i)
      BY <1>2, <2>1, <2>2 DEF OnFile
    <3>2. now < until[K]
      BY <1>1, <1>2, <2>1, <3>1 DEF UntilTyped
    <3> QED
      BY <1>1, <3>1, <3>2 DEF Cooling
  <2> QED
    BY <1>1, <2>1, <2>3
<1>10. NoEarlyRepeat'
  <2> SUFFICES ASSUME NEW j \in 1..(n + 1), NEW i \in 1..(j - 1), Arms(i)', Arms(j)', KeyOf(i)' = KeyOf(j)',
                      \A m \in i..(j - 1) : Cardinality(InForce(m)') < MaxEntries
               PROVE  runs'[j].since >= EndsAt(i)'
    BY <1>1 DEF NoEarlyRepeat
  <2>1. CASE j = n + 1
    <3>1. i \in 1..n /\ \A m \in i..n : Cardinality(InForce(m)') < MaxEntries
      BY <2>1
    <3> QED
      BY <1>3, <1>9, <2>1, <3>1
  <2>2. CASE j # n + 1
    <3>1. j \in DOMAIN runs
      BY <1>1, <2>2
    <3> QED
      BY <1>2, <3>1, PastIsHonoured
  <2> QED
    BY <2>1, <2>2
<1> QED
  BY <1>5, <1>6, <1>8, <1>10 DEF CoolInv

\* What Next does to the cooldowns.
LEMMA CoolKeeps ==
  ASSUME RunsTyped, RunsTyped', CoolInv, Grown, [Next]_vars
  PROVE  CoolInv'
<1>0. now \in Nat /\ Len(runs) \in Nat /\ DOMAIN runs = 1..Len(runs) /\ UntilTyped
  BY RouterAssumption DEF RunsTyped, CoolInv
<1>1. ASSUME NEW s \in Senders, NEW e \in Entries, NEW p \in {"refused", "working"}, TakesToken(s, e, p)
      PROVE  /\ Len(runs') = Len(runs) + 1 /\ now' = now /\ DOMAIN runs' = 1..(Len(runs) + 1)
             /\ runs'[Len(runs) + 1] = [sender |-> s, entry |-> e, since |-> now, phase |-> p]
  <2>1. /\ runs' = Append(runs, [sender |-> s, entry |-> e, since |-> now, phase |-> p])
        /\ UNCHANGED <<now, disposed>> /\ Len(runs) < MaxRuns /\ inFlight' \in 0..Concurrency /\ p \in Phases
    BY <1>1 DEF TakesToken, RunsTyped, Phases
  <2>2. /\ Len(runs') = Len(runs) + 1
        /\ runs'[Len(runs) + 1] = [sender |-> s, entry |-> e, since |-> now, phase |-> p]
    BY <2>1, AppendGrows
  <2> QED
    BY <2>1, <2>2 DEF RunsTyped
<1>2. ASSUME NEW s \in Senders, NEW e \in Entries, OnCooldown(s, e)
      PROVE  CoolInv'
  <2>1. TakesToken(s, e, "refused") /\ until' = until
    BY <1>2 DEF OnCooldown
  <2>2. /\ now' = now /\ DOMAIN runs' = 1..(Len(runs) + 1)
        /\ runs'[Len(runs) + 1] = [sender |-> s, entry |-> e, since |-> now, phase |-> "refused"]
    BY <1>1, <2>1
  <2>3. \A i \in DOMAIN runs' \ DOMAIN runs : runs'[i].phase = "refused"
    BY <1>0, <2>2
  <2>4. now <= now' /\ \A i \in DOMAIN runs' \ DOMAIN runs : ~Arms(i)'
    BY <1>0, <2>2, <2>3 DEF Arms
  <2> QED
    BY <2>1, <2>4, CoolStays
<1>3. ASSUME NEW s \in Senders, NEW e \in Entries, Admitted(s, e)
      PROVE  CoolInv'
  <2>1. TakesToken(s, e, "working")
    BY <1>3 DEF Admitted
  <2>2. /\ Len(runs') = Len(runs) + 1 /\ now' = now /\ DOMAIN runs' = 1..(Len(runs) + 1)
        /\ runs'[Len(runs) + 1] = [sender |-> s, entry |-> e, since |-> now, phase |-> "working"]
    BY <1>1, <2>1
  <2>3. CASE CooldownMs[e] = 0
    <3>1. until' = until
      BY <1>3, <2>3 DEF Admitted
    <3>2. \A i \in DOMAIN runs' \ DOMAIN runs : runs'[i].entry = e
      BY <1>0, <2>2
    <3>3. now <= now' /\ \A i \in DOMAIN runs' \ DOMAIN runs : ~Arms(i)'
      BY <1>0, <2>2, <2>3, <3>2 DEF Arms
    <3> QED
      BY <3>1, <3>3, CoolStays
  <2>4. CASE CooldownMs[e] # 0
    <3>1. CooldownMs[e] > 0
      BY <2>4, RouterAssumption
    <3> QED
      BY <1>3, <2>2, <3>1, CoolArms
  <2> QED
    BY <2>3, <2>4
<1>4. ASSUME NEW s \in Senders, NEW e \in Entries, Overloaded(s, e)
      PROVE  CoolInv'
  <2>1. CASE Cooling(until, LogKey, now)
    <3>1. until' = until /\ runs' = runs /\ now' = now
      BY <1>4, <2>1 DEF Overloaded
    <3>2. now <= now'
      BY <1>0, <3>1
    <3> QED
      BY <3>1, <3>2, CoolStays
  <2>2. CASE ~Cooling(until, LogKey, now)
    BY <1>4, <2>2, CoolLogs DEF Overloaded
  <2> QED
    BY <2>1, <2>2
<1>5. ASSUME NEW i \in DOMAIN runs, HandlerSettles(i) \/ TimesOut(i) \/ Finalizes(i)
      PROVE  CoolInv'
  <2>1. until' = until /\ now' = now
    BY <1>5 DEF HandlerSettles, TimesOut, Settles, Finalizes
  <2>2. runs' = [runs EXCEPT ![i].phase = "settled"] \/ runs' = [runs EXCEPT ![i].phase = "done"]
    BY <1>5 DEF HandlerSettles, TimesOut, Settles, Finalizes
  <2>3. DOMAIN runs' = DOMAIN runs
    BY <2>2
  <2>4. now <= now'
    BY <1>0, <2>1
  <2> QED
    BY <2>1, <2>3, <2>4, CoolStays
<1>6. CASE UNCHANGED <<until, runs>> /\ now' \in {now, now + 1}
  <2>1. now <= now'
    BY <1>0, <1>6
  <2> QED
    BY <1>6, <2>1, CoolStays
<1> QED
  BY <1>2, <1>3, <1>4, <1>5, <1>6 DEF Next, vars, Add, Remove, RateLimited, Dispose, Tick

-----------------------------------------------------------------------------
(* The invariant, and what follows from it.                                *)

\* An idle router with empty tables satisfies the invariant.
LEMMA InitInv == Init => IInv
<1> SUFFICES ASSUME Init
             PROVE  IInv
  OBVIOUS
<1>1. DOMAIN buckets = {} /\ DOMAIN until = {} /\ DOMAIN runs = {} /\ Len(runs) = 0 /\ runs \in Seq(Run)
  BY DEF Init
<1>2. IsFiniteSet({}) /\ Cardinality({}) = 0
  BY FS_EmptySet
<1>3. NamesTyped /\ RunsTyped
  <2>1. NamesTyped
    BY DEF Init, NamesTyped
  <2>2. now \in 0..MaxTime /\ disposed \in BOOLEAN /\ inFlight \in 0..Concurrency /\ Len(runs) <= MaxRuns
    <3>1. now = 0 /\ disposed = FALSE /\ inFlight = 0
      BY DEF Init
    <3>2. MaxTime \in Nat /\ MaxRuns \in Nat /\ Concurrency \in Nat
      BY RouterAssumption
    <3>3. now \in 0..MaxTime /\ inFlight \in 0..Concurrency /\ Len(runs) <= MaxRuns
      BY <1>1, <3>1, <3>2
    <3>4. disposed \in BOOLEAN
      BY <3>1
    <3> QED
      BY <3>3, <3>4
  <2> QED
    BY <1>1, <2>1, <2>2 DEF RunsTyped
<1>4. BucketsTyped /\ UntilTyped
  BY <1>1, <1>2, Constants DEF BucketsTyped, UntilTyped, Size
<1>5. WholeEntries
  <2>1. ASSUME NEW e \in Entries
        PROVE  {n \in NamesOf[e] : byName[n] = e} = {}
    BY RouterAssumption DEF Init, Names
  <2> QED
    BY <2>1 DEF WholeEntries
<1>6. SlotsMatch
  <2>1. Unfinished = {}
    BY <1>1 DEF Unfinished
  <2> QED
    BY <1>2, <2>1 DEF Init, SlotsMatch
<1> QED
  BY <1>1, <1>3, <1>4, <1>5, <1>6
     DEF IInv, Spent, Fair, RateHolds, CooldownsAreEarned, OnFile, NoEarlyRepeat

\* Every step keeps it.
LEMMA NextKeeps == IInv /\ [Next]_vars => IInv'
<1> SUFFICES ASSUME IInv, [Next]_vars
             PROVE  IInv'
  OBVIOUS
<1>1. NamesTyped' /\ WholeEntries'
  BY NamesKeep DEF IInv
<1>2. RunsTyped' /\ SlotsMatch' /\ Grown
  BY SlotsKeep DEF IInv
<1>3. RateInv'
  BY <1>2, RateKeeps DEF IInv, RateInv
<1>4. CoolInv'
  BY <1>2, CoolKeeps DEF IInv, CoolInv
<1> QED
  BY <1>1, <1>2, <1>3, <1>4 DEF IInv, RateInv, CoolInv

\* The inductive invariant holds of every behaviour.
LEMMA Invariance == Spec => []IInv
BY InitInv, NextKeeps, PTL DEF Spec

\* The tables, the history and the slots are what the code takes them for: the bucket and
\* cooldown tables never grow past maxKeys and maxEntries, a bucket never holds more than
\* its capacity, and there are never more handlers than #concurrency.
THEOREM TypeCorrect == Spec => []TypeOK
<1>1. IInv => TypeOK
  BY DEF IInv, NamesTyped, RunsTyped, BucketsTyped, UntilTyped, Bucket, TypeOK
<1> QED
  BY <1>1, Invariance, PTL

\* #inFlight is the number of handlers the router waits for, and zero once dispose() ran:
\* timeout, late answer and dispose() return a slot once between them.
THEOREM SlotsAreExact == Spec => []SlotsMatch
<1>1. IInv => SlotsMatch
  BY DEF IInv
<1> QED
  BY <1>1, Invariance, PTL

\* A command answers to all of its names or to none, whichever disposers of add() are run
\* again after a name has changed hands.
THEOREM EntriesAreWhole == Spec => []WholeEntries
<1>1. IInv => WholeEntries
  BY DEF IInv
<1> QED
  BY <1>1, Invariance, PTL

\* tryConsume() never lets a sender have more than a burst and one token per refillMs, in
\* any stretch of time in which there were no more busy senders than maxKeys: refilling in
\* whole periods, pruning full buckets and starting fresh ones never hand out a token more.
THEOREM RateIsKept == Spec => []RateHolds
<1>1. IInv => RateHolds
  BY DEF IInv
<1> QED
  BY <1>1, Invariance, PTL

\* A cooldown bars its command for its whole length as long as fewer are in force than
\* maxEntries, whatever is pruned, and none is on file that no run has earned.
THEOREM CooldownsAreKept == Spec => []CooldownsHold
<1>1. IInv => CooldownsHold
  BY DEF IInv, CooldownsHold
<1> QED
  BY <1>1, Invariance, PTL
=============================================================================
