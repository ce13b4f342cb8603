---------------------------- MODULE RateLimiter ----------------------------
(***************************************************************************)
(* FixedWindowLimiter of rate_limit.rs, which ttygated uses twice: session *)
(* requests by identity (begun and committed at once) and authentication   *)
(* failures by peer (begun before the provider is asked, committed on      *)
(* failure, rolled back on success or when the handler is dropped).        *)
(*                                                                         *)
(* An attempt is one call of begin with the Attempt it returns.  begin     *)
(* reads the clock before it takes the lock, so its reading may be old by  *)
(* the time it is used.                                                    *)
(***************************************************************************)
EXTENDS Integers, FiniteSets

CONSTANTS
  Keys,       \* identities or peer addresses
  Attempts,   \* calls of begin
  Limit,      \* operations allowed per window
  Window,     \* length of a window, in ticks
  Capacity,   \* LIMITER_KEY_CAPACITY
  MaxTime,    \* bound: the clock stops here
  None        \* "no bucket"

\* config.rs accepts no zero limit and no empty window.
ASSUME LimiterAssumption ==
  /\ IsFiniteSet(Attempts) /\ IsFiniteSet(Keys)
  /\ {Limit, Window, Capacity} \subseteq Nat \ {0} /\ MaxTime \in Nat

Bucket == [started_at: Nat, generation: Nat, count: Nat]

ASSUME NoBucketAssumption == None \notin Bucket \cup Keys

VARIABLES
  now,        \* Clock::now
  buckets,    \* Inner.buckets
  next,       \* Inner.next_generation
  attempt     \* pc, key, the clock as begin read it, the generation it was
              \* granted in, the retry_after it was refused with

vars == <<now, buckets, next, attempt>>

Pcs == {"idle", "begin", "held", "committed", "released", "refused"}
Attempt == [pc: Pcs, key: Keys \cup {None}, seen: Nat, generation: Nat, retry: Nat]
Idle == [pc |-> "idle", key |-> None, seen |-> 0, generation |-> 0, retry |-> 0]

\* Instant::saturating_duration_since and Duration::saturating_sub.
Since(a, b) == IF a > b THEN a - b ELSE 0

Live == {k \in Keys : buckets[k] # None}

----------------------------------------------------------------------------

\* begin: the clock is read, the lock not yet taken.
ReadClock(a, k) ==
  /\ attempt[a].pc = "idle"
  /\ attempt' = [attempt EXCEPT ![a] = [Idle EXCEPT !.pc = "begin", !.key = k, !.seen = now]]
  /\ UNCHANGED <<now, buckets, next>>

Elapsed(b, seen) == Since(seen, b.started_at) >= Window

\* Mutant: the limiter makes room by forgetting everybody.
RetainedNone(k, seen) ==
  IF buckets[k] # None \/ Cardinality(Live) < Capacity THEN buckets ELSE [j \in Keys |-> None]
\* A new key at capacity first evicts the windows that have elapsed.
Retained(k, seen) ==
  IF buckets[k] # None \/ Cardinality(Live) < Capacity THEN buckets
  ELSE [j \in Keys |-> IF buckets[j] # None /\ Elapsed(buckets[j], seen) THEN None ELSE buckets[j]]

\* A new key finds the table at its capacity.
Full(table, k) == table[k] = None /\ Cardinality({j \in Keys : table[j] # None}) >= Capacity

\* The bucket begin works on: the key's, a new one, or one restarted because its
\* window has elapsed.  The generation of a new bucket is drawn even when the key
\* has one, a restart draws another.
Restarts(table, k, seen) == table[k] # None /\ Elapsed(table[k], seen)
Opened(table, k, seen) ==
  IF table[k] = None THEN [started_at |-> seen, generation |-> next, count |-> 0]
  ELSE IF Restarts(table, k, seen)
       THEN [started_at |-> seen, generation |-> next + 1, count |-> 0]
       ELSE table[k]

Exhausted(b) == b.count >= Limit

Refused(a, retry) ==
  attempt' = [attempt EXCEPT ![a] = [@ EXCEPT !.pc = "refused", !.retry = retry]]

\* Mutant: the wait is the time already spent in the window.
RetryElapsed(b, seen) == Since(seen, b.started_at)
\* retry_after of an exhausted window.
Retry(b, seen) == Since(Window, Since(seen, b.started_at))

\* begin under the lock.
Begin(a) ==
  /\ attempt[a].pc = "begin"
  /\ LET k == attempt[a].key
         seen == attempt[a].seen
         table == Retained(k, seen)
         bucket == Opened(table, k, seen)
         drawn == IF Restarts(table, k, seen) THEN next + 2 ELSE next + 1
     IN
     \/ /\ Full(table, k)
        /\ Refused(a, Window)
        /\ buckets' = table
        /\ UNCHANGED next
     \/ /\ ~Full(table, k) /\ Exhausted(bucket)
        /\ Refused(a, Retry(bucket, seen))
        /\ buckets' = [table EXCEPT ![k] = bucket]
        /\ next' = drawn
     \/ /\ ~Full(table, k) /\ ~Exhausted(bucket)
        /\ attempt' = [attempt EXCEPT ![a] = [@ EXCEPT !.pc = "held", !.generation = bucket.generation]]
        /\ buckets' = [table EXCEPT ![k] = [bucket EXCEPT !.count = bucket.count + 1]]
        /\ next' = drawn
  /\ UNCHANGED now

\* Attempt::commit.
Commit(a) ==
  /\ attempt[a].pc = "held"
  /\ attempt' = [attempt EXCEPT ![a].pc = "committed"]
  /\ UNCHANGED <<now, buckets, next>>

\* Mutant: the generation is not compared.
CountedAnyway(a) == buckets[attempt[a].key] # None
\* The bucket of the key is still the one the attempt was counted in.
Counted(a) ==
  /\ buckets[attempt[a].key] # None
  /\ buckets[attempt[a].key].generation = attempt[a].generation

\* Attempt::rollback, or the drop of an Attempt that was not committed.
Release(a) ==
  /\ attempt[a].pc = "held"
  /\ attempt' = [attempt EXCEPT ![a].pc = "released"]
  /\ LET k == attempt[a].key
         count == Since(buckets[k].count, 1)
     IN buckets' = IF ~Counted(a) THEN buckets
                   ELSE IF count = 0 THEN [buckets EXCEPT ![k] = None]
                   ELSE [buckets EXCEPT ![k].count = count]
  /\ UNCHANGED <<now, next>>

Tick ==
  /\ now < MaxTime
  /\ now' = now + 1
  /\ UNCHANGED <<buckets, next, attempt>>

Init ==
  /\ now = 0 /\ next = 1
  /\ buckets = [k \in Keys |-> None]
  /\ attempt = [a \in Attempts |-> Idle]

Next ==
  \/ \E a \in Attempts :
       \/ \E k \in Keys : ReadClock(a, k)
       \/ Begin(a) \/ Commit(a) \/ Release(a)
  \/ Tick

Spec == Init /\ [][Next]_vars

----------------------------------------------------------------------------
(* Properties.                                                             *)

TypeOK ==
  /\ now \in Nat /\ next \in Nat
  /\ buckets \in [Keys -> Bucket \cup {None}]
  /\ attempt \in [Attempts -> Attempt]

\* The attempts that hold a slot of key k in generation g.
Granted(k, g) ==
  {a \in Attempts : attempt[a].pc \in {"held", "committed"} /\ attempt[a].key = k
                    /\ attempt[a].generation = g}

\* A bucket counts exactly the attempts that still hold a slot of its window: a
\* late rollback of an earlier window takes nothing from it, and none is lost.
CountIsExact ==
  \A k \in Live : buckets[k].count = Cardinality(Granted(k, buckets[k].generation))

\* No window of any key, past or present, ever let more than Limit operations
\* through that were not rolled back, whatever mixture of commits, rollbacks,
\* restarts and evictions happened.
WindowsWithinLimit ==
  \A k \in Keys : \A a \in Attempts : Cardinality(Granted(k, attempt[a].generation)) <= Limit

\* begin, commit and rollback account for every operation in the window it belongs to:
\* the counts are exact and no window exceeds its limit.
WindowsAreExact == CountIsExact /\ WindowsWithinLimit

\* A window that is still running is never forgotten while an operation holds a
\* slot of it: neither another key at capacity nor a rollback resets it early.
RunningWindowsSurvive ==
  [][\A k \in Live :
       now < buckets[k].started_at + Window /\ Granted(k, buckets[k].generation) # {} =>
         \/ buckets'[k] # None /\ buckets'[k].generation = buckets[k].generation
         \/ \E g \in {buckets[k].generation} : Granted(k, g)' = {}]_vars

\* Whoever waits the retry_after it was given finds the window that refused it
\* over, although begin computed it from an old reading of the clock.
RetryAfterSuffices ==
  [][\A a \in Attempts : attempt[a].pc = "begin" /\ attempt'[a].pc = "refused" =>
       LET b == buckets'[attempt[a].key] IN
         b # None => b.started_at + Window <= now + attempt'[a].retry]_vars
============================================================================
