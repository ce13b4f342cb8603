------------------------- MODULE RateLimiterProofs -------------------------
(* Proofs about the fixed-window limiter: the accounts of every window and *)
(* the waiting times it gives.                                             *)
EXTENDS RateLimiter, FiniteSetTheorems, TLAPS

\* What an attempt knows: its key once it has begun, a reading of the clock that
\* was true once, a generation already drawn while it holds a slot.
Sound(a) ==
  /\ attempt[a].pc # "idle" => attempt[a].key \in Keys
  /\ attempt[a].seen <= now
  /\ attempt[a].pc \in {"held", "committed"} => attempt[a].generation < next

\* The windows began in the past, with generations already drawn.
LimTypes ==
  /\ now \in Nat /\ next \in Nat \ {0}
  /\ buckets \in [Keys -> Bucket \cup {None}]
  /\ attempt \in [Attempts -> Attempt]
  /\ \A k \in Live : buckets[k].started_at <= now /\ buckets[k].generation < next
  /\ \A a \in Attempts : Sound(a)

\* No window ever let more than Limit operations through, the ones nobody refers to
\* included.
Within == \A k \in Keys : \A g \in Nat : Cardinality(Granted(k, g)) <= Limit

LimInv == LimTypes /\ CountIsExact /\ Within

\* The limits are natural numbers, and let one in.
LEMMA LimiterNaturals ==
  /\ Limit \in Nat /\ Limit >= 1 /\ Window \in Nat /\ Window >= 1
  /\ Capacity \in Nat /\ Capacity >= 1 /\ MaxTime \in Nat
BY LimiterAssumption

\* A bucket is not the absence of one.
LEMMA BucketsAreSome ==
  ASSUME NEW k \in Keys, LimTypes
  PROVE  (k \in Live) = (buckets[k] \in Bucket)
BY NoBucketAssumption DEF LimTypes, Live

\* The sets that are counted are finite.
LEMMA GrantedFinite ==
  ASSUME NEW k, NEW g
  PROVE  IsFiniteSet(Granted(k, g)) /\ Cardinality(Granted(k, g)) \in Nat
<1>1. Granted(k, g) \in SUBSET Attempts
  BY DEF Granted
<1>2. IsFiniteSet(Granted(k, g))
  BY <1>1, FS_Subset, LimiterAssumption
<1>3. QED
  BY <1>2, FS_CardinalityType

\* A generation still to be drawn has granted nothing.
LEMMA FreshGeneration ==
  ASSUME LimTypes, NEW k, NEW g \in Nat, g >= next
  PROVE  Granted(k, g) = {} /\ Cardinality(Granted(k, g)) = 0
<1>1. \A a \in Attempts : attempt[a].generation \in Nat /\ next \in Nat
  BY DEF LimTypes, Attempt
<1>2. Granted(k, g) = {}
  BY <1>1 DEF Granted, LimTypes, Sound
<1>3. QED
  BY <1>2, FS_EmptySet

\* Only attempt a changes, and becomes q.
Becomes(a, q) ==
  /\ attempt' \in [Attempts -> Attempt]
  /\ \A x \in Attempts \ {a} : attempt'[x] = attempt[x]
  /\ attempt'[a] = q

\* Assigning to one attempt.
LEMMA Assigned ==
  ASSUME LimTypes, NEW a \in Attempts, NEW q \in Attempt, attempt' = [attempt EXCEPT ![a] = q]
  PROVE  Becomes(a, q)
BY DEF LimTypes, Becomes

----------------------------------------------------------------------------
(* What begin works on.                                                    *)

\* Making room forgets windows that are over, and nothing else.
LEMMA RetainedKeeps ==
  ASSUME LimTypes, NEW k \in Keys, NEW seen \in Nat, seen <= now
  PROVE  LET table == Retained(k, seen) IN
           /\ table \in [Keys -> Bucket \cup {None}]
           /\ \A j \in Keys : \/ table[j] = buckets[j]
                              \/ /\ table[j] = None /\ buckets[j] # None
                                 /\ buckets[j].started_at + Window <= now
<1>1. now \in Nat /\ buckets \in [Keys -> Bucket \cup {None}]
  BY DEF LimTypes
<1>2. ASSUME NEW j \in Keys, buckets[j] # None, Elapsed(buckets[j], seen)
      PROVE  buckets[j].started_at + Window <= now
  <2>1. buckets[j].started_at \in Nat
    BY <1>1, <1>2 DEF Bucket
  <2>2. QED
    BY <1>1, <1>2, <2>1, LimiterNaturals DEF Elapsed, Since
<1>3. CASE buckets[k] # None \/ Cardinality(Live) < Capacity
  BY <1>1, <1>3 DEF Retained
<1>4. CASE ~(buckets[k] # None \/ Cardinality(Live) < Capacity)
  <2>1. Retained(k, seen) = [j \in Keys |-> IF buckets[j] # None /\ Elapsed(buckets[j], seen) THEN None ELSE buckets[j]]
    BY <1>4 DEF Retained
  <2>2. QED
    BY <1>1, <1>2, <2>1
<1>5. QED
  BY <1>3, <1>4

\* The bucket begin opens: the one the key had, still running as far as begin can
\* tell, or an empty one of a generation nobody holds.
LEMMA OpenedIs ==
  ASSUME LimInv, NEW k \in Keys, NEW seen \in Nat, seen <= now
  PROVE  LET table == Retained(k, seen)
             b == Opened(table, k, seen)
             drawn == IF Restarts(table, k, seen) THEN next + 2 ELSE next + 1
         IN  /\ b \in Bucket /\ b.started_at <= now /\ b.generation < drawn /\ drawn \in Nat /\ drawn > next
             /\ b.count = Cardinality(Granted(k, b.generation))
             /\ \/ buckets[k] # None /\ b = buckets[k]
                \/ buckets[k] = None
                \/ buckets[k] # None /\ buckets[k].started_at + Window <= now
<1> DEFINE table == Retained(k, seen)
           b == Opened(table, k, seen)
           drawn == IF Restarts(table, k, seen) THEN next + 2 ELSE next + 1
<1>1. next \in Nat /\ now \in Nat /\ next >= 1
  BY DEF LimInv, LimTypes
<1>2. \/ table[k] = buckets[k]
      \/ table[k] = None /\ buckets[k] # None /\ buckets[k].started_at + Window <= now
  BY RetainedKeeps DEF LimInv
<1> HIDE DEF table
<1>3. CASE table[k] = None
  <2>1. b = [started_at |-> seen, generation |-> next, count |-> 0] /\ drawn = next + 1
    BY <1>3 DEF Opened, Restarts
  <2>2. b \in Bucket /\ b.started_at = seen /\ b.generation = next /\ b.count = 0
    BY <1>1, <2>1 DEF Bucket
  <2>3. Cardinality(Granted(k, next)) = 0
    BY <1>1, FreshGeneration DEF LimInv
  <2>4. \/ buckets[k] = None
        \/ buckets[k] # None /\ buckets[k].started_at + Window <= now
    BY <1>2, <1>3
  <2> HIDE DEF b, drawn
  <2>5. b.generation < drawn /\ drawn \in Nat /\ drawn > next
    BY <1>1, <2>1, <2>2
  <2>6. QED
    BY <2>2, <2>3, <2>4, <2>5 DEF table, b, drawn
<1>4. CASE table[k] # None /\ Restarts(table, k, seen)
  <2>1. b = [started_at |-> seen, generation |-> next + 1, count |-> 0] /\ drawn = next + 2
    BY <1>4 DEF Opened
  <2>2. b \in Bucket /\ b.started_at = seen /\ b.generation = next + 1 /\ b.count = 0
    BY <1>1, <2>1 DEF Bucket
  <2>3. Cardinality(Granted(k, next + 1)) = 0
    BY <1>1, FreshGeneration DEF LimInv
  <2>4. table[k] = buckets[k] /\ buckets[k] \in Bucket
    BY <1>2, <1>4 DEF LimInv, LimTypes
  <2>5. buckets[k].started_at + Window <= now
    <3>1. buckets[k].started_at \in Nat
      BY <2>4 DEF Bucket
    <3>2. QED
      BY <1>1, <1>4, <2>4, <3>1, LimiterNaturals DEF Restarts, Elapsed, Since
  <2>6. QED
    BY <1>1, <1>4, <2>1, <2>2, <2>3, <2>4, <2>5 DEF table
<1>5. CASE table[k] # None /\ ~Restarts(table, k, seen)
  <2>1. b = buckets[k] /\ drawn = next + 1 /\ buckets[k] # None /\ k \in Live
    BY <1>2, <1>5 DEF Opened, Live
  <2>2. b \in Bucket
    BY <2>1, BucketsAreSome DEF LimInv
  <2>3. b.started_at <= now /\ b.generation < next /\ b.count = Cardinality(Granted(k, b.generation))
    BY <2>1 DEF LimInv, LimTypes, CountIsExact
  <2>4. b.generation \in Nat
    BY <2>2 DEF Bucket
  <2>5. QED
    BY <1>1, <2>1, <2>2, <2>3, <2>4 DEF table
<1>6. QED
  BY <1>3, <1>4, <1>5 DEF table

----------------------------------------------------------------------------
(* The accounts.                                                           *)

\* What the accounts need to know of a step: attempt a joins or leaves one window
\* of one key, or nothing changes.
Same == \A k, g : Granted(k, g)' = Granted(k, g)
Joins(a, key, gen) ==
  /\ \A k, g : Granted(k, g)' = IF k = key /\ g = gen THEN Granted(k, g) \cup {a} ELSE Granted(k, g)
  /\ a \notin Granted(key, gen)
Quits(a, key, gen) ==
  /\ \A k, g : Granted(k, g)' = IF k = key /\ g = gen THEN Granted(k, g) \ {a} ELSE Granted(k, g)
  /\ a \in Granted(key, gen)

\* A change of one attempt is one of the three.
LEMMA GrantedAfter ==
  ASSUME NEW a \in Attempts, NEW q, Becomes(a, q)
  PROVE  /\ \/ attempt[a].pc \notin {"held", "committed"} /\ q.pc \notin {"held", "committed"}
            \/ attempt[a].pc \in {"held", "committed"} /\ q.pc \in {"held", "committed"}
               /\ q.key = attempt[a].key /\ q.generation = attempt[a].generation
            => Same
         /\ attempt[a].pc \notin {"held", "committed"} /\ q.pc \in {"held", "committed"}
            => Joins(a, q.key, q.generation)
         /\ attempt[a].pc \in {"held", "committed"} /\ q.pc \notin {"held", "committed"}
            => Quits(a, attempt[a].key, attempt[a].generation)
<1>1. ASSUME \/ attempt[a].pc \notin {"held", "committed"} /\ q.pc \notin {"held", "committed"}
             \/ attempt[a].pc \in {"held", "committed"} /\ q.pc \in {"held", "committed"}
                /\ q.key = attempt[a].key /\ q.generation = attempt[a].generation
      PROVE  Same
  BY <1>1 DEF Same, Granted, Becomes
<1>2. ASSUME attempt[a].pc \notin {"held", "committed"}, q.pc \in {"held", "committed"}
      PROVE  Joins(a, q.key, q.generation)
  BY <1>2 DEF Joins, Granted, Becomes
<1>3. ASSUME attempt[a].pc \in {"held", "committed"}, q.pc \notin {"held", "committed"}
      PROVE  Quits(a, attempt[a].key, attempt[a].generation)
  BY <1>3 DEF Quits, Granted, Becomes
<1>4. QED
  BY <1>1, <1>2, <1>3

\* Making room, or working on a bucket without counting an attempt.
LEMMA AccountsKept ==
  ASSUME LimInv, Same,
         \A j \in Keys : buckets'[j] # None =>
           buckets'[j].count = Cardinality(Granted(j, buckets'[j].generation))
  PROVE  CountIsExact' /\ Within'
BY DEF CountIsExact, Within, LimInv, Live, Same

\* begin, for every outcome.
LEMMA BeginKeeps ==
  ASSUME LimInv, NEW a \in Attempts, Begin(a) PROVE LimInv'
<1>1. PICK k \in Keys, seen \in Nat : k = attempt[a].key /\ seen = attempt[a].seen /\ seen <= now
  BY DEF Begin, LimInv, LimTypes, Sound, Attempt
<1>2. attempt[a].pc = "begin" /\ attempt[a] \in Attempt /\ now' = now /\ now \in Nat /\ next \in Nat \ {0}
  BY DEF Begin, LimInv, LimTypes
<1>3. PICK table \in [Keys -> Bucket \cup {None}] :
        /\ table = Retained(k, seen)
        /\ \A j \in Keys : table[j] = buckets[j] \/ table[j] = None
  BY <1>1, RetainedKeeps DEF LimInv
<1>4. PICK b \in Bucket, drawn \in Nat :
        /\ b = Opened(table, k, seen)
        /\ drawn = (IF Restarts(table, k, seen) THEN next + 2 ELSE next + 1)
        /\ b.started_at <= now /\ b.generation < drawn /\ drawn > next
        /\ b.count = Cardinality(Granted(k, b.generation))
  BY <1>1, <1>3, OpenedIs
<1>5. \/ Full(table, k) /\ Refused(a, Window) /\ buckets' = table /\ next' = next
      \/ Exhausted(b) /\ Refused(a, Retry(b, seen)) /\ buckets' = [table EXCEPT ![k] = b] /\ next' = drawn
      \/ /\ ~Exhausted(b) /\ next' = drawn
         /\ attempt' = [attempt EXCEPT ![a] = [@ EXCEPT !.pc = "held", !.generation = b.generation]]
         /\ buckets' = [table EXCEPT ![k] = [b EXCEPT !.count = b.count + 1]]
  BY <1>1, <1>3, <1>4 DEF Begin
<1>6. b.started_at \in Nat /\ b.generation \in Nat /\ b.count \in Nat
  BY DEF Bucket
<1>7. \A j \in Keys : table[j] # None =>
        /\ table[j] \in Bucket /\ table[j].started_at <= now /\ table[j].generation < next
        /\ table[j].generation \in Nat /\ table[j].count = Cardinality(Granted(j, table[j].generation))
  BY <1>3, BucketsAreSome DEF LimInv, LimTypes, Live, CountIsExact, Bucket
<1>8. ASSUME NEW n \in Nat, Refused(a, n) PROVE Same /\ Becomes(a, attempt'[a]) /\ attempt'[a].pc = "refused"
             /\ attempt'[a].key = k /\ attempt'[a].seen = seen
  <2> DEFINE q == [attempt[a] EXCEPT !.pc = "refused", !.retry = n]
  <2>1. q \in Attempt /\ q.pc = "refused" /\ q.key = k /\ q.seen = seen
    BY <1>1, <1>2, <1>8 DEF Attempt, Pcs
  <2> HIDE DEF q
  <2>2. Becomes(a, q)
    BY <1>8, <2>1, Assigned DEF Refused, q, LimInv
  <2>3. Same
    BY <1>2, <2>1, <2>2, GrantedAfter
  <2>4. QED
    BY <2>1, <2>2, <2>3 DEF Becomes
<1>9. ASSUME next' >= next, next' \in Nat, Becomes(a, attempt'[a]), attempt'[a].key = k, attempt'[a].seen = seen,
             attempt'[a].pc \in {"held", "committed"} => attempt'[a].generation < next',
             buckets' \in [Keys -> Bucket \cup {None}],
             \A j \in Keys : buckets'[j] # None => buckets'[j].started_at <= now /\ buckets'[j].generation < next'
      PROVE  LimTypes'
  <2>1. \A x \in Attempts : Sound(x)'
    <3>1. \A x \in Attempts : attempt[x].generation \in Nat /\ Sound(x)
      BY DEF LimInv, LimTypes, Attempt
    <3>2. QED
      BY <1>1, <1>2, <1>9, <3>1 DEF Sound, Becomes
  <2>2. QED
    BY <1>2, <1>9, <2>1 DEF LimTypes, Live, Becomes
<1>10. CASE Full(table, k) /\ Refused(a, Window) /\ buckets' = table /\ next' = next
  <2>1. Same /\ Becomes(a, attempt'[a]) /\ attempt'[a].pc = "refused" /\ attempt'[a].key = k /\ attempt'[a].seen = seen
    BY <1>8, <1>10, LimiterNaturals
  <2>2. LimTypes'
    BY <1>2, <1>3, <1>7, <1>9, <1>10, <2>1
  <2>3. QED
    BY <1>7, <1>10, <2>1, <2>2, AccountsKept DEF LimInv
<1>11. CASE Exhausted(b) /\ Refused(a, Retry(b, seen)) /\ buckets' = [table EXCEPT ![k] = b] /\ next' = drawn
  <2>1. Retry(b, seen) \in Nat
    BY <1>1, <1>6, LimiterNaturals DEF Retry, Since
  <2>2. Same /\ Becomes(a, attempt'[a]) /\ attempt'[a].pc = "refused" /\ attempt'[a].key = k /\ attempt'[a].seen = seen
    BY <1>8, <1>11, <2>1
  <2>3. buckets' \in [Keys -> Bucket \cup {None}] /\ buckets'[k] = b /\ \A j \in Keys \ {k} : buckets'[j] = table[j]
    BY <1>3, <1>11
  <2>4. \A j \in Keys : buckets'[j] # None =>
          /\ buckets'[j].started_at <= now /\ buckets'[j].generation < next'
          /\ buckets'[j].count = Cardinality(Granted(j, buckets'[j].generation))
    BY <1>2, <1>4, <1>6, <1>7, <1>11, <2>3
  <2>5. LimTypes'
    BY <1>2, <1>4, <1>9, <1>11, <2>2, <2>3, <2>4
  <2>6. QED
    BY <2>2, <2>4, <2>5, AccountsKept DEF LimInv
<1>12. CASE /\ ~Exhausted(b) /\ next' = drawn
            /\ attempt' = [attempt EXCEPT ![a] = [@ EXCEPT !.pc = "held", !.generation = b.generation]]
            /\ buckets' = [table EXCEPT ![k] = [b EXCEPT !.count = b.count + 1]]
  <2> DEFINE q == [attempt[a] EXCEPT !.pc = "held", !.generation = b.generation]
             c == [b EXCEPT !.count = b.count + 1]
  <2>1. q \in Attempt /\ q.pc = "held" /\ q.key = k /\ q.seen = seen /\ q.generation = b.generation
    BY <1>1, <1>2, <1>6 DEF Attempt, Pcs
  <2>2. c \in Bucket /\ c.started_at = b.started_at /\ c.generation = b.generation /\ c.count = b.count + 1
    BY <1>6 DEF Bucket
  <2>3. Becomes(a, q)
    BY <1>12, <2>1, Assigned DEF LimInv
  <2>4. buckets' \in [Keys -> Bucket \cup {None}] /\ buckets'[k] = c /\ \A j \in Keys \ {k} : buckets'[j] = table[j]
    BY <1>3, <1>12, <2>2
  <2> HIDE DEF q, c
  <2>5. Joins(a, k, b.generation)
    BY <1>2, <2>1, <2>3, GrantedAfter
  <2>6. \A j \in Keys : buckets'[j] # None => buckets'[j].started_at <= now /\ buckets'[j].generation < next'
    BY <1>2, <1>4, <1>6, <1>7, <1>12, <2>2, <2>4
  <2>7. attempt'[a] = q /\ Becomes(a, attempt'[a])
    BY <2>3 DEF Becomes
  <2>8. LimTypes'
    <3>1. next' >= next /\ next' \in Nat /\ b.generation < next'
      BY <1>2, <1>4, <1>12
    <3>2. QED
      BY <1>9, <2>1, <2>4, <2>6, <2>7, <3>1
  <2>9. IsFiniteSet(Granted(k, b.generation)) /\ a \notin Granted(k, b.generation)
    BY <2>5, GrantedFinite DEF Joins
  <2>10. Cardinality(Granted(k, b.generation) \cup {a}) = b.count + 1
    <3>1. Cardinality(Granted(k, b.generation) \cup {a}) = Cardinality(Granted(k, b.generation)) + 1
      BY <2>9, FS_AddElement
    <3>2. QED
      BY <1>4, <3>1
  <2>11. b.count + 1 <= Limit
    BY <1>6, <1>12, LimiterNaturals DEF Exhausted
  <2>12. Within'
    <3> SUFFICES ASSUME NEW j \in Keys, NEW g \in Nat PROVE Cardinality(Granted(j, g)') <= Limit
      BY DEF Within
    <3>1. CASE j = k /\ g = b.generation
      BY <2>5, <2>10, <2>11, <3>1 DEF Joins
    <3>2. CASE ~(j = k /\ g = b.generation)
      BY <2>5, <3>2 DEF Joins, LimInv, Within
    <3>3. QED
      BY <3>1, <3>2
  <2>13. CountIsExact'
    <3> SUFFICES ASSUME NEW j \in Keys, buckets'[j] # None
                 PROVE  buckets'[j].count = Cardinality(Granted(j, buckets[j].generation)')
      BY DEF CountIsExact, Live
    <3>0. PICK g : g = buckets'[j].generation
      OBVIOUS
    <3>1. CASE j = k
      <4>1. g = b.generation /\ buckets'[j].count = b.count + 1
        BY <2>2, <2>4, <3>0, <3>1
      <4>2. Granted(j, g)' = Granted(k, b.generation) \cup {a}
        BY <2>5, <3>1, <4>1 DEF Joins
      <4>3. Granted(j, buckets[j].generation)' = Granted(j, g)'
        BY <3>0 DEF Granted
      <4>4. QED
        BY <2>10, <4>1, <4>2, <4>3
    <3>2. CASE j # k
      <4>1. Granted(j, g)' = Granted(j, g)
        BY <2>5, <3>2 DEF Joins
      <4>2. Granted(j, buckets[j].generation)' = Granted(j, g)'
        BY <3>0 DEF Granted
      <4>3. QED
        BY <1>7, <2>4, <3>0, <3>2, <4>1, <4>2
    <3>3. QED
      BY <3>1, <3>2
  <2>14. QED
    BY <2>8, <2>12, <2>13 DEF LimInv
<1>13. QED
  BY <1>5, <1>10, <1>11, <1>12

\* A commit changes no account.
LEMMA CommitKeeps ==
  ASSUME LimInv, NEW a \in Attempts, Commit(a) PROVE LimInv'
<1> DEFINE q == [attempt[a] EXCEPT !.pc = "committed"]
<1>1. attempt[a] \in Attempt /\ attempt[a].pc = "held" /\ UNCHANGED <<now, buckets, next>> /\ Sound(a)
  BY DEF Commit, LimInv, LimTypes
<1>2. q \in Attempt /\ q.pc = "committed" /\ q.key = attempt[a].key /\ q.seen = attempt[a].seen
      /\ q.generation = attempt[a].generation
  BY <1>1 DEF Attempt, Pcs
<1>3. Becomes(a, q)
  <2>1. attempt' = [attempt EXCEPT ![a] = q]
    BY DEF Commit
  <2>2. QED
    BY <1>2, <2>1, Assigned DEF LimInv
<1> HIDE DEF q
<1>4. Same
  BY <1>1, <1>2, <1>3, GrantedAfter
<1>5. \A x \in Attempts : Sound(x)'
  BY <1>1, <1>2, <1>3 DEF LimInv, LimTypes, Sound, Becomes
<1>6. LimTypes'
  BY <1>1, <1>3, <1>5 DEF LimInv, LimTypes, Live, Becomes
<1>7. QED
  BY <1>1, <1>4, <1>6, AccountsKept DEF LimInv, CountIsExact, Live

\* What a rollback of a slot of key k in generation g leaves: the bucket of k goes
\* with its last slot, counts one less, or is another generation's and stays.
Rolled(a, k, g) ==
  /\ Quits(a, k, g) /\ UNCHANGED <<now, next>>
  /\ buckets' \in [Keys -> Bucket \cup {None}]
  /\ \A j \in Keys \ {k} : buckets'[j] = buckets[j]
  /\ \/ k \in Live /\ buckets[k].generation = g /\ buckets'[k] = None
        /\ Granted(k, g) \ {a} = {}
     \/ /\ k \in Live /\ buckets[k].generation = g /\ buckets'[k] \in Bucket
        /\ buckets'[k].started_at = buckets[k].started_at /\ buckets'[k].generation = g
        /\ buckets'[k].count = Cardinality(Granted(k, g) \ {a})
     \/ buckets'[k] = buckets[k] /\ (k \in Live => buckets[k].generation # g)
  /\ \A x \in Attempts : Sound(x)'
  /\ attempt' \in [Attempts -> Attempt]

\* Release rolls the slot of its attempt back.
LEMMA ReleaseLeaves ==
  ASSUME LimInv, NEW a \in Attempts, Release(a)
  PROVE  \E k \in Keys, g \in Nat : Rolled(a, k, g)
<1>1. PICK k \in Keys, g \in Nat : k = attempt[a].key /\ g = attempt[a].generation
  BY DEF Release, LimInv, LimTypes, Sound, Attempt
<1>2. /\ attempt[a] \in Attempt /\ attempt[a].pc = "held" /\ UNCHANGED <<now, next>>
      /\ buckets \in [Keys -> Bucket \cup {None}]
  BY DEF Release, LimInv, LimTypes
<1> DEFINE q == [attempt[a] EXCEPT !.pc = "released"]
<1>3. q \in Attempt /\ q.pc = "released" /\ q.key = k /\ q.seen = attempt[a].seen
  BY <1>1, <1>2 DEF Attempt, Pcs
<1>4. Becomes(a, q)
  <2>1. attempt' = [attempt EXCEPT ![a] = q]
    BY DEF Release
  <2>2. QED
    BY <1>3, <2>1, Assigned DEF LimInv
<1> HIDE DEF q
<1>5. Quits(a, k, g)
  BY <1>1, <1>2, <1>3, <1>4, GrantedAfter
<1>6. \A x \in Attempts : Sound(x)'
  BY <1>1, <1>2, <1>3, <1>4 DEF LimInv, LimTypes, Sound, Becomes
<1>7. CASE ~Counted(a)
  <2>1. buckets' = buckets
    BY <1>7 DEF Release
  <2>2. k \in Live => buckets[k].generation # g
    BY <1>1, <1>7 DEF Counted, Live
  <2>3. QED
    BY <1>1, <1>2, <1>4, <1>5, <1>6, <2>1, <2>2 DEF Becomes, Rolled
<1>8. CASE Counted(a)
  <2>1. k \in Live /\ buckets[k].generation = g /\ buckets[k] \in Bucket
    BY <1>1, <1>8, BucketsAreSome DEF Counted, Live, LimInv
  <2>2. buckets[k].count = Cardinality(Granted(k, g)) /\ buckets[k].count \in Nat
    BY <2>1 DEF LimInv, CountIsExact, Bucket
  <2>3. Cardinality(Granted(k, g)) # 0 /\ IsFiniteSet(Granted(k, g) \ {a})
        /\ Cardinality(Granted(k, g) \ {a}) = Cardinality(Granted(k, g)) - 1
    <3>1. IsFiniteSet(Granted(k, g)) /\ a \in Granted(k, g)
      BY <1>5, GrantedFinite DEF Quits
    <3>2. QED
      BY <3>1, FS_RemoveElement, FS_EmptySet
  <2>4. Since(buckets[k].count, 1) = buckets[k].count - 1 /\ buckets[k].count - 1 \in Nat
    BY <2>2, <2>3 DEF Since
  <2>5. CASE buckets[k].count - 1 = 0
    <3>1. buckets' = [buckets EXCEPT ![k] = None]
      BY <1>1, <1>8, <2>4, <2>5 DEF Release
    <3>2. Granted(k, g) \ {a} = {}
      BY <2>2, <2>3, <2>5, FS_EmptySet
    <3>3. buckets' \in [Keys -> Bucket \cup {None}] /\ buckets'[k] = None
          /\ \A j \in Keys \ {k} : buckets'[j] = buckets[j]
      BY <1>2, <3>1
    <3>4. QED
      BY <1>1, <1>2, <1>4, <1>5, <1>6, <2>1, <3>2, <3>3 DEF Becomes, Rolled
  <2>6. CASE buckets[k].count - 1 # 0
    <3> DEFINE n == buckets[k].count - 1
               c == [buckets[k] EXCEPT !.count = n]
    <3>1. buckets' = [buckets EXCEPT ![k].count = n]
      BY <1>1, <1>8, <2>4, <2>6 DEF Release
    <3>2. n \in Nat /\ n = Cardinality(Granted(k, g) \ {a})
      BY <2>2, <2>3, <2>4
    <3> HIDE DEF n
    <3>3. c \in Bucket /\ c.started_at = buckets[k].started_at /\ c.generation = g /\ c.count = n
      BY <2>1, <3>2 DEF Bucket
    <3>4. buckets' = [buckets EXCEPT ![k] = c]
      BY <3>1
    <3> HIDE DEF c
    <3>5. buckets' \in [Keys -> Bucket \cup {None}] /\ buckets'[k] = c
          /\ \A j \in Keys \ {k} : buckets'[j] = buckets[j]
      BY <1>2, <3>3, <3>4
    <3>6. QED
      BY <1>1, <1>2, <1>4, <1>5, <1>6, <2>1, <3>2, <3>3, <3>5 DEF Becomes, Rolled
  <2>7. QED
    BY <2>5, <2>6
<1>9. QED
  BY <1>7, <1>8

\* A rollback takes its slot off the window it was taken in, if that is still there.
LEMMA ReleaseKeeps ==
  ASSUME LimInv, NEW a \in Attempts, Release(a) PROVE LimInv'
<1>1. PICK k \in Keys, g \in Nat : Rolled(a, k, g)
  BY ReleaseLeaves
<1>2. LimTypes'
  BY <1>1 DEF LimInv, LimTypes, Live, Rolled
<1>3. Within'
  <2> SUFFICES ASSUME NEW j \in Keys, NEW h \in Nat PROVE Cardinality(Granted(j, h)') <= Limit
    BY DEF Within
  <2>1. Granted(j, h)' \in SUBSET Granted(j, h)
    BY <1>1 DEF Quits, Rolled
  <2>2. Cardinality(Granted(j, h)') <= Cardinality(Granted(j, h)) /\ Cardinality(Granted(j, h)') \in Nat
    BY <2>1, GrantedFinite, FS_Subset, FS_CardinalityType
  <2>3. QED
    BY <2>2, GrantedFinite, LimiterNaturals DEF LimInv, Within
<1>4. CountIsExact'
  <2> SUFFICES ASSUME NEW j \in Keys, buckets'[j] # None
               PROVE  buckets'[j].count = Cardinality(Granted(j, buckets[j].generation)')
    BY DEF CountIsExact, Live
  <2>1. PICK h : h = buckets'[j].generation
    OBVIOUS
  <2>2. Granted(j, buckets[j].generation)' = Granted(j, h)'
    BY <2>1 DEF Granted
  <2>3. CASE j = k /\ h = g
    <3>1. Granted(j, h)' = Granted(k, g) \ {a}
      BY <1>1, <2>3 DEF Quits, Rolled
    <3>2. buckets'[j].count = Cardinality(Granted(k, g) \ {a})
      BY <1>1, <2>1, <2>3 DEF Live, Rolled
    <3>3. QED
      BY <2>2, <3>1, <3>2
  <2>4. CASE ~(j = k /\ h = g)
    <3>1. Granted(j, h)' = Granted(j, h)
      BY <1>1, <2>4 DEF Quits, Rolled
    <3>2. buckets'[j] = buckets[j]
      BY <1>1, <2>1, <2>4 DEF Rolled
    <3>3. buckets[j].count = Cardinality(Granted(j, h))
      BY <2>1, <3>2 DEF LimInv, CountIsExact, Live
    <3>4. QED
      BY <2>2, <3>1, <3>2, <3>3
  <2>5. QED
    BY <2>3, <2>4
<1>5. QED
  BY <1>2, <1>3, <1>4 DEF LimInv

\* Every step keeps the accounts.
LEMMA LimInvNext == LimInv /\ [Next]_vars => LimInv'
<1> SUFFICES ASSUME LimInv, [Next]_vars PROVE LimInv'
  OBVIOUS
<1>1. ASSUME NEW a \in Attempts, NEW k \in Keys, ReadClock(a, k) PROVE LimInv'
  <2> DEFINE q == [Idle EXCEPT !.pc = "begin", !.key = k, !.seen = now]
  <2>1. /\ attempt[a].pc = "idle" /\ UNCHANGED <<now, buckets, next>> /\ now \in Nat
        /\ attempt' = [attempt EXCEPT ![a] = q]
    BY <1>1 DEF ReadClock, LimInv, LimTypes
  <2>2. q \in Attempt /\ q.pc = "begin" /\ q.key = k /\ q.seen = now
    BY <2>1 DEF Attempt, Pcs, Idle
  <2> HIDE DEF q
  <2>3. Becomes(a, q)
    BY <2>1, <2>2, Assigned DEF LimInv
  <2>4. Same
    BY <2>1, <2>2, <2>3, GrantedAfter
  <2>5. \A x \in Attempts : Sound(x)'
    BY <2>1, <2>2, <2>3 DEF LimInv, LimTypes, Sound, Becomes
  <2>6. LimTypes'
    BY <2>1, <2>3, <2>5 DEF LimInv, LimTypes, Live, Becomes
  <2>7. QED
    BY <2>1, <2>4, <2>6, AccountsKept DEF LimInv, CountIsExact, Live
<1>2. CASE Tick \/ UNCHANGED vars
  <2>1. UNCHANGED <<buckets, next, attempt>> /\ now' \in Nat /\ now' >= now
    BY <1>2 DEF Tick, vars, LimInv, LimTypes
  <2>2. Same
    BY <2>1 DEF Same, Granted
  <2>3. \A x \in Attempts : Sound(x)'
    <3>1. \A x \in Attempts : attempt[x].seen \in Nat /\ Sound(x) /\ now \in Nat
      BY DEF LimInv, LimTypes, Attempt
    <3>2. QED
      BY <2>1, <3>1 DEF Sound
  <2>4. \A k \in Live : buckets[k].started_at <= now'
    <3>1. \A k \in Live : buckets[k].started_at \in Nat /\ buckets[k].started_at <= now /\ now \in Nat
      BY BucketsAreSome DEF LimInv, LimTypes, Live, Bucket
    <3>2. QED
      BY <2>1, <3>1
  <2>5. LimTypes'
    BY <2>1, <2>3, <2>4 DEF LimInv, LimTypes, Live
  <2>6. QED
    BY <2>1, <2>2, <2>5, AccountsKept DEF LimInv, CountIsExact, Live
<1>3. QED
  BY <1>1, <1>2, BeginKeeps, CommitKeeps, ReleaseKeeps DEF Next

\* Nothing has happened yet.
LEMMA LimInvInit == Init => LimInv
<1> SUFFICES ASSUME Init PROVE LimInv
  OBVIOUS
<1>1. Idle \in Attempt /\ Idle.pc = "idle" /\ Idle.seen = 0
  BY DEF Idle, Attempt, Pcs
<1>2. Live = {} /\ \A k, g : Granted(k, g) = {}
  BY <1>1 DEF Init, Live, Granted
<1>3. LimTypes
  BY <1>1, <1>2 DEF Init, LimTypes, Sound
<1>4. QED
  BY <1>2, <1>3, FS_EmptySet, LimiterNaturals DEF LimInv, CountIsExact, Within

\* The state of the limiter stays well typed, whichever way its calls interleave.
THEOREM LimiterTypes == Spec => []TypeOK
<1>1. LimInv => TypeOK
  BY DEF LimInv, LimTypes, TypeOK
<1>2. QED
  BY <1>1, LimInvInit, LimInvNext, PTL DEF Spec

\* Counts are exact and no window ever exceeds its limit, whatever mixture of
\* commits, late rollbacks, restarts and evictions happens.
THEOREM LimiterIsExact == Spec => []WindowsAreExact
<1>1. LimInv => WindowsAreExact
  <2> SUFFICES ASSUME LimInv PROVE WindowsAreExact
    OBVIOUS
  <2>1. \A a \in Attempts : attempt[a].generation \in Nat
    BY DEF LimInv, LimTypes, Attempt
  <2>2. QED
    BY <2>1 DEF LimInv, Within, WindowsAreExact, WindowsWithinLimit
<1>2. QED
  BY <1>1, LimInvInit, LimInvNext, PTL DEF Spec

----------------------------------------------------------------------------
(* Windows and waiting times.                                              *)

\* A running window that holds a slot is there after any step: eviction and restart
\* take what has elapsed by a clock read earlier, and a rollback removes a bucket
\* only with its last slot.
THEOREM RunningWindowsStay == Spec => RunningWindowsSurvive
<1> DEFINE Survives == \A k \in Live :
      now < buckets[k].started_at + Window /\ Granted(k, buckets[k].generation) # {} =>
        \/ buckets'[k] # None /\ buckets'[k].generation = buckets[k].generation
        \/ \E g \in {buckets[k].generation} : Granted(k, g)' = {}
<1>1. LimInv /\ [Next]_vars => [Survives]_vars
  <2> SUFFICES ASSUME LimInv, Next, NEW j \in Live, now < buckets[j].started_at + Window
               PROVE  \/ buckets'[j] # None /\ buckets'[j].generation = buckets[j].generation
                      \/ \E g \in {buckets[j].generation} : Granted(j, g)' = {}
    BY DEF vars
  <2>1. j \in Keys /\ buckets[j] # None /\ buckets[j] \in Bucket /\ now \in Nat
    BY BucketsAreSome DEF LimInv, LimTypes, Live
  <2>2. ~(buckets[j].started_at + Window <= now)
    BY <2>1, LimiterNaturals DEF Bucket
  <2>3. ASSUME NEW a \in Attempts, Begin(a) PROVE buckets'[j] # None /\ buckets'[j].generation = buckets[j].generation
    <3>1. PICK k \in Keys, seen \in Nat : k = attempt[a].key /\ seen = attempt[a].seen /\ seen <= now
      BY <2>3 DEF Begin, LimInv, LimTypes, Sound, Attempt
    <3>2. PICK table \in [Keys -> Bucket \cup {None}] :
            table = Retained(k, seen) /\ table[j] = buckets[j]
      BY <2>1, <2>2, <3>1, RetainedKeeps DEF LimInv
    <3>3. PICK b \in Bucket :
            /\ b = Opened(table, k, seen)
            /\ j = k => b = buckets[j]
      BY <2>1, <2>2, <3>1, <3>2, OpenedIs
    <3>4. PICK c \in Bucket :
            /\ buckets' = table \/ buckets' = [table EXCEPT ![k] = c]
            /\ c.generation = b.generation
      <4>1. [b EXCEPT !.count = b.count + 1] \in Bucket /\ [b EXCEPT !.count = b.count + 1].generation = b.generation
        BY DEF Bucket
      <4>2. QED
        BY <2>3, <3>1, <3>2, <3>3, <4>1 DEF Begin
    <3>5. c # None
      BY NoBucketAssumption
    <3>6. QED
      BY <2>1, <3>2, <3>3, <3>4, <3>5
  <2>4. ASSUME NEW a \in Attempts, Release(a)
        PROVE  \/ buckets'[j] # None /\ buckets'[j].generation = buckets[j].generation
               \/ \E g \in {buckets[j].generation} : Granted(j, g)' = {}
    <3>1. PICK k \in Keys, g \in Nat : Rolled(a, k, g)
      BY <2>4, ReleaseLeaves
    <3>2. CASE buckets'[j] = buckets[j]
      BY <2>1, <3>2
    <3>3. CASE j = k /\ buckets[k].generation = g /\ buckets'[k] \in Bucket /\ buckets'[k].generation = g
      BY <3>3, NoBucketAssumption
    <3>4. CASE j = k /\ buckets[k].generation = g /\ Granted(k, g) \ {a} = {}
      <4>1. Granted(j, g)' = {}
        BY <3>1, <3>4 DEF Quits, Rolled
      <4>2. QED
        BY <3>4, <4>1
    <3>5. QED
      BY <2>1, <3>1, <3>2, <3>3, <3>4 DEF Rolled
  <2>5. ASSUME buckets' = buckets PROVE buckets'[j] # None /\ buckets'[j].generation = buckets[j].generation
    BY <2>1, <2>5
  <2>6. QED
    BY <2>3, <2>4, <2>5 DEF Next, ReadClock, Commit, Tick
<1>2. QED
  BY <1>1, LimInvInit, LimInvNext, PTL DEF Spec, RunningWindowsSurvive

\* The wait a refusal names lasts to the end of the window that refused, although
\* the clock was read before the lock was taken and the window may have begun since.
THEOREM RetryAfterIsEnough == Spec => RetryAfterSuffices
<1> DEFINE Suffices == \A a \in Attempts : attempt[a].pc = "begin" /\ attempt'[a].pc = "refused" =>
      LET b == buckets'[attempt[a].key] IN
        b # None => b.started_at + Window <= now + attempt'[a].retry
<1>1. LimInv /\ [Next]_vars => [Suffices]_vars
  <2> SUFFICES ASSUME LimInv, Next, NEW a \in Attempts, attempt[a].pc = "begin", attempt'[a].pc = "refused",
                      buckets'[attempt[a].key] # None
               PROVE  buckets'[attempt[a].key].started_at + Window <= now + attempt'[a].retry
    BY DEF vars
  <2>1. Begin(a)
    <3>1. \A x \in Attempts : attempt[x] \in Attempt
      BY DEF LimInv, LimTypes
    <3>2. ASSUME NEW x \in Attempts \ {a}, NEW k \in Keys, ReadClock(x, k) \/ Begin(x) \/ Commit(x) \/ Release(x)
          PROVE  attempt'[a] = attempt[a]
      BY <3>2 DEF ReadClock, Begin, Refused, Commit, Release, LimInv, LimTypes
    <3>3. ~Tick /\ ~Commit(a) /\ ~Release(a) /\ \A k \in Keys : ~ReadClock(a, k)
      BY DEF Tick, Commit, Release, ReadClock
    <3>4. attempt[a].key \in Keys
      BY DEF LimInv, LimTypes, Sound
    <3>5. QED
      BY <3>2, <3>3, <3>4 DEF Next
  <2>2. PICK k \in Keys, seen \in Nat : k = attempt[a].key /\ seen = attempt[a].seen /\ seen <= now
    BY <2>1 DEF Begin, LimInv, LimTypes, Sound, Attempt
  <2>3. PICK table \in [Keys -> Bucket \cup {None}] : table = Retained(k, seen)
    BY <2>2, RetainedKeeps DEF LimInv
  <2>4. PICK b \in Bucket : b = Opened(table, k, seen) /\ b.started_at <= now
    BY <2>2, <2>3, OpenedIs
  <2>5. attempt[a] \in Attempt /\ now \in Nat
    BY DEF LimInv, LimTypes
  <2>6. ~Full(table, k) /\ Refused(a, Retry(b, seen)) /\ buckets' = [table EXCEPT ![k] = b]
    <3>1. CASE Full(table, k) /\ buckets' = table
      BY <2>2, <3>1 DEF Full
    <3>2. CASE attempt' = [attempt EXCEPT ![a] = [@ EXCEPT !.pc = "held", !.generation = b.generation]]
      <4>1. attempt'[a].pc = "held"
        BY <2>5, <3>2 DEF LimInv, LimTypes, Attempt
      <4>2. QED
        BY <4>1
    <3>3. QED
      BY <2>1, <2>2, <2>3, <2>4, <3>1, <3>2 DEF Begin
  <2>7. attempt'[a].retry = Retry(b, seen)
    <3>1. attempt'[a] = [attempt[a] EXCEPT !.pc = "refused", !.retry = Retry(b, seen)]
      BY <2>6 DEF Refused, LimInv, LimTypes
    <3>2. QED
      BY <2>5, <3>1 DEF Attempt
  <2>8. buckets'[k] = b /\ b.started_at \in Nat
    BY <2>3, <2>6 DEF Bucket
  <2>9. b.started_at + Window <= now + Retry(b, seen)
    BY <2>2, <2>4, <2>5, <2>8, LimiterNaturals DEF Retry, Since
  <2>10. QED
    BY <2>2, <2>7, <2>8, <2>9
<1>2. QED
  BY <1>1, LimInvInit, LimInvNext, PTL DEF Spec, RetryAfterSuffices
============================================================================
