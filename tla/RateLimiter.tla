---------------------------- MODULE RateLimiter ----------------------------
(***************************************************************************)
(* The token buckets of api/rate_limit.py: the keys of the table, least    *)
(* recently used first, and the bucket of one of them, Mine.  What is in   *)
(* the buckets of the others no answer to Mine depends on, and Mine may be *)
(* any key.                                                                *)
(*                                                                         *)
(* Instead of the instant of its last request a bucket keeps how long it   *)
(* has been idle, and no longer than fills it.  Tokens are counted in      *)
(* milliseconds of refill: one token is RefillMs of them (the code divides,*)
(* in floating point).                                                     *)
(*                                                                         *)
(* The meter of Mine is no part of the code.  It watches from outside the  *)
(* table: the tokens of an ideal bucket, which rounds nothing, and the     *)
(* other keys that have asked since Mine last did.                         *)
(***************************************************************************)
EXTENDS Integers, Sequences, FiniteSets

CONSTANTS
  Key,             \* token hashes
  Mine,            \* the one whose bucket is followed
  Capacity,        \* BURST
  RefillMs,        \* REFILL_MS_PER_TOKEN
  MaxKeys,         \* MAX_KEYS
  NsPerMs          \* nanoseconds in a millisecond

ASSUME LimiterAssumption ==
  /\ Mine \in Key
  /\ Capacity \in Nat \ {0} /\ RefillMs \in Nat \ {0}
  /\ MaxKeys \in Nat \ {0} /\ NsPerMs \in Nat \ {0}

FullMs == Capacity * RefillMs
FullNs == FullMs * NsPerMs

AtMost(a, b) == IF a <= b THEN a ELSE b

Bucket == [tokens : 0..FullMs, idle : 0..FullNs]

NewBucket == [tokens |-> FullMs, idle |-> 0]

\* The floor of elapsed_ms is taken at every request, and what is below a
\* millisecond is lost.
Refill(b) ==
  [b EXCEPT !.tokens = AtMost(FullMs, @ + b.idle \div NsPerMs), !.idle = 0]

Allows(b) == b.tokens >= RefillMs

Spend(b) == IF Allows(b) THEN [b EXCEPT !.tokens = @ - RefillMs] ELSE b

\* The OrderedDict: its keys in their order, and the bucket of Mine.  A key that
\* is not in it has none, and will have a new one.
NoBuckets == [order |-> <<>>, mine |-> NewBucket]

Has(order, k) == \E i \in DOMAIN order : order[i] = k

Position(order, k) == CHOOSE i \in DOMAIN order : order[i] = k

\* The bucket a request of Mine finds: a new one, or its own with the refill
BucketFor(buckets) ==
  IF Has(buckets.order, Mine) THEN Refill(buckets.mine) ELSE NewBucket

Allowed(buckets) == Allows(BucketFor(buckets))

Without(order, k) ==
  IF Has(order, k)
  THEN [i \in 1..(Len(order) - 1) |->
          order[IF i < Position(order, k) THEN i ELSE i + 1]]
  ELSE order

\* popitem: the oldest goes to make room.
Kept(order) == IF Len(order) >= MaxKeys THEN Tail(order) ELSE order

\* Mutant of Ordered: a key that is found stays where it is, so that the oldest
\* entry goes and not the one that has been unused for longest.
OrderedByAge(order, k) ==
  IF Has(order, k) THEN order ELSE Append(Kept(order), k)

\* move_to_end, or a new entry at the end
Ordered(order, k) == Append(Kept(Without(order, k)), k)

\* allow
AfterRequest(buckets, k) ==
  LET order == Ordered(buckets.order, k)
  IN [order |-> order,
      mine |-> IF k = Mine THEN Spend(BucketFor(buckets))
               ELSE IF Has(order, Mine) THEN buckets.mine ELSE NewBucket]

\* A nanosecond passes.
Aged(buckets) ==
  IF Has(buckets.order, Mine)
  THEN [buckets EXCEPT !.mine.idle = AtMost(@ + 1, FullNs)]
  ELSE buckets

-----------------------------------------------------------------------------
(* The meter of Mine, in nanoseconds of refill                            *)

Meter == [exact : Int, others : SUBSET Key]

NewMeter == [exact |-> FullNs, others |-> {}]

\* Mine asks.  Its burst begins anew if as many other keys as the table holds
\* have asked since it last did.
Charged(meter, allowed) ==
  LET exact == IF Cardinality(meter.others) >= MaxKeys THEN FullNs ELSE meter.exact
  IN [exact |-> IF allowed THEN exact - RefillMs * NsPerMs ELSE exact, others |-> {}]

\* Another key asks.
Passed(meter, k) == [meter EXCEPT !.others = @ \cup {k}]

\* A nanosecond passes.
Ticked(meter) == [meter EXCEPT !.exact = AtMost(@ + 1, FullNs)]
=============================================================================
