----------------------------- MODULE TokenBucket -----------------------------
(***************************************************************************)
(* The Lua script of queue/rate_limiter.py on one bucket.  Redis runs it   *)
(* without interruption.  It refills by the caller's clock, sent along as  *)
(* "now", which may be older than the stamp in the bucket; the expiry of   *)
(* the key is by the clock of Redis.                                       *)
(*                                                                         *)
(* Tokens are counted in parts: a token is Unit parts, and Rate parts are  *)
(* refilled per tick of one second, so that refill_rate = Rate / Unit.     *)
(***************************************************************************)
EXTENDS Integers

CONSTANTS
    BucketSize,   \* bucket_size
    Unit,
    Rate

ASSUME TokenBucketAssumption ==
    /\ BucketSize \in Nat \ {0}
    /\ Unit \in Nat \ {0}
    /\ Rate \in Nat \ {0}

Full == BucketSize * Unit

\* A slip: an idle bucket is dropped before it is full.
TtlTooShort == Full \div Rate

\* EXPIRE: twice the time an empty bucket needs to fill up, rounded up.
Ttl == (2 * Full + Rate - 1) \div Rate

Buckets == [tokens : Int, last : Nat, expires : Nat]

\* No such key: it has expired, or was never written.
NoBucket == [tokens |-> 0, last |-> 0, expires |-> 0]

\* What is in the bucket after the refill; less than before if now is the older.
Refilled(b, now) ==
    IF b = NoBucket \/ b.tokens + Rate * (now - b.last) > Full
    THEN Full
    ELSE b.tokens + Rate * (now - b.last)

Allowed(b, now) == Refilled(b, now) >= Unit

\* A slip: the time of the refill is not written back.
ConsumedKeepsStamp(b, now, clock) ==
    [tokens  |-> IF Allowed(b, now)
                 THEN Refilled(b, now) - Unit
                 ELSE Refilled(b, now),
     last    |-> IF b = NoBucket THEN now ELSE b.last,
     expires |-> clock + Ttl]

\* The state written back, whether a token was taken or not.
Consumed(b, now, clock) ==
    [tokens  |-> IF Allowed(b, now)
                 THEN Refilled(b, now) - Unit
                 ELSE Refilled(b, now),
     last    |-> now,
     expires |-> clock + Ttl]

\* A slip: the wait is rounded down.
RetryTooEarly(tokens) == (Unit - tokens) \div Rate

\* The Retry-After header of a refused request, in seconds: int(retry_after) + 1.
RetryAfter(tokens) == (Unit - tokens) \div Rate + 1
=============================================================================
