---------------------------- MODULE Gateway_proofs ----------------------------
(***************************************************************************)
(* Proofs about Gateway, for every number of handlers, every queue limit,  *)
(* every size and rate of the bucket, with outages of Redis and lost       *)
(* replies.                                                                *)
(***************************************************************************)
EXTENDS Gateway, FiniteSetTheorems, TLAPS

USE DEF Kind, Admitted, Answer

(***************************************************************************)
(* Arithmetic.                                                             *)
(***************************************************************************)

\* Refills add up over consecutive intervals.
LEMMA RateSums ==
    \A a, b \in Int : Rate * (a - b) = Rate * a - Rate * b /\ Rate * a \in Int
BY TokenBucketAssumption, SMT

LEMMA RateZero == \A a \in Int : Rate * (a - a) = 0
<1> SUFFICES ASSUME NEW a \in Int PROVE Rate * (a - a) = 0
    OBVIOUS
<1>1. a - a = 0
    OBVIOUS
<1>2. Rate * 0 = 0
    BY TokenBucketAssumption, SMT
<1> QED
    BY <1>1, <1>2

LEMMA RateMonotone ==
    ASSUME NEW a \in Int, NEW b \in Int, a <= b
    PROVE  Rate * a <= Rate * b
BY TokenBucketAssumption, SMT

LEMMA UnitSums == \A n \in Int : (n + 1) * Unit = n * Unit + Unit /\ n * Unit \in Int
BY TokenBucketAssumption, SMT

\* Quotients by the rate are rounded down, by less than one.
LEMMA RateQuotient ==
    ASSUME NEW a \in Int
    PROVE  /\ a \div Rate \in Int
           /\ Rate * (a \div Rate) <= a
           /\ a < Rate * (a \div Rate) + Rate
BY TokenBucketAssumption, SMT

LEMMA FullHoldsToken == Full \in Nat /\ Full >= Unit /\ Unit \in Nat \ {0}
<1>1. BucketSize \in Nat \ {0} /\ Unit \in Nat \ {0}
    BY TokenBucketAssumption
<1>2. BucketSize * Unit \in Nat /\ BucketSize * Unit >= Unit
    BY <1>1, SMT
<1> QED
    BY <1>1, <1>2 DEF Full

\* An empty bucket is full again before it expires.
LEMMA TtlFills == Ttl \in Nat \ {0} /\ Rate * Ttl >= Full
<1>1. Rate \in Nat \ {0} /\ Full \in Nat /\ Full > 0
    BY TokenBucketAssumption, FullHoldsToken
<1> DEFINE a == 2 * Full + Rate - 1
<1>2. a \in Int
    BY <1>1
<1>3. /\ a \div Rate \in Int
      /\ a < Rate * (a \div Rate) + Rate
    BY <1>2, RateQuotient
<1>4. Rate * (a \div Rate) \in Int
    BY <1>3, RateSums
<1>5. Rate * (a \div Rate) >= 2 * Full
    BY <1>1, <1>3, <1>4
<1>6. a \div Rate > 0
    <2>1. CASE a \div Rate <= 0
        <3>1. Rate * (a \div Rate) <= Rate * 0
            BY <1>3, <2>1, RateMonotone
        <3> QED
            BY <1>1, <1>4, <1>5, <3>1
    <2> QED
        BY <1>3, <2>1
<1> QED
    BY <1>1, <1>3, <1>4, <1>5, <1>6 DEF Ttl

-----------------------------------------------------------------------------
(***************************************************************************)
(* The script on a bucket, with a stamp that is at most the clock.         *)
(***************************************************************************)

\* What a bucket c is that the script leaves of b.
Leaves(c, b, now, t) ==
    /\ c \in Buckets /\ c # NoBucket
    /\ c.last = now /\ c.expires = t + Ttl
    /\ c.tokens \in Int /\ c.tokens <= Full
    /\ Allowed(b, now) => c.tokens >= 0
    /\ b = NoBucket => Allowed(b, now) /\ c.tokens = Full - Unit
    /\ b # NoBucket /\ Allowed(b, now) => c.tokens + Unit <= b.tokens + Rate * (now - b.last)
    /\ ~Allowed(b, now) => /\ b # NoBucket
                           /\ c.tokens = b.tokens + Rate * (now - b.last)
                           /\ c.tokens < Unit

LEMMA ConsumedBucket ==
    ASSUME NEW b \in Buckets, NEW now \in Nat, NEW t \in Nat
    PROVE  Leaves(Consumed(b, now, t), b, now, t)
<1>a. b.tokens \in Int /\ b.last \in Nat /\ now - b.last \in Int
    BY DEF Buckets
<1>1. /\ b.tokens \in Int /\ b.last \in Nat /\ now - b.last \in Int
      /\ Rate * (now - b.last) \in Int
    BY <1>a, RateSums
<1>2. Full \in Nat /\ Full >= Unit /\ Unit \in Nat \ {0} /\ Ttl \in Nat \ {0}
    BY FullHoldsToken, TtlFills
<1> DEFINE c == Consumed(b, now, t)
<1>3. c = [tokens |-> IF Allowed(b, now) THEN Refilled(b, now) - Unit ELSE Refilled(b, now),
           last |-> now, expires |-> t + Ttl]
    BY DEF Consumed
<1>4. /\ c.tokens = IF Allowed(b, now) THEN Refilled(b, now) - Unit ELSE Refilled(b, now)
      /\ c.last = now /\ c.expires = t + Ttl
    BY <1>3
<1>5. Refilled(b, now) \in Int /\ Refilled(b, now) <= Full
    BY <1>1, <1>2 DEF Refilled
<1>6. c.tokens \in Int
    BY <1>2, <1>4, <1>5
<1>7. c \in Buckets
    BY <1>2, <1>3, <1>4, <1>6 DEF Buckets
<1>8. c # NoBucket
    <2>1. c.expires # 0
        BY <1>2, <1>4
    <2> QED
        BY <2>1 DEF NoBucket
<1>9. b = NoBucket => Allowed(b, now) /\ c.tokens = Full - Unit
    <2>1. b = NoBucket => Refilled(b, now) = Full
        BY DEF Refilled
    <2> QED
        BY <1>2, <1>4, <2>1 DEF Allowed
<1>10. b # NoBucket => Refilled(b, now) <= b.tokens + Rate * (now - b.last)
    BY <1>1, <1>2 DEF Refilled
<1>11. ~Allowed(b, now) => b # NoBucket /\ Refilled(b, now) = b.tokens + Rate * (now - b.last)
                           /\ Refilled(b, now) < Unit
    BY <1>1, <1>2 DEF Refilled, Allowed
<1> QED
    BY <1>2, <1>4, <1>5, <1>6, <1>7, <1>8, <1>9, <1>10, <1>11 DEF Allowed, Leaves

-----------------------------------------------------------------------------
(***************************************************************************)
(* The inductive invariant.  Budget bounds what was granted by what was    *)
(* refilled up to the last stamp, and Solvent what a stamp in the past can *)
(* take away: the tokens are never below what the time since the stamp     *)
(* gives back.  KeepsWord is what a refused client was promised.  The last *)
(* three hold for a snapshot as well, since it holds at least the tokens   *)
(* of the bucket that grew out of it.                                      *)
(***************************************************************************)
StampsPast == \A h \in Handlers : stamp[h] <= clock

Budget ==
    /\ bucket = NoBucket => granted = 0 /\ birth = 0
    /\ bucket # NoBucket =>
          /\ bucket.tokens <= Full
          /\ bucket.last <= clock
          /\ granted * Unit + bucket.tokens <= Full + Rate * (bucket.last - birth)

Solvent ==
    bucket # NoBucket =>
        /\ bucket.expires - Ttl \in Nat
        /\ bucket.expires - Ttl <= clock
        /\ bucket.tokens + Rate * (bucket.expires - Ttl - bucket.last) >= 0

KeepsWord ==
    bucket # NoBucket /\ promise < Never =>
        bucket.tokens + Rate * (promise - bucket.last) >= Unit

SavedAccount ==
    LET b == saved.bucket IN
        /\ b = NoBucket => saved.granted = 0 /\ saved.birth = 0
        /\ b # NoBucket =>
              /\ b.tokens <= Full
              /\ b.last <= clock
              /\ saved.granted * Unit + b.tokens <= Full + Rate * (b.last - saved.birth)
              /\ b.expires - Ttl \in Nat
              /\ b.expires - Ttl <= clock
              /\ b.tokens + Rate * (b.expires - Ttl - b.last) >= 0

SavedRicher ==
    saved.bucket # NoBucket /\ clock < saved.bucket.expires =>
        /\ bucket # NoBucket
        /\ saved.bucket.expires <= bucket.expires
        /\ bucket.tokens + Rate * (saved.bucket.last - bucket.last) <= saved.bucket.tokens

Inv == TypeOK /\ StampsPast /\ Budget /\ Solvent /\ KeepsWord /\ SavedAccount /\ SavedRicher

Snapshots == [bucket : Buckets, granted : Nat, birth : 0 .. MaxTime, depth : Nat]
LimiterTypes == bucket \in Buckets /\ granted \in Nat /\ birth \in 0 .. MaxTime /\ promise \in Nat

\* The initial state has no bucket.
LEMMA InitInv == Init => Inv
<1> SUFFICES ASSUME Init PROVE Inv
    OBVIOUS
<1>1. MaxTime \in Nat /\ 0 \in 0 .. MaxTime /\ Never \in Nat
    BY GatewayAssumption DEF Never
<1>2. NoBucket \in Buckets
    BY DEF NoBucket, Buckets
<1>3. TypeOK
    BY <1>1, <1>2 DEF Init, NoData, TypeOK
<1>4. StampsPast /\ Budget /\ Solvent /\ KeepsWord
    BY DEF Init, StampsPast, Budget, Solvent, KeepsWord
<1>5. SavedAccount /\ SavedRicher
    BY DEF Init, NoData, SavedAccount, SavedRicher
<1> QED
    BY <1>3, <1>4, <1>5 DEF Inv

\* What a step does to the handlers: the states stay in their types, and a stamp is
\* the time of its sending.
LEMMA HandlerStep ==
    ASSUME Inv, NEW h \in Handlers,
           \/ \E a \in Answer : Respond(h, a)
           \/ \E place \in Admitted : Goto(h, place)
           \/ SendScript(h)
           \/ \E k \in Kind : Receive(h, k)
           \/ UNCHANGED handlerVars,
           UNCHANGED clock
    PROVE  /\ pc' \in [Handlers -> {"idle", "shedding"} \cup Admitted]
           /\ kind' \in [Handlers -> Kind \cup {"none"}]
           /\ stamp' \in [Handlers -> 0 .. MaxTime]
           /\ answer' \in [Handlers -> Answer]
           /\ clock' \in 0 .. MaxTime
           /\ StampsPast'
<1>t. /\ pc \in [Handlers -> {"idle", "shedding"} \cup Admitted]
      /\ kind \in [Handlers -> Kind \cup {"none"}]
      /\ stamp \in [Handlers -> 0 .. MaxTime]
      /\ answer \in [Handlers -> Answer]
      /\ clock \in 0 .. MaxTime /\ MaxTime \in Nat
      /\ \A g \in Handlers : stamp[g] <= clock
    BY GatewayAssumption DEF Inv, TypeOK, StampsPast
<1>1. CASE \E a \in Answer : Respond(h, a)
    BY <1>t, <1>1 DEF Respond, StampsPast
<1>2. CASE \E place \in Admitted : Goto(h, place)
    BY <1>t, <1>2 DEF Goto, StampsPast
<1>3. CASE SendScript(h)
    BY <1>t, <1>3 DEF SendScript, StampsPast
<1>4. CASE \E k \in Kind : Receive(h, k)
    BY <1>t, <1>4 DEF Receive, StampsPast
<1>5. CASE UNCHANGED handlerVars
    BY <1>t, <1>5 DEF handlerVars, StampsPast
<1> QED
    BY <1>1, <1>2, <1>3, <1>4, <1>5

\* A step that leaves limiter and clock alone keeps what is said about them.
LEMMA LimiterUnchanged ==
    ASSUME Inv, UNCHANGED <<limiterVars, clock>>
    PROVE  LimiterTypes' /\ Budget' /\ Solvent' /\ KeepsWord'
BY DEF Inv, TypeOK, LimiterTypes, Budget, Solvent, KeepsWord, limiterVars

\* So does one that also leaves the snapshot alone.
LEMMA SavedUnchanged ==
    ASSUME Inv, UNCHANGED <<bucket, saved, clock>>
    PROVE  SavedAccount' /\ SavedRicher'
BY DEF Inv, SavedAccount, SavedRicher

\* The script runs: what is refilled and what is taken stay within the budget, in
\* whatever order stamps arrive.
LEMMA ScriptBudget ==
    ASSUME Inv, NEW h \in Handlers, RunScript(h), UNCHANGED clock
    PROVE  /\ bucket' \in Buckets /\ granted' \in Nat /\ birth' \in 0 .. MaxTime
           /\ Budget' /\ Solvent'
<1> DEFINE now == stamp[h]
<1>t. /\ bucket \in Buckets /\ granted \in Nat /\ birth \in 0 .. MaxTime
      /\ now \in 0 .. MaxTime /\ now \in Nat /\ now <= clock
      /\ clock \in 0 .. MaxTime /\ clock \in Nat /\ MaxTime \in Nat
      /\ Full \in Nat /\ Full >= Unit /\ Unit \in Nat \ {0} /\ Ttl \in Nat \ {0}
    BY GatewayAssumption, FullHoldsToken, TtlFills DEF Inv, TypeOK, StampsPast
<1>b. bucket.tokens \in Int /\ bucket.last \in Nat /\ bucket.expires \in Nat
    BY <1>t DEF Buckets
<1> HIDE DEF now
<1> DEFINE c == Consumed(bucket, now, clock)
<1>1. /\ bucket' = c
      /\ birth' = IF bucket = NoBucket THEN now ELSE birth
      /\ granted' = IF Allowed(bucket, now) THEN granted + 1 ELSE granted
    BY DEF RunScript, now
<1>2. /\ c \in Buckets /\ c # NoBucket
      /\ c.last = now /\ c.expires = clock + Ttl
      /\ c.tokens \in Int /\ c.tokens <= Full
      /\ Allowed(bucket, now) => c.tokens >= 0
      /\ bucket = NoBucket => Allowed(bucket, now) /\ c.tokens = Full - Unit
      /\ bucket # NoBucket /\ Allowed(bucket, now)
            => c.tokens + Unit <= bucket.tokens + Rate * (now - bucket.last)
      /\ ~Allowed(bucket, now) => /\ bucket # NoBucket
                                  /\ c.tokens = bucket.tokens + Rate * (now - bucket.last)
                                  /\ c.tokens < Unit
    <2>1. Leaves(c, bucket, now, clock)
        BY <1>t, ConsumedBucket
    <2> HIDE DEF c
    <2> QED
        BY <2>1 DEF Leaves
<1> HIDE DEF c
<1>3. birth \in Nat /\ birth' \in 0 .. MaxTime /\ birth' \in Nat /\ granted' \in Nat
    BY <1>t, <1>1
<1>i. now \in Int /\ clock \in Int /\ bucket.last \in Int /\ birth \in Int
    BY <1>t, <1>b, <1>3
<1>q. /\ Rate * now \in Int /\ Rate * bucket.last \in Int /\ Rate * birth \in Int
      /\ Rate * clock \in Int
      /\ Rate * (now - bucket.last) = Rate * now - Rate * bucket.last
      /\ Rate * (bucket.last - birth) = Rate * bucket.last - Rate * birth
      /\ Rate * (now - birth) = Rate * now - Rate * birth
      /\ Rate * (now - now) = Rate * now - Rate * now
      /\ Rate * (clock - now) = Rate * clock - Rate * now
    BY <1>i, RateSums, Zenon
<1>r. /\ Rate * (now - now) = 0
      /\ Rate * now <= Rate * clock
    BY <1>t, <1>i, <1>q, RateMonotone
<1>u. granted * Unit \in Int /\ (granted + 1) * Unit = granted * Unit + Unit /\ 1 * Unit = Unit
    BY <1>t, UnitSums
<1>4. granted' * Unit + c.tokens <= Full + Rate * (now - birth')
    <2>1. CASE bucket = NoBucket
        <3>1. granted' = 1 /\ birth' = now /\ c.tokens = Full - Unit
            BY <1>1, <1>2, <2>1 DEF Inv, Budget
        <3> QED
            BY <1>t, <1>q, <1>r, <1>u, <3>1
    <2>2. CASE bucket # NoBucket /\ Allowed(bucket, now)
        <3>1. /\ granted' = granted + 1 /\ birth' = birth
              /\ granted * Unit + bucket.tokens <= Full + Rate * (bucket.last - birth)
              /\ c.tokens + Unit <= bucket.tokens + Rate * (now - bucket.last)
            BY <1>1, <1>2, <2>2 DEF Inv, Budget
        <3> QED
            BY <1>t, <1>b, <1>2, <1>q, <1>r, <1>u, <3>1
    <2>3. CASE bucket # NoBucket /\ ~Allowed(bucket, now)
        <3>1. /\ granted' = granted /\ birth' = birth
              /\ granted * Unit + bucket.tokens <= Full + Rate * (bucket.last - birth)
              /\ c.tokens = bucket.tokens + Rate * (now - bucket.last)
            BY <1>1, <1>2, <2>3 DEF Inv, Budget
        <3> QED
            BY <1>t, <1>b, <1>2, <1>q, <1>r, <1>u, <3>1
    <2> QED
        BY <2>1, <2>2, <2>3
<1>5. Budget'
    BY <1>t, <1>1, <1>2, <1>4 DEF Budget
<1>6. c.tokens + Rate * (clock - now) >= 0
    <2>1. CASE Allowed(bucket, now)
        BY <1>t, <1>2, <1>q, <1>r, <2>1
    <2>2. CASE ~Allowed(bucket, now)
        <3> DEFINE w == bucket.expires - Ttl
        <3>1. /\ w \in Nat /\ w <= clock
              /\ bucket.tokens + Rate * (w - bucket.last) >= 0
            BY <1>2, <2>2 DEF Inv, Solvent
        <3> HIDE DEF w
        <3>i. w \in Int
            BY <3>1
        <3>2. Rate * (w - bucket.last) = Rate * w - Rate * bucket.last /\ Rate * w \in Int
            BY <1>i, <3>i, RateSums, Zenon
        <3>3. Rate * w <= Rate * clock
            BY <1>i, <3>i, <3>1, RateMonotone
        <3> QED
            BY <1>b, <1>2, <1>q, <1>r, <2>2, <3>1, <3>2, <3>3
    <2> QED
        BY <2>1, <2>2
<1>7. Solvent'
    <2>1. c.expires - Ttl = clock
        BY <1>t, <1>2
    <2> QED
        BY <1>t, <1>1, <1>2, <1>6, <2>1 DEF Solvent
<1> QED
    BY <1>1, <1>2, <1>3, <1>5, <1>7

\* The script leaves no more in the bucket than there was, and for no shorter time.
LEMMA ScriptSaved ==
    ASSUME Inv, NEW h \in Handlers, RunScript(h), UNCHANGED <<saved, clock>>
    PROVE  SavedAccount' /\ SavedRicher'
<1> DEFINE now == stamp[h]
           b == saved.bucket
<1>t. /\ bucket \in Buckets /\ now \in Nat /\ clock \in Nat /\ b \in Buckets
      /\ Unit \in Nat /\ Ttl \in Nat
    BY GatewayAssumption, FullHoldsToken, TtlFills DEF Inv, TypeOK
<1>b. /\ bucket.tokens \in Int /\ bucket.last \in Int /\ bucket.expires \in Nat
      /\ b.tokens \in Int /\ b.last \in Int /\ b.expires \in Nat
    BY <1>t DEF Buckets
<1> HIDE DEF now
<1>1. SavedAccount'
    BY DEF Inv, SavedAccount
<1>2. SavedRicher'
    <2> SUFFICES ASSUME b # NoBucket, clock < b.expires
                 PROVE  /\ bucket' # NoBucket
                        /\ b.expires <= bucket'.expires
                        /\ bucket'.tokens + Rate * (b.last - bucket'.last) <= b.tokens
        BY DEF SavedRicher
    <2>1. /\ bucket # NoBucket
          /\ bucket.tokens + Rate * (b.last - bucket.last) <= b.tokens
        BY DEF Inv, SavedRicher
    <2>2. /\ bucket' # NoBucket /\ bucket'.last = now /\ bucket'.expires = clock + Ttl
          /\ bucket'.tokens \in Int
          /\ bucket'.tokens <= bucket.tokens + Rate * (now - bucket.last)
        <3>1. Leaves(bucket', bucket, now, clock)
            BY <1>t, ConsumedBucket DEF RunScript, now
        <3>i. now - bucket.last \in Int
            BY <1>t, <1>b
        <3>2. Rate * (now - bucket.last) \in Int
            BY <3>i, RateSums
        <3> QED
            BY <1>t, <1>b, <2>1, <3>1, <3>2 DEF Leaves
    <2>3. b.expires <= clock + Ttl
        BY <1>t, <1>b DEF Inv, SavedAccount
    <2>i. now \in Int
        BY <1>t
    <2>4. /\ Rate * (b.last - now) = Rate * b.last - Rate * now
          /\ Rate * (now - bucket.last) = Rate * now - Rate * bucket.last
          /\ Rate * (b.last - bucket.last) = Rate * b.last - Rate * bucket.last
          /\ Rate * b.last \in Int /\ Rate * now \in Int /\ Rate * bucket.last \in Int
        BY <1>b, <2>i, RateSums, Zenon
    <2> HIDE DEF b
    <2>5. bucket'.tokens + Rate * (b.last - now) <= b.tokens
        BY <1>b, <2>1, <2>2, <2>4
    <2> QED
        BY <2>2, <2>3, <2>5
<1> QED
    BY <1>1, <1>2

\* A refusal leaves the promises to clients refused before as good as they were,
\* since nothing is taken.
LEMMA RefusalKeepsWord ==
    ASSUME Inv, NEW h \in Handlers, RunScript(h), ~Allowed(bucket, stamp[h])
    PROVE  promise < Never => bucket'.tokens + Rate * (promise - bucket'.last) >= Unit
<1> DEFINE now == stamp[h]
<1>t. /\ bucket \in Buckets /\ now \in Nat /\ clock \in Nat /\ promise \in Nat /\ Unit \in Nat
    BY GatewayAssumption, FullHoldsToken DEF Inv, TypeOK
<1>b. bucket.tokens \in Int /\ bucket.last \in Nat
    BY <1>t DEF Buckets
<1> HIDE DEF now
<1>1. /\ bucket # NoBucket /\ bucket'.last = now
      /\ bucket'.tokens = bucket.tokens + Rate * (now - bucket.last)
    <2>1. bucket' = Consumed(bucket, now, clock) /\ ~Allowed(bucket, now)
        BY DEF RunScript, now
    <2>2. Leaves(bucket', bucket, now, clock)
        BY <1>t, <2>1, ConsumedBucket
    <2> QED
        BY <2>1, <2>2 DEF Leaves
<1>2. promise < Never => bucket.tokens + Rate * (promise - bucket.last) >= Unit
    BY <1>1 DEF Inv, KeepsWord
<1>i. now \in Int /\ promise \in Int /\ bucket.last \in Int
    BY <1>t, <1>b
<1>3. /\ Rate * (now - bucket.last) = Rate * now - Rate * bucket.last
      /\ Rate * (promise - bucket.last) = Rate * promise - Rate * bucket.last
      /\ Rate * (promise - now) = Rate * promise - Rate * now
      /\ Rate * now \in Int /\ Rate * bucket.last \in Int /\ Rate * promise \in Int
    BY <1>i, RateSums, Zenon
<1> QED
    BY <1>t, <1>b, <1>1, <1>2, <1>3

\* The wait a refused client is told is long enough for a token.
LEMMA RetryAfterWord ==
    ASSUME Inv, NEW h \in Handlers, RunScript(h), ~Allowed(bucket, stamp[h])
    PROVE  LET due == clock + RetryAfter(bucket'.tokens)
           IN  due \in Nat /\ bucket'.tokens + Rate * (due - bucket'.last) >= Unit
<1> DEFINE now == stamp[h]
           c == bucket'
           wait == (Unit - c.tokens) \div Rate
<1>t. /\ bucket \in Buckets /\ now \in Nat /\ clock \in Nat /\ now <= clock /\ Unit \in Nat
    BY GatewayAssumption, FullHoldsToken DEF Inv, TypeOK, StampsPast
<1> HIDE DEF now
<1>1. c \in Buckets /\ c.last = now /\ c.tokens \in Int /\ c.tokens < Unit
    <2>1. c = Consumed(bucket, now, clock) /\ ~Allowed(bucket, now)
        BY DEF RunScript, now
    <2>2. Leaves(c, bucket, now, clock)
        BY <1>t, <2>1, ConsumedBucket
    <2> HIDE DEF c
    <2> QED
        BY <2>1, <2>2 DEF Leaves
<1>2. Unit - c.tokens \in Int /\ Unit - c.tokens > 0
    BY <1>t, <1>1
<1>3. wait \in Int /\ Unit - c.tokens < Rate * wait + Rate /\ Rate * wait \in Int /\ Rate \in Nat
    BY <1>2, RateQuotient, RateSums, TokenBucketAssumption
<1> HIDE DEF wait
<1>4. Rate * (wait - (-1)) = Rate * wait + Rate
    <2>1. Rate * (wait - (-1)) = Rate * wait - Rate * (-1)
        BY <1>3, RateSums
    <2>2. Rate * (-1) = -Rate
        BY <1>3, SMT
    <2> QED
        BY <1>3, <2>1, <2>2
<1>5. wait + 1 = wait - (-1) /\ wait + 1 \in Int
    BY <1>3
<1>6. wait + 1 > 0
    <2>1. CASE wait + 1 <= 0
        <3>1. Rate * (wait + 1) <= Rate * 0
            BY <1>5, <2>1, RateMonotone
        <3>2. Rate * 0 = 0
            BY <1>3, SMT
        <3> QED
            BY <1>2, <1>3, <1>4, <1>5, <3>1, <3>2
    <2> QED
        BY <1>3, <2>1
<1> DEFINE due == clock + RetryAfter(c.tokens)
<1>7. due = clock + (wait + 1)
    BY <1>3 DEF RetryAfter, wait
<1> HIDE DEF due
<1>8. due \in Nat /\ due - now \in Int /\ wait + 1 <= due - now
    BY <1>t, <1>3, <1>6, <1>7
<1>9. Rate * (wait + 1) <= Rate * (due - now) /\ Rate * (due - now) \in Int
    BY <1>5, <1>8, RateMonotone, RateSums
<1>10. c.tokens + Rate * (due - now) >= Unit
    BY <1>t, <1>1, <1>3, <1>4, <1>5, <1>9
<1> QED
    BY <1>1, <1>8, <1>10 DEF due

-----------------------------------------------------------------------------
(***************************************************************************)
(* Every action preserves the invariant.                                   *)
(***************************************************************************)

\* The actions of a handler that leave the bucket and Redis as they are.
LEMMA HandlerActions ==
    ASSUME Inv, NEW h \in Handlers,
           \/ \E k \in Kind : Receive(h, k)
           \/ Shed(h) \/ ShedRaises(h) \/ Begin(h) \/ Load(h) \/ FailOpen(h)
           \/ Route(h)
    PROVE  Inv'
<1>t. /\ {sha, script, redis, shutting} \subseteq BOOLEAN
      /\ depth \in Nat
    BY DEF Inv, TypeOK
<1>1. /\ UNCHANGED <<limiterVars, saved, clock>>
      /\ \/ \E a \in Answer : Respond(h, a)
         \/ \E place \in Admitted : Goto(h, place)
         \/ SendScript(h)
         \/ \E k \in Kind : Receive(h, k)
         \/ UNCHANGED handlerVars
      /\ {sha', script', redis', shutting'} \subseteq BOOLEAN
      /\ depth' \in Nat
    <2>1. CASE \E k \in Kind : Receive(h, k)
        BY <1>t, <2>1 DEF Receive
    <2>2. CASE Shed(h)
        BY <1>t, <2>2 DEF Shed
    <2>3. CASE ShedRaises(h)
        BY <1>t, <2>3 DEF ShedRaises
    <2>4. CASE Begin(h)
        BY <1>t, <2>4 DEF Begin
    <2>5. CASE Load(h)
        BY <1>t, <2>5 DEF Load
    <2>6. CASE FailOpen(h)
        BY <1>t, <2>6 DEF FailOpen
    <2>7. CASE Route(h)
        <3>1. CASE Enqueue(h)
            BY <1>t, <3>1 DEF Enqueue
        <3>2. CASE Refuse(h)
            BY <1>t, <3>2 DEF Refuse
        <3>3. CASE Ping(h)
            BY <1>t, <3>3 DEF Ping
        <3>4. CASE Health(h)
            BY <1>t, <3>4 DEF Health
        <3>5. CASE Ready(h)
            BY <1>t, <3>5 DEF Ready
        <3> QED
            BY <2>7, <3>1, <3>2, <3>3, <3>4, <3>5 DEF Route
    <2> QED
        BY <2>1, <2>2, <2>3, <2>4, <2>5, <2>6, <2>7
<1>2. LimiterTypes' /\ Budget' /\ Solvent' /\ KeepsWord'
    BY <1>1, LimiterUnchanged
<1>s. SavedAccount' /\ SavedRicher'
    BY <1>1, SavedUnchanged DEF limiterVars
<1>3. /\ pc' \in [Handlers -> {"idle", "shedding"} \cup Admitted]
      /\ kind' \in [Handlers -> Kind \cup {"none"}]
      /\ stamp' \in [Handlers -> 0 .. MaxTime]
      /\ answer' \in [Handlers -> Answer]
      /\ clock' \in 0 .. MaxTime
      /\ StampsPast'
    <2>1. UNCHANGED clock
        BY <1>1
    <2> QED
        BY <1>1, <2>1, HandlerStep
<1> QED
    BY <1>1, <1>2, <1>s, <1>3 DEF Inv, TypeOK, LimiterTypes

\* The script takes a token: promises made before are void.
LEMMA GrantInv ==
    ASSUME Inv, NEW h \in Handlers, Grant(h)
    PROVE  Inv'
<1>1. /\ RunScript(h) /\ Goto(h, "routing") /\ "routing" \in Admitted
      /\ UNCHANGED <<sha, script, redis, depth, saved, shutting, clock>>
      /\ promise' = Never
    BY DEF Grant
<1>2. /\ bucket' \in Buckets /\ granted' \in Nat /\ birth' \in 0 .. MaxTime
      /\ Budget' /\ Solvent' /\ SavedAccount' /\ SavedRicher'
    BY <1>1, ScriptBudget, ScriptSaved
<1>3. Never \in Nat /\ ~(Never < Never)
    BY GatewayAssumption DEF Never
<1>4. KeepsWord'
    BY <1>1, <1>3 DEF KeepsWord, Never
<1>5. TypeOK' /\ StampsPast'
    BY <1>1, <1>2, <1>3, HandlerStep DEF Inv, TypeOK
<1> QED
    BY <1>2, <1>4, <1>5 DEF Inv

\* The script refuses: the new promise and the old ones hold.
LEMMA DenyInv ==
    ASSUME Inv, NEW h \in Handlers, Deny(h)
    PROVE  Inv'
<1> DEFINE due == clock + RetryAfter(bucket'.tokens)
<1>1. /\ RunScript(h) /\ ~Allowed(bucket, stamp[h])
      /\ Respond(h, "429") /\ "429" \in Answer
      /\ UNCHANGED <<sha, script, redis, depth, saved, shutting, clock>>
      /\ promise' = IF due < promise THEN due ELSE promise
    BY DEF Deny
<1>2. /\ bucket' \in Buckets /\ granted' \in Nat /\ birth' \in 0 .. MaxTime
      /\ Budget' /\ Solvent' /\ SavedAccount' /\ SavedRicher'
    BY <1>1, ScriptBudget, ScriptSaved
<1>3. promise < Never => bucket'.tokens + Rate * (promise - bucket'.last) >= Unit
    BY <1>1, RefusalKeepsWord
<1>4. due \in Nat /\ bucket'.tokens + Rate * (due - bucket'.last) >= Unit
    BY <1>1, RetryAfterWord
<1> HIDE DEF due
<1>5. promise' \in Nat /\ KeepsWord'
    <2>1. CASE due < promise
        BY <1>1, <1>4, <2>1 DEF KeepsWord
    <2>2. CASE ~(due < promise)
        BY <1>1, <1>3, <2>2 DEF KeepsWord, Never, Inv, TypeOK
    <2> QED
        BY <2>1, <2>2
<1>6. TypeOK' /\ StampsPast'
    BY <1>1, <1>2, <1>5, HandlerStep DEF Inv, TypeOK
<1> QED
    BY <1>2, <1>5, <1>6 DEF Inv

\* The script runs and nobody hears of it.
LEMMA ReplyLostInv ==
    ASSUME Inv, NEW h \in Handlers, ReplyLost(h)
    PROVE  Inv'
<1>1. /\ RunScript(h)
      /\ promise' = IF Allowed(bucket, stamp[h]) THEN Never ELSE promise
      /\ (\E place \in Admitted : Goto(h, place)) \/ UNCHANGED handlerVars
      /\ UNCHANGED <<sha, script, redis, depth, saved, shutting, clock>>
    BY DEF ReplyLost
<1>2. /\ bucket' \in Buckets /\ granted' \in Nat /\ birth' \in 0 .. MaxTime
      /\ Budget' /\ Solvent' /\ SavedAccount' /\ SavedRicher'
    BY <1>1, ScriptBudget, ScriptSaved
<1>3. promise' \in Nat /\ KeepsWord'
    <2>1. CASE Allowed(bucket, stamp[h])
        BY <1>1, <2>1, GatewayAssumption DEF KeepsWord, Never
    <2>2. CASE ~Allowed(bucket, stamp[h])
        <3>1. promise < Never => bucket'.tokens + Rate * (promise - bucket'.last) >= Unit
            BY <1>1, <2>2, RefusalKeepsWord
        <3> QED
            BY <1>1, <2>2, <3>1 DEF KeepsWord, Never, Inv, TypeOK
    <2> QED
        BY <2>1, <2>2
<1>4. TypeOK' /\ StampsPast'
    BY <1>1, <1>2, <1>3, HandlerStep DEF Inv, TypeOK
<1> QED
    BY <1>2, <1>3, <1>4 DEF Inv

\* Time passes: a bucket that stays owes less than before.
LEMMA TickInv ==
    ASSUME Inv, Tick
    PROVE  Inv'
<1>t. /\ clock \in 0 .. MaxTime /\ MaxTime \in Nat /\ clock' = clock + 1 /\ clock < MaxTime
      /\ clock' \in 0 .. MaxTime
      /\ UNCHANGED <<pc, kind, stamp, answer, promise, sha, script, redis, depth, saved, shutting>>
      /\ \/ clock' >= bucket.expires /\ NoMoreBucket
         \/ UNCHANGED <<bucket, granted, birth>>
    BY GatewayAssumption DEF Inv, TypeOK, Tick, handlerVars
<1>b. /\ saved.bucket \in Buckets /\ saved.bucket.expires \in Nat
      /\ saved.bucket.last \in Nat /\ bucket.expires \in Nat /\ Ttl \in Nat
      /\ clock \in Nat
    BY <1>t, TtlFills DEF Inv, TypeOK, Buckets
<1>a. SavedAccount'
    BY <1>t, <1>b DEF Inv, SavedAccount
<1>r. SavedRicher'
    BY <1>t, <1>b DEF Inv, SavedRicher
<1>1. StampsPast'
    BY <1>t DEF Inv, TypeOK, StampsPast
<1>2. CASE clock' >= bucket.expires /\ NoMoreBucket
    <2>1. bucket' = NoBucket /\ granted' = 0 /\ birth' = 0 /\ NoBucket \in Buckets
        BY <1>2 DEF NoMoreBucket, NoBucket, Buckets
    <2>2. Budget' /\ Solvent' /\ KeepsWord'
        BY <2>1 DEF Budget, Solvent, KeepsWord
    <2>3. TypeOK'
        BY <1>t, <2>1 DEF Inv, TypeOK
    <2> QED
        BY <1>1, <1>a, <1>r, <2>2, <2>3 DEF Inv
<1>3. CASE UNCHANGED <<bucket, granted, birth>>
    <2>1. bucket.last \in Nat /\ bucket.expires \in Nat /\ Ttl \in Nat
        BY TtlFills DEF Inv, TypeOK, Buckets
    <2>2. Budget'
        BY <1>t, <1>3, <2>1 DEF Inv, Budget
    <2>3. Solvent'
        BY <1>t, <1>3, <2>1 DEF Inv, Solvent
    <2>4. KeepsWord'
        BY <1>t, <1>3 DEF Inv, KeepsWord, Never
    <2>5. TypeOK'
        BY <1>t, <1>3 DEF Inv, TypeOK
    <2> QED
        BY <1>1, <1>a, <1>r, <2>2, <2>3, <2>4, <2>5 DEF Inv
<1> QED
    BY <1>t, <1>2, <1>3

\* A snapshot is what Redis holds.
LEMMA SaveInv ==
    ASSUME Inv, Save
    PROVE  Inv'
<1>t. /\ UNCHANGED <<pc, kind, stamp, answer, limiterVars, sha, script, redis, depth,
                     shutting, clock>>
      /\ saved' = [bucket |-> bucket, granted |-> granted, birth |-> birth, depth |-> depth]
    BY DEF Save, handlerVars
<1>1. saved' \in Snapshots
    BY <1>t DEF Inv, TypeOK, Snapshots
<1>2. LimiterTypes' /\ Budget' /\ Solvent' /\ KeepsWord'
    BY <1>t, LimiterUnchanged
<1>3. StampsPast'
    BY <1>t DEF Inv, StampsPast
<1>4. TypeOK'
    BY <1>t, <1>1 DEF Inv, TypeOK, Snapshots, limiterVars
<1>5. SavedAccount'
    BY <1>t DEF Inv, Budget, Solvent, SavedAccount, limiterVars
<1>6. SavedRicher'
    <2>1. bucket.tokens \in Int /\ bucket.last \in Int /\ bucket.expires \in Nat
        BY DEF Inv, TypeOK, Buckets
    <2>2. Rate * (bucket.last - bucket.last) = 0
        BY <2>1, RateZero
    <2>3. bucket' = bucket /\ saved'.bucket = bucket
        BY <1>t DEF limiterVars
    <2> QED
        BY <2>1, <2>2, <2>3 DEF SavedRicher
<1> QED
    BY <1>2, <1>3, <1>4, <1>5, <1>6 DEF Inv

\* Redis comes back with a bucket that keeps the promises, or with none.
LEMMA RedisStartsInv ==
    ASSUME Inv, RedisStarts
    PROVE  Inv'
<1> DEFINE b == saved'.bucket
<1>t. /\ UNCHANGED <<pc, kind, stamp, answer, promise, sha, shutting, clock>>
      /\ redis' = TRUE /\ script' = FALSE
      /\ saved' \in {saved, NoData} /\ depth' = saved'.depth
      /\ \/ clock >= b.expires /\ NoMoreBucket
         \/ /\ ~(clock >= b.expires)
            /\ bucket' = b /\ granted' = saved'.granted /\ birth' = saved'.birth
    BY DEF RedisStarts, handlerVars
<1>1. StampsPast'
    BY <1>t DEF Inv, StampsPast
<1>2. /\ saved' \in Snapshots
      /\ b \in Buckets /\ b.expires \in Nat /\ b.tokens \in Int /\ b.last \in Int
      /\ clock \in Nat
    <2>1. NoData \in Snapshots
        BY GatewayAssumption DEF NoData, NoBucket, Buckets, Snapshots
    <2>2. saved' \in Snapshots
        BY <1>t, <2>1 DEF Inv, TypeOK, Snapshots
    <2>3. b \in Buckets
        BY <2>2 DEF Snapshots
    <2> QED
        BY <2>2, <2>3, GatewayAssumption DEF Inv, TypeOK, Buckets
<1>a. SavedAccount'
    <2>1. CASE saved' = saved
        BY <1>t, <2>1 DEF Inv, SavedAccount
    <2>2. CASE saved' = NoData
        BY <2>2 DEF NoData, SavedAccount
    <2> QED
        BY <1>t, <2>1, <2>2
<1>3. CASE clock >= b.expires /\ NoMoreBucket
    <2>1. bucket' = NoBucket /\ granted' = 0 /\ birth' = 0 /\ NoBucket \in Buckets
          /\ 0 \in 0 .. MaxTime
        BY <1>3, GatewayAssumption DEF NoMoreBucket, NoBucket, Buckets
    <2>2. Budget' /\ Solvent' /\ KeepsWord'
        BY <2>1 DEF Budget, Solvent, KeepsWord
    <2>3. SavedRicher'
        BY <1>t, <1>2, <1>3 DEF SavedRicher
    <2>4. TypeOK'
        BY <1>t, <1>2, <2>1 DEF Inv, TypeOK, Snapshots
    <2> QED
        BY <1>1, <1>a, <2>2, <2>3, <2>4 DEF Inv
<1>4. CASE /\ ~(clock >= b.expires)
           /\ bucket' = b /\ granted' = saved'.granted /\ birth' = saved'.birth
    <2>1. b # NoBucket /\ clock < b.expires /\ saved' = saved
        <3>1. b # NoBucket
            BY <1>2, <1>4 DEF NoBucket
        <3>2. saved' # NoData
            BY <3>1 DEF NoData
        <3> QED
            BY <1>2, <1>4, <1>t, <3>1, <3>2
    <2>2. Budget' /\ Solvent'
        BY <1>t, <1>4, <2>1 DEF Inv, SavedAccount, Budget, Solvent
    <2>3. KeepsWord'
        <3> SUFFICES ASSUME promise < Never
                     PROVE  b.tokens + Rate * (promise - b.last) >= Unit
            BY <1>t, <1>4 DEF KeepsWord, Never
        <3>1. /\ bucket # NoBucket
              /\ bucket.tokens + Rate * (b.last - bucket.last) <= b.tokens
            BY <2>1 DEF Inv, SavedRicher
        <3>2. bucket.tokens + Rate * (promise - bucket.last) >= Unit
            BY <3>1 DEF Inv, KeepsWord
        <3>i. /\ bucket.tokens \in Int /\ bucket.last \in Int /\ promise \in Int
              /\ Unit \in Int
            BY FullHoldsToken DEF Inv, TypeOK, Buckets
        <3> HIDE DEF b
        <3>3. /\ Rate * (b.last - bucket.last) = Rate * b.last - Rate * bucket.last
              /\ Rate * (promise - bucket.last) = Rate * promise - Rate * bucket.last
              /\ Rate * (promise - b.last) = Rate * promise - Rate * b.last
              /\ Rate * b.last \in Int /\ Rate * promise \in Int
              /\ Rate * bucket.last \in Int
            BY <1>2, <3>i, RateSums, Zenon
        <3> QED
            BY <1>2, <3>i, <3>1, <3>2, <3>3
    <2>4. SavedRicher'
        <3>1. Rate * (b.last - b.last) = 0
            BY <1>2, RateZero
        <3> HIDE DEF b
        <3>2. b.tokens + Rate * (b.last - b.last) <= b.tokens /\ b.expires <= b.expires
            BY <1>2, <3>1
        <3> QED
            BY <1>4, <2>1, <3>2 DEF SavedRicher, b
    <2>5. TypeOK'
        BY <1>t, <1>2, <1>4 DEF Inv, TypeOK, Snapshots
    <2> QED
        BY <1>1, <1>a, <2>2, <2>3, <2>4, <2>5 DEF Inv
<1> QED
    BY <1>t, <1>3, <1>4

LEMMA NextInv == Inv /\ [Next]_vars => Inv'
<1> SUFFICES ASSUME Inv, [Next]_vars PROVE Inv'
    OBVIOUS
<1>1. ASSUME NEW h \in Handlers, \E k \in Kind : Receive(h, k) PROVE Inv'
    BY <1>1, HandlerActions
<1>2. ASSUME NEW h \in Handlers, Middleware(h) PROVE Inv'
    <2>1. CASE Grant(h)
        BY <2>1, GrantInv
    <2>2. CASE Deny(h)
        BY <2>2, DenyInv
    <2>3. CASE Shed(h) \/ ShedRaises(h) \/ Begin(h) \/ Load(h) \/ FailOpen(h)
        BY <2>3, HandlerActions
    <2> QED
        BY <1>2, <2>1, <2>2, <2>3 DEF Middleware
<1>3. ASSUME NEW h \in Handlers, ReplyLost(h) PROVE Inv'
    BY <1>3, ReplyLostInv
<1>4. ASSUME NEW h \in Handlers, Route(h) PROVE Inv'
    BY <1>4, HandlerActions
<1>5. CASE Dequeue \/ RedisStops \/ Signal \/ UNCHANGED vars
    <2>1. /\ UNCHANGED <<pc, kind, stamp, answer, clock>>
          /\ UNCHANGED <<limiterVars, saved, clock>>
          /\ {sha', script', redis', shutting'} \subseteq BOOLEAN
          /\ depth' \in Nat
        <3>t. {sha, script, redis, shutting} \subseteq BOOLEAN /\ depth \in Nat
            BY DEF Inv, TypeOK
        <3>1. CASE Dequeue
            BY <3>t, <3>1 DEF Dequeue, handlerVars
        <3>2. CASE RedisStops
            BY <3>t, <3>2 DEF RedisStops, handlerVars
        <3>3. CASE Signal
            BY <3>t, <3>3 DEF Signal, handlerVars
        <3>4. CASE UNCHANGED vars
            BY <3>t, <3>4 DEF vars, handlerVars
        <3> QED
            BY <1>5, <3>1, <3>2, <3>3, <3>4
    <2>2. LimiterTypes' /\ Budget' /\ Solvent' /\ KeepsWord'
        BY <2>1, LimiterUnchanged
    <2>3. StampsPast'
        BY <2>1 DEF Inv, StampsPast
    <2>4. SavedAccount' /\ SavedRicher'
        BY <2>1, SavedUnchanged DEF limiterVars
    <2> QED
        BY <2>1, <2>2, <2>3, <2>4 DEF Inv, TypeOK, LimiterTypes
<1>6. CASE RedisStarts
    BY <1>6, RedisStartsInv
<1>7. CASE Tick
    BY <1>7, TickInv
<1>8. CASE Save
    BY <1>8, SaveInv
<1> QED
    BY <1>1, <1>2, <1>3, <1>4, <1>5, <1>6, <1>7, <1>8 DEF Next, Environment

-----------------------------------------------------------------------------
(***************************************************************************)
(* The theorems.                                                           *)
(***************************************************************************)

\* The bucket, the stamps and the states of the handlers stay in their types, and
\* what was granted, taken and promised is accounted for.
THEOREM InvHolds == Spec => []Inv
<1>1. Init => Inv
    BY InitInv
<1>2. Inv /\ [Next]_vars => Inv'
    BY NextInv
<1> QED
    BY <1>1, <1>2, PTL DEF Spec

\* Type correctness; time and counters stay within their bounds also when a stamp is
\* older than the bucket.
THEOREM TypeCorrect == Spec => []TypeOK
<1>1. Inv => TypeOK
    BY DEF Inv
<1> QED
    BY <1>1, InvHolds, PTL

\* A bucket never gives more than its size and its refill, in whatever order the
\* stamps of concurrent requests reach the script and however often it runs.
THEOREM Budgeted == Spec => []GrantsWithinBudget
<1>1. Inv => GrantsWithinBudget
    <2> SUFFICES ASSUME Inv PROVE GrantsWithinBudget
        OBVIOUS
    <2>t. /\ bucket \in Buckets /\ granted \in Nat /\ birth \in Int /\ birth \in Nat
          /\ clock \in Int /\ clock \in Nat
          /\ Full \in Nat
        BY GatewayAssumption, FullHoldsToken DEF Inv, TypeOK
    <2>1. CASE bucket = NoBucket
        <3>1. granted = 0 /\ birth = 0
            BY <2>1 DEF Inv, Budget
        <3>2. Rate * (clock - 0) >= 0 /\ Rate * (clock - 0) \in Int
            <4>1. Rate * clock >= Rate * 0 /\ Rate * 0 = 0 /\ Rate * clock \in Int
                BY <2>t, TokenBucketAssumption, RateMonotone, RateSums, SMT
            <4> QED
                BY <2>t, <4>1
        <3>3. 0 * Unit = 0
            BY FullHoldsToken, SMT
        <3> QED
            BY <2>t, <3>1, <3>2, <3>3 DEF GrantsWithinBudget
    <2>2. CASE bucket # NoBucket
        <3> DEFINE w == bucket.expires - Ttl
        <3>1. /\ w \in Nat /\ w <= clock
              /\ bucket.tokens + Rate * (w - bucket.last) >= 0
              /\ granted * Unit + bucket.tokens <= Full + Rate * (bucket.last - birth)
            BY <2>2 DEF Inv, Budget, Solvent
        <3> HIDE DEF w
        <3>i. w \in Int /\ bucket.last \in Int /\ bucket.tokens \in Int
            BY <2>t, <3>1 DEF Buckets
        <3>2. /\ Rate * (w - bucket.last) = Rate * w - Rate * bucket.last
              /\ Rate * (bucket.last - birth) = Rate * bucket.last - Rate * birth
              /\ Rate * (clock - birth) = Rate * clock - Rate * birth
              /\ Rate * w \in Int /\ Rate * bucket.last \in Int
              /\ Rate * birth \in Int /\ Rate * clock \in Int
            BY <2>t, <3>i, RateSums, Zenon
        <3>3. Rate * w <= Rate * clock
            BY <2>t, <3>i, <3>1, RateMonotone
        <3>4. granted * Unit \in Int
            BY <2>t, UnitSums
        <3> QED
            BY <2>t, <3>1, <3>i, <3>2, <3>3, <3>4 DEF GrantsWithinBudget
    <2> QED
        BY <2>1, <2>2
<1> QED
    BY <1>1, InvHolds, PTL

\* A refused client that waits as long as it was told finds a token unless somebody
\* was given one since.
THEOREM RetryIsWorthIt == Spec => []RetryAfterSuffices
<1>1. Inv => RetryAfterSuffices
    <2> SUFFICES ASSUME Inv, clock >= promise PROVE Refilled(bucket, clock) >= Unit
        BY DEF RetryAfterSuffices
    <2>t. /\ bucket \in Buckets /\ promise \in Int /\ clock \in Int
          /\ Full \in Nat /\ Full >= Unit /\ Unit \in Nat
        BY GatewayAssumption, FullHoldsToken DEF Inv, TypeOK
    <2>1. promise < Never
        BY GatewayAssumption DEF Inv, TypeOK, Never
    <2>2. CASE bucket = NoBucket
        BY <2>t, <2>2 DEF Refilled
    <2>3. CASE bucket # NoBucket
        <3>1. bucket.tokens + Rate * (promise - bucket.last) >= Unit
            BY <2>1, <2>3 DEF Inv, KeepsWord
        <3>i. bucket.tokens \in Int /\ bucket.last \in Int
            BY <2>t DEF Buckets
        <3>j. promise - bucket.last \in Int /\ clock - bucket.last \in Int
              /\ promise - bucket.last <= clock - bucket.last
            BY <2>t, <3>i
        <3>2. Rate * (promise - bucket.last) <= Rate * (clock - bucket.last)
            BY <3>j, RateMonotone
        <3>3. Rate * (promise - bucket.last) \in Int /\ Rate * (clock - bucket.last) \in Int
            BY <3>j, RateSums
        <3>4. bucket.tokens + Rate * (clock - bucket.last) >= Unit
            BY <2>t, <3>1, <3>i, <3>2, <3>3
        <3> QED
            BY <2>t, <2>3, <3>4 DEF Refilled
    <2> QED
        BY <2>2, <2>3
<1> QED
    BY <1>1, InvHolds, PTL

\* A bucket that expires would have been full again: nobody gains by the expiry.
THEOREM ExpiryIsFair == Spec => ExpiryGivesNothing
<1>1. Inv /\ [Next]_vars =>
          (bucket # NoBucket /\ bucket' = NoBucket /\ clock' > clock
              => Refilled(bucket, clock') = Full)
    <2> SUFFICES ASSUME Inv, [Next]_vars,
                        bucket # NoBucket, bucket' = NoBucket, clock' > clock
                 PROVE  Refilled(bucket, clock') = Full
        OBVIOUS
    <2>t. bucket \in Buckets /\ clock \in Int /\ clock \in Nat
        BY GatewayAssumption DEF Inv, TypeOK
    <2>1. Tick
        <3>1. clock' # clock
            BY <2>t
        <3> QED
            BY <3>1 DEF Next, Middleware, Route, Environment, Receive, Shed, ShedRaises, Begin,
                        Load, Grant, Deny, ReplyLost, FailOpen, Enqueue, Refuse, Ping, Health,
                        Ready, Dequeue, Save, RedisStops, RedisStarts, Signal, vars
    <2> DEFINE e == bucket.expires
               w == e - Ttl
    <2>2. clock' \in Int /\ clock' >= e
        BY <2>t, <2>1 DEF Tick
    <2>3. /\ w \in Nat /\ bucket.tokens + Rate * (w - bucket.last) >= 0
        BY DEF Inv, Solvent
    <2>i. e \in Int /\ w \in Int /\ Ttl \in Int /\ bucket.last \in Int /\ bucket.tokens \in Int
          /\ Rate * Ttl >= Full /\ Full \in Nat /\ w = e - Ttl
        BY <2>t, TtlFills, FullHoldsToken DEF Buckets
    <2> HIDE DEF e, w
    <2>4. /\ Rate * (w - bucket.last) = Rate * w - Rate * bucket.last
          /\ Rate * (e - Ttl) = Rate * e - Rate * Ttl
          /\ Rate * (clock' - bucket.last) = Rate * clock' - Rate * bucket.last
          /\ Rate * w \in Int /\ Rate * e \in Int /\ Rate * Ttl \in Int
          /\ Rate * bucket.last \in Int /\ Rate * clock' \in Int
        BY <2>2, <2>i, RateSums, Zenon
    <2>5. Rate * e <= Rate * clock'
        BY <2>2, <2>i, RateMonotone
    <2>6. bucket.tokens + Rate * (clock' - bucket.last) >= Full
        BY <2>3, <2>i, <2>4, <2>5
    <2>7. bucket.tokens + Rate * (clock' - bucket.last) \in Int
        BY <2>i, <2>4
    <2> QED
        BY <2>i, <2>6, <2>7 DEF Refilled
<1> QED
    BY <1>1, InvHolds, PTL DEF Spec, ExpiryGivesNothing

-----------------------------------------------------------------------------
(***************************************************************************)
(* The queue limit.  Passed is the set of completions between the load     *)
(* shedder and the queue; only Shed adds to it, at a depth below the       *)
(* limit, and only Enqueue moves one of it into the queue.                 *)
(***************************************************************************)
LEMMA PassedFinite ==
    /\ IsFiniteSet(Passed) /\ Cardinality(Passed) \in Nat
    /\ Cardinality(Handlers) \in Nat \ {0}
    /\ Cardinality(Passed) <= Cardinality(Handlers)
<1>1. Passed \subseteq Handlers /\ IsFiniteSet(Handlers) /\ Handlers # {}
    BY GatewayAssumption DEF Passed
<1>2. IsFiniteSet(Passed) /\ Cardinality(Passed) <= Cardinality(Handlers)
    BY <1>1, FS_Subset
<1>3. Cardinality(Handlers) # 0
    BY <1>1, FS_EmptySet
<1> QED
    BY <1>1, <1>2, <1>3, FS_CardinalityType

\* What leaves the way to the queue no longer counts.
LEMMA FewerPassed ==
    ASSUME NEW S, NEW T, IsFiniteSet(T), S \subseteq T
    PROVE  Cardinality(S) \in Nat /\ Cardinality(T) \in Nat /\ Cardinality(S) <= Cardinality(T)
BY FS_Subset, FS_CardinalityType

\* The initial state, where nothing is on its way.
LEMMA InitDepth == Init => DepthBounded
<1> SUFFICES ASSUME Init PROVE DepthBounded
    OBVIOUS
<1>1. Passed = {}
    BY DEF Init, Passed
<1>2. depth = 0 /\ Cardinality({}) = 0 /\ MaxDepth \in Nat /\ saved.depth = 0
    BY FS_EmptySet, GatewayAssumption DEF Init, NoData
<1> QED
    BY <1>1, <1>2, PassedFinite DEF DepthBounded

\* A step that admits nobody and does not fill the queue keeps the limit.
LEMMA NobodyPasses ==
    ASSUME Inv, DepthBounded, Passed' \subseteq Passed, depth' \in Nat, depth' <= depth,
           UNCHANGED saved
    PROVE  DepthBounded'
<1>1. /\ Cardinality(Passed') \in Nat /\ Cardinality(Passed) \in Nat
      /\ Cardinality(Passed') <= Cardinality(Passed)
    BY PassedFinite, FewerPassed
<1>2. depth \in Nat /\ saved.depth \in Nat /\ MaxDepth \in Nat
    BY GatewayAssumption DEF Inv, TypeOK
<1> QED
    BY <1>1, <1>2, PassedFinite DEF DepthBounded

\* Nor does a snapshot, which is as deep as the queue, or a queue restored from it.
LEMMA SavedDepth ==
    ASSUME Inv, UNCHANGED <<pc, kind>>, depth' \in Nat, depth' = saved'.depth
    PROVE  DepthBounded'
<1>1. Passed' = Passed
    BY DEF Passed
<1>2. MaxDepth \in Nat
    BY GatewayAssumption
<1> QED
    BY <1>1, <1>2, PassedFinite DEF DepthBounded

\* A handler that goes on, or answers, or whose request is not a completion, does
\* not join those on their way to the queue.
LEMMA StaysAway ==
    ASSUME Inv, NEW h \in Handlers,
           \/ \E a \in Answer : Respond(h, a)
           \/ \E place \in Admitted : Goto(h, place) /\ pc[h] \in Admitted
           \/ SendScript(h) /\ pc[h] \in Admitted
           \/ \E k \in Kind : Receive(h, k)
           \/ UNCHANGED handlerVars
    PROVE  Passed' \subseteq Passed
<1>t. /\ pc \in [Handlers -> {"idle", "shedding"} \cup Admitted]
      /\ kind \in [Handlers -> Kind \cup {"none"}]
    BY DEF Inv, TypeOK
<1>1. CASE \E a \in Answer : Respond(h, a)
    BY <1>t, <1>1 DEF Respond, Passed
<1>2. CASE \E place \in Admitted : Goto(h, place) /\ pc[h] \in Admitted
    BY <1>t, <1>2 DEF Goto, Passed
<1>3. CASE SendScript(h) /\ pc[h] \in Admitted
    BY <1>t, <1>3 DEF SendScript, Passed
<1>4. CASE \E k \in Kind : Receive(h, k)
    BY <1>t, <1>4 DEF Receive, Passed
<1>5. CASE UNCHANGED handlerVars
    BY <1>t, <1>5 DEF handlerVars, Passed
<1> QED
    BY <1>1, <1>2, <1>3, <1>4, <1>5

\* The shedder lets one through when it read a depth below the limit.
LEMMA ShedDepth ==
    ASSUME Inv, DepthBounded, NEW h \in Handlers, Shed(h)
    PROVE  DepthBounded'
<1>1. CASE depth >= MaxDepth
    <2>1. Respond(h, "503") /\ "503" \in Answer /\ UNCHANGED <<depth, saved>>
        BY <1>1 DEF Shed
    <2>2. depth \in Nat
        BY DEF Inv, TypeOK
    <2> QED
        BY <2>1, <2>2, StaysAway, NobodyPasses
<1>2. CASE ~(depth >= MaxDepth)
    <2>1. /\ UNCHANGED <<depth, saved>>
          /\ depth \in Nat /\ MaxDepth \in Nat /\ depth < MaxDepth /\ saved.depth \in Nat
        BY <1>2, GatewayAssumption DEF Shed, Inv, TypeOK
    <2>2. Cardinality(Passed') \in Nat /\ Cardinality(Passed') <= Cardinality(Handlers)
        <3>1. Passed' \subseteq Handlers /\ IsFiniteSet(Handlers)
            BY GatewayAssumption DEF Passed
        <3> QED
            BY <3>1, FewerPassed
    <2> QED
        BY <2>1, <2>2, PassedFinite DEF DepthBounded
<1> QED
    BY <1>1, <1>2

\* A completion that enters the queue was counted before it did.
LEMMA EnqueueDepth ==
    ASSUME Inv, DepthBounded, NEW h \in Handlers, Enqueue(h)
    PROVE  DepthBounded'
<1>1. /\ pc[h] = "routing" /\ kind[h] = "work" /\ Respond(h, "queued")
      /\ depth' = depth + 1 /\ depth \in Nat
      /\ saved' = saved /\ saved.depth \in Nat
    BY DEF Enqueue, Inv, TypeOK
<1>2. h \in Passed
    BY <1>1 DEF Passed
<1>3. Passed' \subseteq Passed \ {h}
    <2>t. /\ pc \in [Handlers -> {"idle", "shedding"} \cup Admitted]
          /\ kind \in [Handlers -> Kind \cup {"none"}]
        BY DEF Inv, TypeOK
    <2> QED
        BY <1>1, <2>t DEF Respond, Passed
<1>4. IsFiniteSet(Passed \ {h}) /\ Cardinality(Passed \ {h}) = Cardinality(Passed) - 1
    BY <1>2, PassedFinite, FS_RemoveElement
<1>5. /\ Cardinality(Passed') \in Nat
      /\ Cardinality(Passed') <= Cardinality(Passed) - 1
    BY <1>3, <1>4, FewerPassed
<1> QED
    BY <1>1, <1>5, PassedFinite, GatewayAssumption DEF DepthBounded

\* Every step keeps the limit.
LEMMA NextDepth == Inv /\ DepthBounded /\ [Next]_vars => DepthBounded'
<1> SUFFICES ASSUME Inv, DepthBounded, [Next]_vars PROVE DepthBounded'
    OBVIOUS
<1>t. depth \in Nat
    BY DEF Inv, TypeOK
<1>1. ASSUME NEW h \in Handlers, NEW k \in Kind, Receive(h, k) PROVE DepthBounded'
    <2>1. UNCHANGED <<depth, saved>>
        BY <1>1 DEF Receive
    <2> QED
        BY <1>t, <1>1, <2>1, StaysAway, NobodyPasses
<1>2. ASSUME NEW h \in Handlers, Middleware(h) \/ ReplyLost(h), ~Shed(h) PROVE DepthBounded'
    <2>1. /\ UNCHANGED <<depth, saved>>
          /\ \/ \E a \in Answer : Respond(h, a)
             \/ \E place \in Admitted : Goto(h, place) /\ pc[h] \in Admitted
             \/ SendScript(h) /\ pc[h] \in Admitted
             \/ UNCHANGED handlerVars
        <3>1. CASE ShedRaises(h)
            BY <3>1 DEF ShedRaises
        <3>2. CASE Begin(h)
            BY <3>2 DEF Begin
        <3>3. CASE Load(h)
            BY <3>3 DEF Load
        <3>4. CASE Grant(h)
            BY <3>4 DEF Grant
        <3>5. CASE Deny(h)
            BY <3>5 DEF Deny
        <3>6. CASE FailOpen(h)
            BY <3>6 DEF FailOpen
        <3>7. CASE ReplyLost(h)
            BY <3>7 DEF ReplyLost
        <3> QED
            BY <1>2, <3>1, <3>2, <3>3, <3>4, <3>5, <3>6, <3>7 DEF Middleware
    <2> QED
        BY <1>t, <2>1, StaysAway, NobodyPasses
<1>3. ASSUME NEW h \in Handlers, Route(h), ~Enqueue(h) PROVE DepthBounded'
    <2>1. /\ UNCHANGED <<depth, saved>>
          /\ \/ \E a \in Answer : Respond(h, a)
             \/ \E place \in Admitted : Goto(h, place) /\ pc[h] \in Admitted
        <3>1. CASE Refuse(h)
            BY <3>1 DEF Refuse
        <3>2. CASE Ping(h)
            BY <3>2 DEF Ping
        <3>3. CASE Health(h)
            BY <3>3 DEF Health
        <3>4. CASE Ready(h)
            BY <3>4 DEF Ready
        <3> QED
            BY <1>3, <3>1, <3>2, <3>3, <3>4 DEF Route
    <2> QED
        BY <1>t, <2>1, StaysAway, NobodyPasses
<1>4. CASE Dequeue \/ RedisStops \/ Signal \/ Tick \/ UNCHANGED vars
    <2>1. UNCHANGED <<pc, kind, saved>> /\ depth' \in Nat /\ depth' <= depth
        <3>1. CASE Dequeue
            BY <1>t, <3>1 DEF Dequeue, handlerVars
        <3>2. CASE RedisStops
            BY <1>t, <3>2 DEF RedisStops, handlerVars
        <3>3. CASE Signal
            BY <1>t, <3>3 DEF Signal, handlerVars
        <3>4. CASE Tick
            BY <1>t, <3>4 DEF Tick, handlerVars
        <3>5. CASE UNCHANGED vars
            BY <1>t, <3>5 DEF vars, handlerVars
        <3> QED
            BY <1>4, <3>1, <3>2, <3>3, <3>4, <3>5
    <2>2. Passed' \subseteq Passed
        BY <2>1 DEF Passed
    <2> QED
        BY <2>1, <2>2, NobodyPasses
<1>5. CASE Save
    BY <1>t, <1>5, SavedDepth DEF Save, handlerVars
<1>6. CASE RedisStarts
    <2>1. UNCHANGED <<pc, kind>> /\ depth' = saved'.depth /\ saved' \in {saved, NoData}
        BY <1>6 DEF RedisStarts, handlerVars
    <2>2. depth' \in Nat
        BY <2>1 DEF Inv, TypeOK, NoData
    <2> QED
        BY <2>1, <2>2, SavedDepth
<1> QED
    BY <1>1, <1>2, <1>3, <1>4, <1>5, <1>6, ShedDepth, EnqueueDepth
    DEF Next, Environment, Middleware, Route

\* However many requests pass the load shedder at the same time, and whatever Redis
\* does meanwhile, the queue exceeds its limit, or the depth of the last snapshot, by
\* no more than there are handlers.
THEOREM DepthIsBounded == Spec => []DepthBounded
<1>1. Init => DepthBounded
    BY InitDepth
<1>2. Inv /\ DepthBounded /\ [Next]_vars => DepthBounded'
    BY NextDepth
<1> QED
    BY <1>1, <1>2, InvHolds, PTL DEF Spec
=============================================================================
