---------------------------- MODULE MemoryPressure ----------------------------
(***************************************************************************)
(* The KV cache between the threads that run generate_with_cache           *)
(* (core/inference.py) and the event loop, where every request asks        *)
(* should_admit (profiler/pressure.py): it looks at the memory in use,     *)
(* and a change of the watermark level (profiler/watermark.py) evicts from *)
(* the cache, clears it or ends the rejection.                             *)
(*                                                                         *)
(* The cache's lock makes one call atomic; should_admit makes several, and *)
(* the threads run between them.  should_admit itself has no await: a      *)
(* second one starts when the first is over.                               *)
(***************************************************************************)
EXTENDS KVCache

CONSTANTS
    Threads,          \* threads of the executor
    NoPrefix,         \* no state of a prefix is being computed
    OtherBytes,       \* what everything but the cache may occupy of the memory
    HighBytes,        \* high_watermark_ratio and critical_watermark_ratio
    CriticalBytes     \* of the device's memory

ASSUME PressureAssumption ==
    /\ OtherBytes \subseteq Nat /\ OtherBytes # {}
    /\ HighBytes \in Nat /\ CriticalBytes \in Nat
    /\ HighBytes < CriticalBytes

VARIABLES
    cache,
    pc,          \* where a thread is in generate_with_cache
    prefix,      \* the prefix it missed and computes the state of
    other,       \* memory in use outside of the cache
    level,       \* _current_level of the monitor
    rejecting,   \* _rejecting
    escalation,  \* _escalation_step, saturated where the ratios end
    loop,        \* what is left of the should_admit under way
    toEvict,     \* evict_bytes of _on_high
    recency,     \* history: the prefixes by their last use
    entered      \* history: the levels entered since the last return to NORMAL

threadVars == <<pc, prefix>>
pressureVars == <<level, rejecting, escalation, loop, toEvict, entered>>
vars == <<cache, threadVars, other, pressureVars, recency>>

Level == {"NORMAL", "HIGH", "CRITICAL"}
Ratios == <<10, 25, 50>>

\* Type correctness; what _on_high is about to evict is at most half of a full cache.
TypeOK ==
    /\ cache \in [order : Seq(PrefixHashes), size : [PrefixHashes -> Nat], bytes : Nat]
    /\ pc \in [Threads -> {"idle", "forwarding", "generating"}]
    /\ prefix \in [Threads -> PrefixHashes \cup {NoPrefix}]
    /\ \A t \in Threads : pc[t] = "forwarding" => prefix[t] \in PrefixHashes
    /\ other \in OtherBytes
    /\ level \in Level
    /\ rejecting \in BOOLEAN
    /\ escalation \in 1 .. Len(Ratios)
    /\ loop \in {"idle", "measuring", "evicting", "clearing"}
    /\ toEvict \in 0 .. MaxMemoryBytes \div 2
    /\ recency \in Seq(PrefixHashes)
    /\ entered \subseteq Level

Init ==
    /\ cache = NewCache
    /\ pc = [t \in Threads |-> "idle"]
    /\ prefix = [t \in Threads |-> NoPrefix]
    /\ other = Min(OtherBytes)
    /\ level = "NORMAL"
    /\ rejecting = FALSE
    /\ escalation = 1
    /\ loop = "idle"
    /\ toEvict = 0
    /\ recency = <<>>
    /\ entered = {}

Used(k) == recency' = Append(RemoveFirst(recency, k), k)

-----------------------------------------------------------------------------
(***************************************************************************)
(* The threads: generate_with_cache.                                       *)
(***************************************************************************)

Hit(t, p) ==
    /\ pc[t] = "idle"
    /\ p \in Cached(cache)
    /\ cache' = Get(cache, p)
    /\ Used(p)
    /\ pc' = [pc EXCEPT ![t] = "generating"]
    /\ UNCHANGED <<prefix, other, pressureVars>>

\* The forward pass of the prefix starts; another thread may miss it as well.
Miss(t, p) ==
    /\ pc[t] = "idle"
    /\ p \notin Cached(cache)
    /\ pc' = [pc EXCEPT ![t] = "forwarding"]
    /\ prefix' = [prefix EXCEPT ![t] = p]
    /\ UNCHANGED <<cache, other, pressureVars, recency>>

\* The state takes m bytes; an entry that is stored is the last used.
StorePrefix(t) ==
    /\ pc[t] = "forwarding"
    /\ \E m \in Sizes[prefix[t]] :
           /\ cache' = Put(cache, prefix[t], m)
           /\ IF m <= MaxMemoryBytes THEN Used(prefix[t]) ELSE UNCHANGED recency
    /\ pc' = [pc EXCEPT ![t] = "generating"]
    /\ prefix' = [prefix EXCEPT ![t] = NoPrefix]
    /\ UNCHANGED <<other, pressureVars>>

\* generate returns, or it or the forward pass raises.
Finish(t) ==
    /\ pc[t] # "idle"
    /\ pc' = [pc EXCEPT ![t] = "idle"]
    /\ prefix' = [prefix EXCEPT ![t] = NoPrefix]
    /\ UNCHANGED <<cache, other, pressureVars, recency>>

\* Activations, weights and other processes come and go.
OtherChanges ==
    /\ other' \in OtherBytes
    /\ UNCHANGED <<cache, threadVars, pressureVars, recency>>

-----------------------------------------------------------------------------
(***************************************************************************)
(* The event loop: should_admit, check and the callbacks.                  *)
(***************************************************************************)

\* MemoryTracker.snapshot on a device whose allocator counts the cached states.
Allocated == other + cache.bytes

LevelNow ==
    IF Allocated >= CriticalBytes THEN "CRITICAL"
    ELSE IF Allocated >= HighBytes THEN "HIGH"
    ELSE "NORMAL"

\* No change of level, no callback.
CheckUnchanged ==
    /\ loop = "idle"
    /\ LevelNow = level
    /\ UNCHANGED vars

\* A slip: back to normal, but still rejecting.
EnterNormalRejecting ==
    /\ loop = "idle" /\ level # "NORMAL"
    /\ LevelNow = "NORMAL"
    /\ level' = "NORMAL"
    /\ escalation' = 1
    /\ entered' = {}
    /\ UNCHANGED <<cache, threadVars, other, rejecting, loop, toEvict, recency>>

EnterNormal ==
    /\ loop = "idle" /\ level # "NORMAL"
    /\ LevelNow = "NORMAL"
    /\ level' = "NORMAL"
    /\ rejecting' = FALSE
    /\ escalation' = 1
    /\ entered' = {}
    /\ UNCHANGED <<cache, threadVars, other, loop, toEvict, recency>>

\* A slip: HIGH after CRITICAL ends the rejection.
EnterHighAdmitting ==
    /\ loop = "idle" /\ level # "HIGH"
    /\ LevelNow = "HIGH"
    /\ level' = "HIGH"
    /\ rejecting' = FALSE
    /\ loop' = "measuring"
    /\ entered' = entered \cup {"HIGH"}
    /\ UNCHANGED <<cache, threadVars, other, escalation, toEvict, recency>>

\* From below or from above: rejection, if it is on, stays on.
EnterHigh ==
    /\ loop = "idle" /\ level # "HIGH"
    /\ LevelNow = "HIGH"
    /\ level' = "HIGH"
    /\ loop' = "measuring"
    /\ entered' = entered \cup {"HIGH"}
    /\ UNCHANGED <<cache, threadVars, other, rejecting, escalation, toEvict, recency>>

\* stats() of _on_high.
Measure ==
    /\ loop = "measuring"
    /\ toEvict' = (cache.bytes * Ratios[escalation]) \div 100
    /\ loop' = "evicting"
    /\ UNCHANGED <<cache, threadVars, other, level, rejecting, escalation, recency, entered>>

\* evict_lru of _on_high; the cache may have changed since it was measured.
Evict ==
    /\ loop = "evicting"
    /\ cache' = EvictLru(cache, toEvict)
    /\ escalation' = Min({escalation + 1, Len(Ratios)})
    /\ loop' = "idle"
    /\ toEvict' = 0
    /\ UNCHANGED <<threadVars, other, level, rejecting, recency, entered>>

EnterCritical ==
    /\ loop = "idle" /\ level # "CRITICAL"
    /\ LevelNow = "CRITICAL"
    /\ level' = "CRITICAL"
    /\ rejecting' = TRUE
    /\ loop' = "clearing"
    /\ entered' = entered \cup {"CRITICAL"}
    /\ UNCHANGED <<cache, threadVars, other, escalation, toEvict, recency>>

\* clear() of _on_critical.
Clear ==
    /\ loop = "clearing"
    /\ cache' = NewCache
    /\ loop' = "idle"
    /\ UNCHANGED <<threadVars, other, level, rejecting, escalation, toEvict, recency, entered>>

-----------------------------------------------------------------------------
ThreadStep ==
    \E t \in Threads :
        \/ \E p \in PrefixHashes : Hit(t, p) \/ Miss(t, p)
        \/ StorePrefix(t)
        \/ Finish(t)

ShouldAdmit ==
    \/ CheckUnchanged \/ EnterNormal
    \/ EnterHigh \/ Measure \/ Evict
    \/ EnterCritical \/ Clear

Next == ThreadStep \/ OtherChanges \/ ShouldAdmit

Spec == Init /\ [][Next]_vars

\* Requests keep coming, and a should_admit that has started goes on: the level
\* is looked at by requests only.
FairSpec == Spec /\ WF_vars(ShouldAdmit)

-----------------------------------------------------------------------------
(***************************************************************************)
(* Properties.                                                             *)
(***************************************************************************)

\* The memory counter is the sum of the entries and within the budget, the
\* number of entries within its limit, and no prefix is cached twice: also when
\* two threads miss one prefix and both store it, whatever its states take.
Accounting ==
    /\ cache.bytes = MapThenSumSet(LAMBDA k : cache.size[k], Cached(cache))
    /\ cache.bytes <= MaxMemoryBytes
    /\ Len(cache.order) = Cardinality(Cached(cache))
    /\ Len(cache.order) <= MaxEntries

LastUse(k) == CHOOSE i \in DOMAIN recency : recency[i] = k

\* Whoever evicts - a put that needs memory or a free entry, one that replaces an
\* entry by a larger one, or a callback - an entry that goes was used before every
\* entry that stays; the one just stored is the last used.
EvictsOldest ==
    [][\A gone \in Cached(cache) \ Cached(cache') :
          \A kept \in Cached(cache) \cap Cached(cache') :
              LastUse(gone)' < LastUse(kept)']_vars

\* The server rejects exactly when the level has been CRITICAL since it was last
\* NORMAL: going down to HIGH is not enough, and nothing else rejects.
RejectingSinceCritical ==
    /\ rejecting <=> "CRITICAL" \in entered
    /\ level = "CRITICAL" => rejecting

\* Rejection ends when the memory stays below the high watermark.
RejectionEnds ==
    <>[](Allocated < HighBytes) => <>[]~rejecting
=============================================================================
