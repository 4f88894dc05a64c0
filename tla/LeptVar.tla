------------------------------- MODULE LeptVar -------------------------------
(***************************************************************************)
(* A counter with a cache for each thread: src/ThreadLocal/leptVar.h over  *)
(* the thread-local storage.  A thread adds to its own cache and moves the *)
(* sum to target_ after cacheSize_ calls, and when it exits.  A full read  *)
(* adds target_ and every cache, which it finds through an accessor.       *)
(* ThreadLocal says what get, reset, the accessor and thread exit do; here *)
(* they are the steps of theirs that a read can come between.              *)
(*                                                                         *)
(* reset_ is false in every cache: set and readFullAndReset, which raise   *)
(* it, cannot be instantiated.                                             *)
(***************************************************************************)
EXTENDS Integers, Sequences, FiniteSetsExt, Functions, SequencesExt

CONSTANTS Threads, Readers,
          NoThread,      \* model value: the mutex is free
          Amounts,       \* what a call adds or takes away, {1} for ++ and --
          Initial,       \* the constructor's initial
          Word,          \* 2^32 in the code: target_ is a uint32_t
          CacheSizes,    \* the values setCacheSize is called with
          MaxCalls       \* bound: calls of increment by one thread

ASSUME LeptVarAssumption ==
  /\ Threads \cap Readers = {} /\ NoThread \notin Threads \cup Readers
  /\ Amounts \subseteq Nat /\ Word \in Nat \ {0} /\ Initial \in 0..(Word - 1)
  /\ CacheSizes \subseteq Nat \ {0} /\ CacheSizes # {} /\ MaxCalls \in Nat
  /\ IsFiniteSet(Threads) /\ IsFiniteSet(CacheSizes)

VARIABLES target, cacheSize,     \* target_, cacheSize_
          cacheVar, numUpdate,   \* those of each thread's cache
          list,        \* the threads whose nodes are linked, in list order
          stored,      \* the threads whose element points to a cache
          mutex,
          pc,
          calls,       \* calls a thread has begun
          res, at,     \* the readers' sums, and how far down the list they are
          total,       \* history: the initial value and all calls since, of Word
          low, high    \* history: what a reader may return

caches == <<cacheVar, numUpdate>>
storage == <<list, stored>>
reading == <<res, at>>
range == <<low, high>>
vars == <<target, cacheSize, caches, storage, mutex, pc, calls, reading, total, range>>

Init ==
  /\ target = Initial /\ cacheSize \in CacheSizes
  /\ cacheVar = [t \in Threads |-> 0] /\ numUpdate = [t \in Threads |-> 0]
  /\ list = <<>> /\ stored = {} /\ mutex = NoThread
  /\ pc = [t \in Threads \cup Readers |-> "idle"]
  /\ calls = [t \in Threads |-> 0]
  /\ res = [r \in Readers |-> 0] /\ at = [r \in Readers |-> 0]
  /\ total = Initial
  /\ low = [r \in Readers |-> 0] /\ high = [r \in Readers |-> 0]

-----------------------------------------------------------------------------
Go(t, from, to) ==
  /\ pc[t] = from
  /\ pc' = [pc EXCEPT ![t] = to]

\* ++, +=, -- and -= are calls of increment.
Incs == Amounts \cup {-a : a \in Amounts}

Reading(r) == pc[r] # "idle"
AbsOf(n) == IF n < 0 THEN -n ELSE n

\* A sum of c on its way from a cache to the target: a read under way may
\* miss it or count it twice.
Moves(c) ==
  /\ low' = [r \in Readers |-> IF Reading(r) THEN low[r] - AbsOf(c) ELSE low[r]]
  /\ high' = [r \in Readers |-> IF Reading(r) THEN high[r] + AbsOf(c) ELSE high[r]]

\* increment: a thread without a cache makes one.
Get(t) ==
  /\ calls[t] < MaxCalls
  /\ Go(t, "idle", IF t \in stored THEN "add" ELSE "link")
  /\ calls' = [calls EXCEPT ![t] = @ + 1]
  /\ UNCHANGED <<target, cacheSize, caches, storage, mutex, reading, total, range>>

\* cache_.reset(cache): the node is linked under the mutex ...
Link(t) ==
  /\ Go(t, "link", "store")
  /\ mutex = NoThread
  /\ list' = Append(list, t)
  /\ UNCHANGED <<target, cacheSize, caches, stored, mutex, calls, reading, total, range>>

\* ... and then the pointer stored.
Store(t) ==
  /\ Go(t, "store", "add")
  /\ stored' = stored \cup {t}
  /\ UNCHANGED <<target, cacheSize, caches, list, mutex, calls, reading, total, range>>

\* cacheVar_.store(cacheVar_.load() + inc).  Nobody else writes to the cache, so
\* that the load and the store are one step.
Add(t) ==
  /\ Go(t, "add", "count")
  /\ \E inc \in Incs :
       /\ cacheVar' = [cacheVar EXCEPT ![t] = @ + inc]
       /\ total' = (total + inc) % Word
       /\ low' = [r \in Readers |-> IF Reading(r) /\ inc < 0 THEN low[r] + inc ELSE low[r]]
       /\ high' = [r \in Readers |-> IF Reading(r) /\ inc > 0 THEN high[r] + inc ELSE high[r]]
  /\ UNCHANGED <<target, cacheSize, numUpdate, storage, mutex, calls, reading>>

\* Mutant of Count: the cache is full one call later.
CountLate(t) ==
  /\ Go(t, "count", IF numUpdate[t] >= cacheSize THEN "flush" ELSE "idle")
  /\ numUpdate' = [numUpdate EXCEPT ![t] = @ + 1]
  /\ UNCHANGED <<target, cacheSize, cacheVar, storage, mutex, calls, reading, total, range>>

Count(t) ==
  /\ Go(t, "count", IF numUpdate[t] + 1 >= cacheSize THEN "flush" ELSE "idle")
  /\ numUpdate' = [numUpdate EXCEPT ![t] = @ + 1]
  /\ UNCHANGED <<target, cacheSize, cacheVar, storage, mutex, calls, reading, total, range>>

\* flush: the sum is added to the target ...
FlushAdd(t) ==
  /\ \/ Go(t, "flush", "clear")
     \/ Go(t, "exit", "exit clear")
  /\ target' = (target + cacheVar[t]) % Word
  /\ Moves(cacheVar[t])
  /\ UNCHANGED <<cacheSize, caches, storage, mutex, calls, reading, total>>

\* Mutant of FlushClear: only the count of calls is cleared.
FlushClearNot(t) ==
  /\ \/ Go(t, "clear", "idle") /\ UNCHANGED stored
     \/ Go(t, "exit clear", "exited") /\ stored' = stored \ {t}
  /\ numUpdate' = [numUpdate EXCEPT ![t] = 0]
  /\ UNCHANGED <<target, cacheSize, cacheVar, list, mutex, calls, reading, total, range>>

\* ... and then the cache cleared, or, from ~VarCache, freed.
FlushClear(t) ==
  /\ \/ Go(t, "clear", "idle") /\ UNCHANGED stored
     \/ Go(t, "exit clear", "exited") /\ stored' = stored \ {t}
  /\ cacheVar' = [cacheVar EXCEPT ![t] = 0]
  /\ numUpdate' = [numUpdate EXCEPT ![t] = 0]
  /\ UNCHANGED <<target, cacheSize, list, mutex, calls, reading, total, range>>

\* Mutant of Exit: the node stays in the list.
ExitLinked(t) ==
  /\ Go(t, "idle", IF t \in stored THEN "exit" ELSE "exited")
  /\ mutex = NoThread
  /\ Moves(cacheVar[t])
  /\ UNCHANGED <<target, cacheSize, caches, storage, mutex, calls, reading, total>>

\* onThreadExit: the node leaves the list under the mutex, and later the cache
\* is deleted.
Exit(t) ==
  /\ Go(t, "idle", IF t \in stored THEN "exit" ELSE "exited")
  /\ mutex = NoThread
  /\ list' = RemoveFirst(list, t)
  /\ Moves(cacheVar[t])
  /\ UNCHANGED <<target, cacheSize, caches, stored, mutex, calls, reading, total>>

SetCacheSize ==
  /\ cacheSize' \in CacheSizes \ {cacheSize}
  /\ UNCHANGED <<target, caches, storage, mutex, pc, calls, reading, total, range>>

\* A read under way has read the target before, and returns what it was.
ReadFastAndReset ==
  /\ target # 0
  /\ target' = 0
  /\ total' = (total - target) % Word
  /\ UNCHANGED <<cacheSize, caches, storage, mutex, pc, calls, reading, range>>

-----------------------------------------------------------------------------
\* What is between a cache and the target when a read begins: sums added but not
\* cleared, which may be counted twice, and those of unlinked caches not yet
\* added, which will be missed.
Underway ==
  SumFunctionOnSet([t \in Threads |-> AbsOf(cacheVar[t])],
                   {t \in Threads : pc[t] \in {"clear", "exit", "exit clear"}})

\* readFull: readFast first ...
ReadTarget(r) ==
  /\ Go(r, "idle", "lock")
  /\ res' = [res EXCEPT ![r] = target]
  /\ low' = [low EXCEPT ![r] = total - Underway]
  /\ high' = [high EXCEPT ![r] = total + Underway]
  /\ UNCHANGED <<target, cacheSize, caches, storage, mutex, calls, at, total>>

\* Mutant of Lock: the accessor does not hold the mutex.
LockNot(r) ==
  /\ Go(r, "lock", "visit")
  /\ mutex = NoThread
  /\ at' = [at EXCEPT ![r] = 1]
  /\ UNCHANGED <<target, cacheSize, caches, storage, mutex, calls, res, total, range>>

\* ... then an accessor, which holds the mutex as long as it lives ...
Lock(r) ==
  /\ Go(r, "lock", "visit")
  /\ mutex = NoThread
  /\ mutex' = r
  /\ at' = [at EXCEPT ![r] = 1]
  /\ UNCHANGED <<target, cacheSize, caches, storage, calls, res, total, range>>

\* ... and every cache in the list; an element without one is passed over.
Visit(r) ==
  /\ pc[r] = "visit" /\ at[r] <= Len(list)
  /\ LET t == list[at[r]] IN
     res' = [res EXCEPT ![r] = IF t \in stored THEN @ + cacheVar[t] ELSE @]
  /\ at' = [at EXCEPT ![r] = @ + 1]
  /\ UNCHANGED <<target, cacheSize, caches, storage, mutex, pc, calls, total, range>>

Return(r) ==
  /\ at[r] > Len(list)
  /\ Go(r, "visit", "idle")
  /\ mutex' = NoThread
  /\ at' = [at EXCEPT ![r] = 0] /\ res' = [res EXCEPT ![r] = 0]
  /\ low' = [low EXCEPT ![r] = 0] /\ high' = [high EXCEPT ![r] = 0]
  /\ UNCHANGED <<target, cacheSize, caches, storage, calls, total>>

-----------------------------------------------------------------------------
Next ==
  \/ \E t \in Threads :
       \/ Get(t) \/ Link(t) \/ Store(t) \/ Add(t) \/ Count(t)
       \/ FlushAdd(t) \/ FlushClear(t) \/ Exit(t)
  \/ \E r \in Readers : ReadTarget(r) \/ Lock(r) \/ Visit(r) \/ Return(r)
  \/ SetCacheSize \/ ReadFastAndReset

Spec == Init /\ [][Next]_vars

-----------------------------------------------------------------------------
\* No increment is lost or counted twice, whatever flushes, exits and changes of
\* the cache size come between: the target and the caches, but for those that
\* have been added and not cleared, make the sum of all calls, also when the
\* target wraps.
NothingLost ==
  LET held == {t \in Threads : pc[t] \notin {"clear", "exit clear"}}
  IN  (target + SumFunctionOnSet(cacheVar, held)) % Word = total

\* What readFull returns.  With no flush and no exit near it, it lies between
\* the totals the call saw; otherwise it is off by no more than what
\* was on its way between a cache and the target: readFull takes the target
\* before the caches and without the mutex (leptVar.h:44).
ReadWithin ==
  \A r \in Readers : pc[r] = "visit" /\ at[r] > Len(list) =>
    \E n \in low[r]..high[r] : res[r] % Word = n % Word

\* Between two calls a thread keeps back fewer calls than the largest cache size
\* in use, so that readFast lags by that much a thread.
CacheBounded ==
  \A t \in Threads : pc[t] = "idle" => numUpdate[t] < Max(CacheSizes)

\* A thread that has exited has left nothing in its cache, and its cache is not
\* in the list: an accessor never reads a freed cache.
ExitedIsFlushed ==
  /\ \A t \in Threads : pc[t] = "exited" => cacheVar[t] = 0 /\ t \notin stored
  /\ \A t \in ToSet(list) : pc[t] \notin {"exit", "exit clear", "exited"}
=============================================================================
