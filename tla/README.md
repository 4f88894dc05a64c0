# leptfolly in TLA+

Models of leptfolly, a small C++ library in the style of folly: a bounded
multi-producer multi-consumer queue with the turn sequencer and futex under it,
a reader-writer spin lock, thread-local storage with a cached counter on it, and
a JSON parser. The modules are written from the source; the
map in `PROJECT.json` names, for every definition, the lines it stands for.

Contents: [inventory](#inventory), [modules](#modules-and-how-they-correspond-to-the-code),
[runs](#runs), [fairness](#fairness), [proofs](#proofs), [findings](#findings),
[limits](#what-is-not-modelled), [plan](#plan).

## Inventory

| component | state | operations | what is hard | what makes it correct |
|---|---|---|---|---|
| Turn sequencer (`MPMCQueue/TurnSequncer.h`) | one 32-bit word: current turn (26 bits, wraps), distance to the farthest waiter (6 bits, saturates) | `waitForTurn`, `completeTurn`, `isTurn`, `uncompleteTurnLSB` | the word changes between the load, the exchange and the sleep; wrap; saturation; EINTR | turns served in order, one at a time; no sleeper forgotten |
| Spin cutoff tuning (same file) | a cutoff shared by all pushes and one shared by all pops | the end of `TryWaitForTurn` | concurrent updates, unsigned difference read as signed | the cutoff stays between its limits |
| Futex (`Futex.h`, `Futex.cc`) | the kernel's wait queue | `futexWait`, `futexWake` | compare-and-sleep against a concurrent change | a wait never sleeps on a changed word |
| Futex spinlock (`Futex.h`) | a word | `lock`, `unlock` | sleeping after spinning | an unlocked lock is obtained |
| Queue slot (`MPMCQueue.h`, `SingleElementQueue`) | storage for one element, a sequencer | `enqueue`, `dequeue`, destructor | raw storage: construction and destruction by hand | each element constructed once, moved out once, destroyed once |
| Fixed-size MPMC queue (`MPMCQueue.h`) | push and pop ticket, ring of slots | `blockingWrite`, `write`, `blockingRead`, `read` | tickets taken in one order, slots finished in another; checks before the exchange go stale | bounded FIFO by ticket; `write` does not block; no mutual blocking |
| Queue size (same file) | the two tickets | `size`, `isempty`, `isFull` | two counters cannot be read at once | the answer was true at one moment of the call |
| Dynamic MPMC queue (same file) | the above, a seqlock word, current and closed slot arrays | the above, `tryExpand`, lookup of old tickets | a ticket read under one array is used after an expansion | no element lost or read from the wrong array |
| Reader-writer spin lock (`Lock/RWSpingLock.h`) | one 32-bit word: WRITER, UPGRADE, reader count | lock and unlock in three modes, changes between the modes | failed attempts leave traces in the word for a while | writer alone, one upgrade holder, nothing left behind |
| Thread-local storage (`ThreadLocal/ThreadLocalDetail.*`, `ThreadLocal.h`) | ids, per-thread element arrays, lists of the users of each id | `allocate`, `reserve`, `get`, `reset`, thread exit, `destroy`, accessor | thread exit against `destroy` and against the accessor; first use by two threads at once | an element is disposed of once and never read after |
| Cached variable (`ThreadLocal/leptVar.h`) | a 32-bit target and per-thread caches | `increment`, `flush`, `readFast`, `readFull`, `setCacheSize`, thread exit | flush and exit against a full read; the target wraps | nothing lost or counted twice for good; a full read is off by what is on its way at most |
| Index memory pool (`IndexMemPool.h`) | free indices, a counter | `allocIndex`, `recycleIndex` | exhaustion | no index is handed out twice (it does not compile once used) |
| JSON parser (`leptjson/leptjson.c`) | a growing stack of bytes and values, a tree of values | parse, set, free | stack discipline on every path, strings and arrays inside arrays; who owns which block | the stack is exact, each block owned once, JSON accepted and nothing else |
| Vector, string (`LeptVector`, `LeptString`) | storage, a shared counted buffer | container operations | reference counts | (see [limits](#what-is-not-modelled)) |

How they interact. A queue call takes a ticket (an atomic add, or an exchange
after a look at the slot), turns it into a slot and a turn, and calls
`SingleElementQueue`, which waits on the slot's `TurnSequncer`. The sequencer
spins for as long as the shared cutoff says and then sleeps on the futex.
`leptVar` keeps its caches in the thread-local storage. The reader-writer
lock, the pool, the parser and the containers stand alone.

## Modules and how they correspond to the code

Three layers of the queue, each using the abstract statement of the one below:

    TicketQueue      <=  MPMCQueue            (fixed-size queue, turns per slot)
                     <=  DynamicMPMCQueue     (arrays that are replaced, seqlock)
                             | use
    TurnOrder        <=  TurnSequncer         (one word, futex, every load)
                             | extended by
                         SingleElementQueue   (one slot: the storage)

`<=` is a refinement that TLC checks and TLAPS proves. RWLock <= RWSpingLock
is one too. LeptVar stands on the thread-local storage (ThreadLocal), whose
calls it takes apart only where a read of the counter can come between.
LeptJson stands alone. A module `XProofs` holds the theorems about X;
TurnSequncerProofs has those about the slot too, whose steps include the sequencer's,
and those about AdaptiveSpin, whose definitions are named so that it can extend both.
MPMCQueueSizeProofs has the one about MPMCQueueBase, which puts MPMCQueueSize and
AdaptiveSpin together.

* **TurnOrder**: what a sequencer promises. Turns are owned, granted in order,
  and held by one thread at a time.
* **TurnSequncer**: `state` is `state_` split into its fields, `seen` the local
  copy each thread works with, `pc` the point between two atomic operations.
  `Arrive`/`Look`/`RecordWaiter`/`FutexWait` are one pass of `TryWaitForTurn`;
  `CompleteLoad`/`CompleteTurn`/`FutexWake` are `completeTurn`. `Interrupt` is
  a wait that ends by EINTR. A pass that only spins is a stuttering step: it
  reads the word again. The callers' contract is in `owner` and in the guard of
  `Arrive`: each turn has one owner, a thread takes its turns in order, and
  waits less than `Window` turns ahead. The field widths are constants, so the
  instances wrap and saturate after a few turns.
* **SingleElementQueue**: adds the storage, with an element named by the turn
  that constructed it, and the destructor, with the shift it really does: it runs
  when nobody is inside, and finds no element whatever is there.
* **TicketQueue**: a bounded FIFO ordered by tickets, with no slots.
* **MPMCQueue**: the ring. `Check`/`Reload`/`TakeTicket` are the loop of
  `tryObtainReadyPushTicket`, and of `tryObtainReadyPopTicket`, which loads and
  exchanges the push counter too. A slot's sequencer is replaced by its turn:
  `WaitForTurn` is enabled when the turn has come, as TurnOrder promises. The
  queue keeps TurnSequncer's contract: a ticket is handed out once, so a turn
  has one owner; a thread makes one call at a time and tickets grow, so it
  takes its turns in order; and a slot is less than half of 2^26 turns behind
  as long as fewer than that many calls wait on it.
* **DynamicMPMCQueue**: `dstate_`, `dslots_`, `dcapacity_` and `closed_`, with one
  action for each load and store of the seqlock section (`LoadState`,
  `LoadSlots`, `LoadCapacity`, `Recheck`) and of `tryExpand` (`Lock`,
  `LoadCounter`, `StoreSlots`, `StoreCapacity`, `Unlock`). `snap` is what a call
  has loaded, `use` the array it settled on, `loaded` the two counters of line
  676, read in either order. Writing `closed_` and storing `dslots_` are one
  step: nobody reads that entry before `Unlock` counts it. An array is known by
  its number, a slot by array and index; slots keep their turns for ever, as in
  the code, where a closed array is freed with the queue only. The smallest
  capacity and the multiplier are constants, so that the instances expand twice.
  `Capacities` lists the capacities from the smallest to the full one, which the
  loop of `initQueue` counts to allocate `closed_`: an assumption says what it
  has to be, MCDynamicMPMCQueue computes it. `ArraysKnown` is the set of all arrays
  so far, closed or current.
* **MPMCQueueSize**: the four loads of `size()` against moving counters.
  `spanned` records the differences that held during the call.
* **AdaptiveSpin**: the shared cutoff, with the arithmetic of line 86 in words
  of constant width. What a wait needed is any number of rounds.
* **MPMCQueueBase**: the two together, as a push has them: `BlockingWrite` takes a
  ticket from the counter that `size()` reads, and `EnqueueWithTicket` begins its wait,
  which is one that updates the cutoff if the ticket is a multiple of
  `kAdaptationFreq`.
* **RWLock** / **RWSpingLock**: the mode of each thread, changed in one step;
  and the word, one action for each atomic operation. `pc` is the mode a
  thread holds or the call it is in. Retry loops repeat the attempt.
* **ThreadLocal**: `next` and `prev` are the links of the nodes, by entry (a
  thread's, or `head_`) and id; `ptr` the elements' pointers; `my[t]` the locals
  of a call. A call goes through `Begin`, `GetOrAllocate`, `Allocate`,
  `ReserveHead` (the id), `Copy`, `Swap` (the thread's array), and then what it
  came for: `Found`; `Dispose`, `Cleanup`, `PushBack`, `Store` for a `get` that
  constructs and for `reset`; `LockAll`, `Visit`, `Release` for the accessor.
  `Unlink` and `DisposeAll` are `onThreadExit`; `Destroy`, `CopyElements` and
  `DisposeCopies` are `destroy`. Sections under the mutex are single steps, but
  for the accessor's, which interleaves with everything that does not take the
  mutex. `fate` says what became of each object. A failed assertion, or a
  pointer into a freed or missing array, ends the behaviour. The callers'
  contract is that nobody uses a variable while or after it is destroyed. First
  uses may race, as in `ThreadLocal/test.cc`.
* **LeptVar**: `target` and the caches; a thread's `increment` is `Get`, on its
  first call `Link` and `Store` (`reset`: the node joins the list, then the
  pointer is there), `Add`, `Count`, and when the cache is full `FlushAdd` and
  `FlushClear`. `Exit` takes the node from the list and flushes (`~VarCache`).
  A full read is `ReadTarget` (without the mutex), `Lock`, a `Visit` for each
  node and `Return`. `total` is the exact sum, `low` and `high` what a read may
  return: the totals since it began, moved by the sums that were on their way
  between a cache and the target. `set` and `readFullAndReset` call a member that
  does not exist (`cache_.end()`), so `reset_` is never raised.
* **LeptJson**: the parser reads its text once, from left to right, so the text is
  made up as it is read. `pc` is where in the grammar the parser is, `frames` the
  calls of `lept_parse_array` in progress with their element counts, `top`, `size`
  and `stack` the context, `items` the values that lie on its stack. Characters
  stand for their kind. A value is its type, its elements and the heap blocks it
  points at. `lept_init`, the setters, `lept_free` and `lept_set_null` work on the
  parsed value or its elements, in any order: `lept_free` leaves type and pointer, so
  the next call that frees the value finds a block that is not allocated any more
  (`Dangling`) and the program stops there (`FreeAgain`). `freed` is history: what
  `lept_free` has left. A caller of `lept_init` has a new value or one it has freed.
  A string's length is uninitialized in the code: any of `Garbage`, or a crash.
* **JsonGrammar**: the grammar the parser is meant for, as languages: sets of texts,
  put together by `**` (one text after another), `Padded`, `Separated` and `Enclosed`.
  `Listed[n]` and `Chars[n]` are what takes fewer than n steps to write down, so that
  a text is in `List` or `Body` if it is in the one for its own length. MCLeptJson
  adds the tree of values that a text stands for.

The other `MC` modules add a symmetry set to the module they instantiate. A line
"Mutant of X" in a module marks a changed form of X: with it in X's place the
property named for it in `PROJECT.json` fails, which shows that the property depends
on that line.

## Runs

| run | instance | what it shows |
|---|---|---|
| `single_element_queue` | 3 threads, turns 14..18, turn field mod 16, mask 3, 2 channels, window 8 | turns in order, one at a time, no sleeper forgotten (NeverPast, HolderHasTurn, NoLostWakeup, ImplementsTurnOrder); whoever waits is served, without signals (WaiterServed); each element goes from its enqueue to the next dequeue (HandOff) |
| `slot_destructor` | 2 threads, turns 14..16 | violation (ElementDestroyed): see findings |
| `mpmc_queue` | 3 threads, 1 value, 2 slots, 3 push and 3 blocking pop tickets | exclusive slots, FIFO by ticket, what `write` and `read` can and cannot do; a blocked call is served once the call it depends on is made |
| `mpmc_queue_base` | 2 pushing threads, 1 call of `size()`, counters to 4, cutoffs 8..16, 6-bit words, every second ticket | `size()` returns a difference that was true during the call (SizeWasTrue), the cutoff stays in its range (CutoffStaysInRange) |
| `dynamic_mpmc_queue` | 2 threads, 1 value, capacities 1, 2, 4, 6 tickets each way | whole snapshots, one slot and turn per ticket for all time, a push blocks only on a full queue or with a ticket from before an expansion; FIFO by ticket across two expansions; a call whose counterpart was made returns |
| `thread_local` | 3 threads, 1 variable, 2 objects per thread | calls go astray only beside a first use that races (BadAddressExplained), lists stay whole, accessors come by everything stored and nothing deleted, exits leave nothing, and exactly what `destroy` leaves |
| `thread_local_first_use` | 2 threads, 1 variable | violation: see findings |
| `rw_sping_lock` | 4 threads | writer alone, one upgrade holder, word clean at the end, refinement of RWLock, a thread left alone gets in |
| `rw_sping_lock_readers` | 2 threads | violation: see findings |
| `lept_var` | 2 threads, 1 reader, 2 calls each, cache sizes 1 and 2, start 63 of 64 | nothing is lost (NothingLost), a full read is off by what is on its way at most (ReadWithin), a cache keeps back a bounded number of calls (CacheBounded), a thread leaves nothing behind (ExitedIsFlushed) |
| `json` | 15 kinds of characters, 4 free and 3 of `[ ] , 1`, values of 3 bytes, a stack of 4, any calls on the value after | the stack is exact on every path (StackExact), each block is one value's and dangles only where `lept_free` left it (OwnedOnce), none is lost but those known to be (AllAccounted), accepted is what the grammar says (AcceptsJson), the values are the text's in their order (BuildsTree) |
| `json_set_null` | texts of at most 2 characters of `[ ] 1`, any calls but `lept_free` by its own name | violation (FreedOnce): see findings |

Why the bounds are enough. The sequencer's instance crosses the wrap of the
turn field (14..18 modulo 16), has more turns than channels, so two waiters can
share one, and distances above the mask, so the delta saturates, with waiters
recorded in every order. The fixed-size queue's instance uses a slot a second
time while the first use may be unfinished, has more callers than slots, and
lets a non-blocking call keep a stale ticket for as long as it likes; one value
cannot tell elements apart, so that each pop gets the element of its own ticket
rests on the proof of RefinesTicketQueue, for any set of values, and the run adds the
liveness. The dynamic queue's instance expands twice, so that tickets look
for their slot in two closed arrays while another thread expands; that more threads
and more values change nothing rests on the proofs, which cover any number of both.
Counters to 4 let `size()` go round its loop twice, and two pushes update the cutoff
with one having read it before the other wrote. Four threads are two more than any
pair of modes that could conflict; the word's count has no bound in the model, and
TypeOK bounds it from below. Three threads make lists with a first, a middle and a
last node, and `destroy` on them removes two; two objects per thread let a reset
replace one. The first uses of three threads race in every way. With one variable no
array is replaced, as in any program with fewer than nine of them (see
[findings](#findings) for the rest); two threads with two variables and one object
each (1.35 million states) show the same. The counter starts at the last value before
its target wraps, and two
calls with cache sizes 1 and 2 flush by count, after a change of the size, and at
exit, all beside a full read. Four characters of any kind reach every error of
the parser, every state of a number and a string with an escape; three more
brackets, commas and digits after them nest arrays and put strings, numbers and
arrays beside each other in them; a stack of 4 bytes grows on the second value. After
the parse the calls go on without a bound.
The bounds are `LastTurn` and `Window` (TurnSequncer), `MaxTicket` (MPMCQueue,
DynamicMPMCQueue, MPMCQueueBase), `MaxObjects` (ThreadLocal), `MaxCount`
(MPMCQueueBase), `MaxCalls` (LeptVar), and `MaxAny`, `Later`, `MaxLen` and
`MaxParses` (LeptJson).

The runs of the two queues do not check for deadlock, because blocking readers
of an empty queue really wait for ever; `BlockedCallServed` for the fixed-size
queue and `CallReturns` for the dynamic one say that this, and its mirror image
on a full queue, are the only ways to stop. `thread_local` and
`thread_local_first_use` do not either: all the threads may have exited. All other
runs check it. Symmetry is used where no liveness property is checked.

## Fairness

Weak fairness of each thread's own steps, nothing else. A thread that waits in
the sequencer, that is inside a queue call or that spins on the lock is a
running or runnable thread, and the operating system schedules it again and
again. There is no fairness on `Interrupt` (no signal is promised), none on
`Start` in MPMCQueue and DynamicMPMCQueue (nobody is obliged to make a call) and
none on releasing the reader-writer lock (a holder may keep it). In TurnSequncer
the fairness includes `Arrive` and `CompleteLoad`: liveness there is relative to
a contract in which every turn is claimed and every critical section ends. In
the two queues the liveness properties have the matching premise instead. A push
of the dynamic queue that finds the seqlock taken, or the pop of its slot under
way, goes round a loop; the loop is left because the expanding thread and that
pop run too, and because a queue expands a bounded number of times. `size()` goes round its
loop for as long as other threads push and pop between its loads, so that nothing is
said of its return. Nor is anything
said of liveness in the thread-local storage and in the counter on it: their
calls wait only for a `std::mutex`, which promises no order among those who wait.
The parser is a sequential function; that it ends shows in the deadlock check
and in its text growing with every step that reads.

## Proofs

Proved with TLAPS, for every value of the constants that meets the named
assumptions:

* **TurnSequncerProofs.SequencerSafe**: `[](TypeOK /\ NeverPast /\ HolderHasTurn)`.
  `HolderHasTurn` says nothing of threads that wait, and a step from such a
  state could let in a thread whose turn is long over; so the invariant `IInv`
  adds that the word shows the current turn wrapped, that each turn belongs to
  its owner, that what is waited for lies in the window, and that finished
  turns were claimed by their owners. With the window at most half of the turn
  field the wrapped distance is the real one (`AheadIsDistance`).
* **NoSleeperForgotten**: `[]NoLostWakeup`. The strengthening covers also the
  thread between its exchange and its sleep: if the word still equals its copy,
  the recorded delta reaches its turn, or, once saturated, covers every channel
  (`EveryChannel`, where the assumption `Channels <= WaitersMask` is used).
  **TurnNeverPast** (`[]NeverPast`) is a part of the same result.
* **RefinesTurnOrder**: `Spec => Order!Spec`, each step a step of TurnOrder or none.
* **SlotHandsOff** and **ParityTells**: `[]HandOff`, and that with nobody inside the
  parity of the turn tells whether there is an element (`OddTurnMeansElement`): the
  destructor is meant to go by a sound rule, although it does not as written. The
  slot's spec has the sequencer's steps in it, so the sequencer's `IInv` holds of it;
  `Stored` adds where the element is between the two calls. The assumptions are that
  the first turn is even, as the constructor has it, that the turn field has an even
  number of values, so that a turn's parity survives the wrap, and that the mask is
  odd.
* **MPMCQueueSizeProofs.SizeLinearizable**: `[](TypeOK /\ SizeWasTrue)`. The
  invariant says, for each of the two comparing loads, that the value not being
  compared made, with some value the other counter has had since, a difference
  of the call; so equality makes the answer true. **BaseComposes**: the queue with
  both is `Spec`, `SpinSpec` and so `[]SizeWasTrue`; the steps of a push are steps of
  the one part and leave the other alone.
* **MPMCQueueProofs.QueueSafe**: `[](TypeOK /\ SlotExclusive /\ SlotReady /\
  WriteDoesNotBlock /\ ReadNeverSucceeds)`. That two calls are never in a slot is
  not inductive: one must know why a second call cannot be let in. `IInv` says
  that a ticket determines its slot and turn and is determined by them
  (`ticket = Capacity * Turn + Idx`, lemma by division), that claimed tickets lie
  below the counters and are claimed once (`Claims`, `Distinct`), that a look
  which found the turn is still good when the exchange succeeds (`Looked`), that
  a slot's turn is not beyond what has been served (`Served`, `Passed`), and that
  a slot holds its element exactly between the two (`Stored`, `TakenExactly`).
* **WriteNeverWaits**, **ReadIsHopeless** (parts of QueueSafe), **WriteHonest**
  (`[]WriteFailsOnlyWhenFull`) and **RefinesTicketQueue** (`Spec => Tickets!Spec`)
  follow from the same invariant.
* **DynamicMPMCQueueProofs.SeqlockHolds** and **SlotsAreTickets**:
  `[]SnapshotIsWhole` and `[]TicketsMeet`, for any number of threads, tickets and
  expansions. Three facts carry `IInv`. The word a section compares never comes
  back, because every expansion adds one to `numClosed` (`Snapshots`); so equality
  at the end means that nothing was stored in between. What an expanding thread has
  loaded is beyond the ticket of every call that has settled on an array
  (`Counted`), so the new offset takes no ticket from under such a call. And
  the known arrays are numbered by their order (`Numbered`) and share out the
  tickets: each is served by exactly one (`Served`), so that two calls with the
  same ticket, before and after an expansion, look up the same array, whichever
  way they find it.
* **GrowsWhenItMust** (`[]BlocksOnlyWhenFull`) and the dynamic queue's
  **RefinesTicketQueue** (`Spec => Tickets!Spec`) need a second invariant, `SInv`,
  on top of `IInv`, about the slots. In the array that serves a ticket, the turn of
  the ticket's slot tells whether its push and its pop have finished
  (`TurnsTell`), and between the two the slot holds what was offered for the ticket
  (`Stored`). An expansion keeps both: the slots of an array to come are as they were
  constructed (`Fresh`), and what finished is below the counters the expanding thread
  has loaded (`Past`), hence served by an older array. A ticket is one call's
  (`Claims`), so two calls at their turn in one slot are one call, and nobody else
  touches what it constructs or moves out (`InTurn`). The arrays have the capacities
  `initQueue`'s loop counted, so an array that is replaced finds its place in `closed_`
  (`Fits`): an assumption fixes each step of that loop, and no induction over the
  arrays is needed. A push that went past `tryExpand` has the full array, or has been
  overtaken by an expansion since (`Waits`).
* **RWSpingLockProofs.LockSafe**: `[](TypeOK /\ WriterExcludes /\ UpgradeUnique /\
  QuiescentClean)`. `IInv` equates the reader count with the cardinality of the
  threads that are counted (`Count`), says which mode or unfinished call each
  flag stands for, with a stray UPGRADE only beside a writer (`Flags`), that one
  thread owns them (`OneOwner`), and that no reader was let in beside a writer.
  **IdleLockIsClear** (`[]QuiescentClean`) is a part of it.
* **RefinesRWLock**: `Spec => Abstract!Spec`.
* **TurnSequncerProofs.CutoffSafe**: `[]SpinTypeOK /\ CutoffStaysInRange`. An eighth
  of a difference, rounded towards zero, never goes beyond the target.
* **LeptVarProofs.NoCallLost**, **ReadsWithinRange**, **CachesAreBounded** and
  **ExitsAreFlushed**: `[]NothingLost`, `[]ReadWithin`, `[]CacheBounded`,
  `[]ExitedIsFlushed`. Who is in the list, and that a reader under way in it holds
  the mutex, is `ListInv`. `SumInv` is NothingLost as one sum over all threads, in
  which a cache counts 0 between the two halves of its flush. `ReadWithin` speaks of
  a reader at its end; at each moment before, `Within` says that its sum so far plus
  the caches it has still to visit (`Owed`) is congruent to a number in the range,
  and stays so whichever of the caches that are just then in the target as well
  (`Over`, `Under`) are cleared before it gets there. That two-sided slack is what
  makes the invariant inductive: a flush widens the range by what it moves, and its
  clearing must use up just that. The sums are folds over the set of threads; their
  theory (a fold does not depend on its order, one changed term changes the sum by
  as much) is proved first, by induction stated for sets of sets from the
  well-foundedness theorems of the library.
* **ThreadLocalProofs.NoDoubleDelete**, **ExitDeletesAll** and
  **DestroyLeavesAtMostOne**: `[]DeletedOnce`, `[]ExitLeavesNothing`,
  `[]DestroyLeavesOne`, without any hypothesis on the callers or the arrays. The
  invariant `AInv` says where an object is: a live one is in its thread's element or
  in the hands of the call that will store it (`LiveIsHeld`), an element points to
  an object of its own thread and of the variable that has the id (`PointsRight`,
  which needs that ids are given once, `IdsGiven`), an element with an object has
  its node in the list until its thread exits or `destroy` takes the list
  (`StoredIsLinked`, which follows the nodes through `reserve`'s unlocked copy), and
  `destroy`'s copies are of its own variable (`CopiesRight`). What `destroy` does
  not copy is what the last node points to; `OneLeft` keeps that through every later
  exit. A failed assertion or a bad address ends the program: the first parts of
  `AInv` are said of runs before that, the three properties of all.
* **BadAddressesExplained**: `[]BadAddressExplained`, without any hypothesis, arrays that
  are replaced included. `HeadComes` is what carries it: a variable that has an id has
  its head, or the thread that got the id is just making it.
* **ListStaysWhole**, **VisitsOnlyLive** and **VisitsAll**: `[]ListWhole`,
  `[]AccessorVisitsLive`, `[]AccessorVisitsAll`, for any number of threads and first
  uses that race, under the one hypothesis the theorems state: `Few`, that the first
  array has room for every variable (eight of them with the code's `Spare` of 5).
  The [findings](#findings) have what TLC shows without it.
  `BInv` says that a call inside a list has found its head (`HeadFound`), that arrays are
  absent or long enough, and what each call has loaded
  of them is still so (`Arrays`), that each list is a ring (`Rings`), and that what
  an accessor owes lies between its iterator and the head (`Access`). A ring is
  stated without counting: `next_` and `prev_` are inverse, and a set of nodes that
  has the head and is closed under `next_` is all of them. `RingOne`, `RingLast`,
  `RingInsert` and `RingRemove` say what linking and unlinking do to one; `RingWalk`
  turns the closure into the walk of so many steps that ListWhole describes.

* **LeptJsonProofs.StackHolds**, **BlocksOwnedOnce** and **ParseAccounted**:
  `[]StackExact`, `[]OwnedOnce`, `[]AllAccounted`, for texts and nesting of any length
  and any calls on the value, those after `lept_free` included. The invariant adds to
  them what each point of the code knows (`Flow`: a value is on its way only at a
  return, the caller's value is empty until the outermost one has been read, a frame
  just opened has no element), that a value's elements own no more than the value and
  are apart from each other (`Made`), that the blocks a value points at are allocated
  but for those `lept_free` has freed (`Mine`), so that a second free is one of those,
  and the balance of allocation at every point of a parse (`Accounted`), the values on
  the stack included. `Pushed` is a fold; it is proved to be a sum over the frames, so
  that pushing an element and ending an array change it by as much as they change the
  stack. That the loop that grows the stack ends with room enough is `RisesExists` and
  `GrownEnough`: it needs `StackSize` of 2 at least, from 1 a half would add nothing.
  Most steps leave values and blocks as they are; the lemma `Steps` sorts them first
  by what they do to those.
* **AcceptsExactlyJson**: `[]AcceptsJson`, for texts of any length. The invariant
  `Grammatical` has, for each point of the parser inside k arrays, the language of
  what may still come (`Rest`), and says that it is exactly right: what has been moved
  over (`Done`) followed by a text of `Rest` is JSON, and any JSON text that begins
  with what has been read goes on as `Rest` says (`Fits`). A step over a character c
  must lead from `Rest` to what remains of it after c, `Past(c, Rest)`; a step that
  does not move may lose nothing that begins with c; an error needs `Past(c, Rest)` to
  be empty, the end of the text that `Rest` has no empty text. So the proof is two
  things: the algebra of `**` and `Past` (associativity, unions, one character at a
  time), and for each point the table of its `Past` (`ValueRestPast`, `OpenedPast`,
  `FollowPast`, `StringPast`, `EscapePast`, `NumberSteps`), which is compared with the
  code's cases. `Follow[k]`, what may come after a value inside k arrays, is where the
  depth is: it is defined from `Follow[k - 1]`, with no use of the frames' contents.
  The two definitions by length are shown to be the least solutions of their equations
  (`BodyIs`, `ListIs`), because each of those makes texts of shorter ones. The run
  tries a few endings on a rejected text; **ErrorsAreFinal** says that no text of any
  length makes it right, and **ErrorsAreFirst** that what the parser has moved over
  always begins a JSON text, so that it stops at the first wrong character (given that
  the characters `true`, `]`, `"` and `0` exist, to finish with).

The assumptions are the `ASSUME`s of the modules: the widths are naturals, the
window is at most half of the turn field, there are no more channels than the
delta's maximum, the cutoff fits in half a word; the capacity is positive; the
threads that use the lock are finitely many, fewer than 2^29, so that the reader
count fits in the word; the counter's threads and cache sizes are finitely many, and
so are the storage's threads and variables, none of which is `Null`; the parser's
stack starts with 2 bytes at least, and the '\0' that ends its text is none of the
characters it looks for. The code's numbers meet them (2^26, 63, 32; 20,
2000, 2^32; 256).

Only model-checked: all liveness (it rests on fairness and ENABLED, which the
prover does not handle), and that the value of a text is its tree (BuildsTree), a
recursion over the text and the value at once. The theorems about blocks speak of the
values the parser holds and their elements, not of the elements' own elements. Nothing is
proved of the thread-local lists once arrays are replaced, where they do break.

## Findings

The four that a run shows are in `PROJECT.json`; the others met while reading.

* `~SingleElementQueue` leaks an element: `uncompleteTurnLSB` shifts left where
  it has to shift right (`TurnSequncer.h:118`), so the bit is always 0
  (run `slot_destructor`). The comment beside the caller (`MPMCQueue.h:24`) says what
  was meant, and that rule is sound (theorem ParityTells).
* `lept_set_null` is `lept_free` by another name (`leptjson.h:57`), and `lept_free` leaves
  type and pointer: its `lept_init` is commented out (`leptjson.c:145`). So a string
  that is set to null and then set to anything, or freed, is freed twice
  (run `json_set_null`). `OwnedOnce` says that this is the only way to free twice.
* `try_lock_shared` tests the lowest bit of the reader count where the comment of the
  class speaks of UPGRADE: readers are admitted beside a thread that holds UPGRADE,
  waiting for them to leave or not, and a second reader is refused beside the first
  (run `rw_sping_lock_readers`). Exclusion is not affected.
* Two threads that use a thread-local variable for the first time at once both
  allocate its id, and the assertion in `allocate` fails
  (run `thread_local_first_use`). `ThreadLocal/test.cc:39-51` does just that. A third
  thread may see the id before the list has its head and follow a null pointer;
  `BadAddressExplained` says that nothing else leads astray but what follows below.
* `destroy` deletes through copies of the elements: an object whose thread exits
  later is deleted a second time (`DeletedOnce` says that this is the only way),
  and because `empty()` is true of one node, the last object of the list is
  not deleted at all (`DestroyLeavesOne`).
* `reserve` replaces a thread's array without the mutex, and `destroy` refers to
  the head's array before taking it. Both matter from the ninth variable on,
  when arrays are replaced: with `Spare = 1`, three variables and two threads
  TLC finds ListWhole violated, and calls of `destroy` at a head that was freed.
* `readFull` of the cached variable reads the target before the caches and without
  the mutex (`leptVar.h:44`): a sum that is flushed meanwhile is missed or counted
  twice. `ReadWithin` says by how much at most.
* The JSON parser. `lept_parse_string_raw` assigns the length to its parameter
  (`leptjson.c:296`), so `lept_parse_string` copies an uninitialized number of bytes
  (`334`). A character below the space gives `INVALID_STRING_ESCAPE`, and so does
  the space itself, where `test.c:125` expects `INVALID_STRING_CHAR`. An escape
  pushes the backslash too. An error in an element comes back as
  `EXPECT_VALUE`, the value of a comparison (`371`); the elements before it are lost,
  because the clean-up (`395`) cannot be reached, and the stack's block is never
  freed (`AllAccounted` says that these are all).
* Shown by properties that hold: `read()` never succeeds, because
  `tryObtainReadyPopTicket` uses the push counter (`ReadNeverSucceeds`).

## What is not modelled

The components with status `not_modelled` in `PROJECT.json`, for the reasons
given there. Of the modelled ones: the wording and error numbers of the futex
calls beyond EINTR and a changed word; memory orders weaker than sequential
consistency (each atomic operation is one step on one memory); the queue's
move constructor, its destructor and `tryObtainPromised*`, which nothing calls;
the dynamic queue's destructor, running out of memory while expanding, and the
`write()` and `read()` it inherits, which compute a slot from the full capacity
in an array that may be smaller.
The list of all thread entries (`ThreadEntry::next_` and `prev_`), which each
thread joins on its first call, without the mutex, and leaves when it exits, is
left out: only joining and leaving read it (see the plan).
`set` and `readFullAndReset` of the cached variable cannot be instantiated, nor
can the dynamic queue's `allocatedCapacity`. `lept_parse_object` and the decoding of `\u`
are never called, and the getters of a JSON value only read it.
LeptVector and LeptString do not compile, so there is no program whose
behaviour a model would describe; nor does IndexMemPool once it is used. The
futex spinlock is used nowhere and cannot be declared as a variable: its
destructor is private.

## Plan

1. Done: both queues, the sequencer, the size, the cutoff, the lock, the
   thread-local storage, the cached variable and the JSON parser.
2. Done: a proof for every safety property of these but BuildsTree.
3. The list of thread entries, as a module of its own: who joins it while another
   thread leaves.
