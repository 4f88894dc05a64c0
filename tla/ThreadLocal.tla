----------------------------- MODULE ThreadLocal -----------------------------
(***************************************************************************)
(* Thread-local variables: src/ThreadLocal/ThreadLocalDetail.h and .cc,    *)
(* ThreadLocal.h.  A variable gets an id on its first use.  Each thread    *)
(* has an array of elements indexed by id; the elements of one id are      *)
(* linked through their threads in a circular list that starts at head_.   *)
(* A section under the mutex is one step, but for the accessor's, which    *)
(* keeps it while its caller visits element after element.                 *)
(***************************************************************************)
EXTENDS Integers, FiniteSets

CONSTANTS Threads, Vars,
          Head, Null, NoThread,   \* model values: head_, nullptr, a free mutex
          Spare,                  \* how many ids reallocate looks ahead, 5 in the code
          MaxObjects              \* bound: objects of one thread and variable

ASSUME ThreadLocalAssumption ==
  /\ IsFiniteSet(Threads) /\ IsFiniteSet(Vars)
  /\ {Head, Null, NoThread} \cap Threads = {} /\ Head # Null
  /\ Null \notin Vars \cup (Threads \X Vars \X (1..MaxObjects))
  /\ Spare \in Nat \ {0} /\ MaxObjects \in Nat

VARIABLES mutex,       \* mutex_: its holder
          nextId, value,          \* nextId_, and each variable's value_
          cap,         \* capacity_ of the element arrays of head_ and the threads
          next, prev,  \* next_ and prev_ of the nodes, by entry and id
          ptr,         \* ptr_ of the elements
          pc,
          my,          \* the locals of a thread's call
          gone,        \* the variables destroyed
          fate,        \* what became of each object
          owed         \* whom an accessor has still to come by

mem == <<cap, next, prev, ptr>>
ids == <<nextId, value>>
vars == <<mutex, ids, mem, pc, my, gone, fate, owed>>

Entries == Threads \cup {Head}
Ids == 1..(Cardinality(Vars) + 1)
Objects == Threads \X Vars \X (1..MaxObjects)
Invalid == 0                      \* InvalidEntryId, 2^32 - 1 in the code
Ops == {"get", "read", "reset", "clear", "access"}
Crashed == {"assertion failed", "bad address"}

\* reallocate: newcapacity = (idval + 5) * 1.5
NewCapacity(id) == ((id + Spare) * 3) \div 2

NoNodes == [i \in Ids |-> Null]
Locals(o, v) ==
  [op |-> o, var |-> v,
   obj |-> Null,                              \* the object to store
   saved |-> [next |-> NoNodes, prev |-> NoNodes],    \* reserve's copy of the nodes
   ref |-> 0,          \* destroy: the array of head_, by its capacity, ref is into
   copies |-> {},      \* destroy: the pointers in the copied elements
   at |-> Head]        \* accessor: where the iterator is
Id(t) == value[my[t].var]

Init ==
  /\ mutex = NoThread
  /\ nextId = 1 /\ value = [v \in Vars |-> Invalid]
  /\ cap = [e \in Entries |-> 0]
  /\ next = [e \in Entries |-> NoNodes] /\ prev = next
  /\ ptr = [t \in Threads |-> NoNodes]
  /\ pc = [t \in Threads |-> "idle"] /\ my = [t \in Threads |-> Locals("none", Null)]
  /\ gone = {} /\ fate = [o \in Objects |-> "unborn"] /\ owed = [t \in Threads |-> {}]

-----------------------------------------------------------------------------
Go(t, from, to) ==
  /\ pc[t] = from
  /\ pc' = [pc EXCEPT ![t] = to]

Return(t, from) ==
  /\ Go(t, from, "idle")
  /\ my' = [my EXCEPT ![t] = Locals("none", Null)]

Linked(t, i) == next[t][i] # Null
InCall(t, v) == my[t].var = v
Alone(t, v) == \A u \in Threads \ {t} : ~InCall(u, v)

\* Where a call goes once its variable has the id i: the accessor locks, the
\* others reserve space in the thread's array if they must.
WithId(t, o, i) ==
  CASE o = "access"                  -> "lock"
    [] o # "access" /\ i >= cap[t]   -> "copy"
    [] OTHER                         -> "element"

\* get (of ThreadLocal and of ThreadLocalPtr), reset(p), reset() and
\* accessAllThreads, up to the first load of the id.  A thread that has made all
\* the objects the bound allows makes none.
Begin(t, v, o) ==
  /\ v \notin gone
  /\ o \in {"get", "reset"} => fate[<<t, v, MaxObjects>>] = "unborn"
  /\ Go(t, "idle", IF value[v] = Invalid THEN "get or allocate" ELSE WithId(t, o, value[v]))
  /\ my' = [my EXCEPT ![t] = Locals(o, v)]
  /\ UNCHANGED <<mutex, ids, mem, gone, fate, owed>>

\* The second load; another thread may have given the variable an id meanwhile.
GetOrAllocate(t) ==
  /\ Go(t, "get or allocate", IF Id(t) = Invalid THEN "allocate" ELSE WithId(t, my[t].op, Id(t)))
  /\ UNCHANGED <<mutex, ids, mem, my, gone, fate, owed>>

\* nextId_++, the exchange, and the assertion that nobody was faster.
Allocate(t) ==
  /\ Go(t, "allocate", IF Id(t) = Invalid THEN "reserve head" ELSE "assertion failed")
  /\ value' = [value EXCEPT ![my[t].var] = nextId]
  /\ nextId' = nextId + 1
  /\ UNCHANGED <<mutex, mem, my, gone, fate, owed>>

\* Mutant of ReserveHead: the list heads are left for later.
ReserveHeadLater(t) ==
  /\ Go(t, "reserve head", WithId(t, my[t].op, Id(t)))
  /\ mutex = NoThread
  /\ UNCHANGED <<mutex, ids, mem, my, gone, fate, owed>>

\* New heads are empty lists; old ones are copied.
ReserveHead(t) ==
  /\ Go(t, "reserve head", WithId(t, my[t].op, Id(t)))
  /\ mutex = NoThread
  /\ LET new == IF Id(t) < cap[Head] THEN {} ELSE {i \in Ids : i >= cap[Head]}
         heads(links) == [i \in Ids |-> IF i \in new THEN Head ELSE links[i]]
     IN  /\ next' = [next EXCEPT ![Head] = heads(@)]
         /\ prev' = [prev EXCEPT ![Head] = heads(@)]
  /\ cap' = [cap EXCEPT ![Head] = IF Id(t) < @ THEN @ ELSE NewCapacity(Id(t))]
  /\ UNCHANGED <<mutex, ids, ptr, my, gone, fate, owed>>

\* reserve, without the mutex: the thread's nodes are copied ...
Copy(t) ==
  /\ Go(t, "copy", "swap")
  /\ my' = [my EXCEPT ![t].saved = [next |-> next[t], prev |-> prev[t]]]
  /\ UNCHANGED <<mutex, ids, mem, gone, fate, owed>>

\* ... and the new array takes the old one's place.
Swap(t) ==
  /\ Go(t, "swap", "element")
  /\ next' = [next EXCEPT ![t] = my[t].saved.next]
  /\ prev' = [prev EXCEPT ![t] = my[t].saved.prev]
  /\ cap' = [cap EXCEPT ![t] = NewCapacity(Id(t))]
  /\ UNCHANGED <<mutex, ids, ptr, my, gone, fate, owed>>

-----------------------------------------------------------------------------
\* The next object a thread makes for a variable.
Fresh(t, v) ==
  {o \in Objects : o[1] = t /\ o[2] = v /\ fate[o] = "unborn"
                   /\ \A n \in 1..(o[3] - 1) : fate[<<t, v, n>>] # "unborn"}

\* Deleting what the pointers p point to.
Deleted(p) ==
  [o \in Objects |-> CASE o \notin p                     -> fate[o]
                       [] o \in p /\ fate[o] = "live"   -> "deleted"
                       [] OTHER                          -> "twice"]

\* dispose does nothing with a null pointer.
Pointee(t, i) == {ptr[t][i]} \ {Null}

\* ThreadLocalPtr::get returns the pointer, ThreadLocal::get an object.
Found(t) ==
  /\ Return(t, "element")
  /\ my[t].op = "read" \/ (my[t].op = "get" /\ ptr[t][Id(t)] # Null)
  /\ UNCHANGED <<mutex, ids, mem, gone, fate, owed>>

\* reset, also from makeTlp: the old object is deleted ...
Dispose(t) ==
  /\ Go(t, "element", "cleanup")
  /\ my[t].op \in {"reset", "clear"} \/ (my[t].op = "get" /\ ptr[t][Id(t)] = Null)
  /\ fate' = Deleted(Pointee(t, Id(t)))
  /\ owed' = [u \in Threads |-> IF InCall(u, my[t].var) THEN owed[u] \ {t} ELSE owed[u]]
  /\ UNCHANGED <<mutex, ids, mem, my, gone>>

\* Mutant of Cleanup: reset() leaves the pointer.
CleanupNot(t) ==
  /\ pc[t] = "cleanup"
  /\ IF my[t].op = "clear"
       THEN Return(t, "cleanup") /\ UNCHANGED fate
       ELSE /\ Go(t, "cleanup", "link")
            /\ \E o \in Fresh(t, my[t].var) :
                 /\ my' = [my EXCEPT ![t].obj = o]
                 /\ fate' = [fate EXCEPT ![o] = "live"]
  /\ UNCHANGED <<mutex, ids, mem, gone, owed>>

\* ... and then its pointer cleared.  reset() leaves it at that, and the node in
\* the list; else there is a new object to store.
Cleanup(t) ==
  /\ pc[t] = "cleanup"
  /\ ptr' = [ptr EXCEPT ![t][Id(t)] = Null]
  /\ IF my[t].op = "clear"
       THEN Return(t, "cleanup") /\ UNCHANGED fate
       ELSE /\ Go(t, "cleanup", "link")
            /\ \E o \in Fresh(t, my[t].var) :
                 /\ my' = [my EXCEPT ![t].obj = o]
                 /\ fate' = [fate EXCEPT ![o] = "live"]
  /\ UNCHANGED <<mutex, ids, cap, next, prev, gone, owed>>

\* Element::set, initIfZero: a node in the list already is left there.
AlreadyLinked(t) ==
  /\ Go(t, "link", "store")
  /\ Linked(t, Id(t))
  /\ UNCHANGED <<mutex, ids, mem, my, gone, fate, owed>>

\* Mutant of PushBack: the predecessor is not told.
PushBackHalf(t) ==
  LET i == Id(t) IN
  /\ Go(t, "link", IF i < cap[Head] THEN "store" ELSE "bad address")
  /\ ~Linked(t, i) /\ mutex = NoThread
  /\ next' = [next EXCEPT ![t][i] = Head]
  /\ prev' = [prev EXCEPT ![t][i] = prev[Head][i], ![Head][i] = t]
  /\ UNCHANGED <<mutex, ids, cap, ptr, my, gone, fate, owed>>

\* pushBack: the node goes to the end of its list.  Without the list's head the
\* program follows a pointer to nowhere.
PushBack(t) ==
  LET i == Id(t) IN
  /\ Go(t, "link", IF i < cap[Head] THEN "store" ELSE "bad address")
  /\ ~Linked(t, i) /\ mutex = NoThread
  /\ IF i < cap[Head]
       THEN /\ next' = [next EXCEPT ![t][i] = Head, ![prev[Head][i]][i] = t]
            /\ prev' = [prev EXCEPT ![t][i] = prev[Head][i], ![Head][i] = t]
       ELSE UNCHANGED <<next, prev>>
  /\ UNCHANGED <<mutex, ids, cap, ptr, my, gone, fate, owed>>

\* Element::set: ptr_ and deleter_.
Store(t) ==
  /\ Return(t, "store")
  /\ ptr' = [ptr EXCEPT ![t][Id(t)] = my[t].obj]
  /\ UNCHANGED <<mutex, ids, cap, next, prev, gone, fate, owed>>

-----------------------------------------------------------------------------
\* The accessor keeps the mutex from here ...
LockAll(t) ==
  /\ Go(t, "lock", IF Id(t) < cap[Head] THEN "visit" ELSE "bad address")
  /\ mutex = NoThread
  /\ mutex' = t
  /\ owed' = [owed EXCEPT ![t] =
                {u \in Threads : Linked(u, Id(t)) /\ ptr[u][Id(t)] # Null}]
  /\ UNCHANGED <<ids, mem, my, gone, fate>>

\* Mutant of Visit: two nodes at a time.
VisitSkip(t) ==
  LET e == next[next[my[t].at][Id(t)]][Id(t)] IN
  /\ Go(t, "visit", IF e = Head THEN "release" ELSE "visit")
  /\ my' = [my EXCEPT ![t].at = e]
  /\ owed' = [owed EXCEPT ![t] = @ \ {e}]
  /\ UNCHANGED <<mutex, ids, mem, gone, fate>>

\* ... goes from node to node, looking at the objects that are there ...
Visit(t) ==
  LET e == next[my[t].at][Id(t)] IN
  /\ Go(t, "visit", IF e = Head THEN "release" ELSE "visit")
  /\ my' = [my EXCEPT ![t].at = e]
  /\ owed' = [owed EXCEPT ![t] = @ \ {e}]
  /\ UNCHANGED <<mutex, ids, mem, gone, fate>>

\* ... to here.
Release(t) ==
  /\ Return(t, "release")
  /\ mutex' = NoThread
  /\ UNCHANGED <<ids, mem, gone, fate, owed>>

-----------------------------------------------------------------------------
\* eraseZero of the nodes (t, i) with i in S.
Erased(links, other, t, S) ==
  [e \in Entries |-> [i \in Ids |->
     CASE i \in S /\ Linked(t, i) /\ e = t                      -> Null
       [] i \in S /\ Linked(t, i) /\ e # t /\ e = other[t][i]   -> links[t][i]
       [] OTHER                                                 -> links[e][i]]]

\* Mutant of Unlink: only the objects go, the nodes stay.
UnlinkNothing(t) ==
  /\ Go(t, "idle", "dispose all")
  /\ cap[t] > 0 /\ mutex = NoThread
  /\ UNCHANGED <<mutex, ids, mem, my, gone, fate, owed>>

\* onThreadExit, under the mutex: the thread's nodes leave their lists ...
Unlink(t) ==
  /\ Go(t, "idle", "dispose all")
  /\ cap[t] > 0 /\ mutex = NoThread
  /\ next' = Erased(next, prev, t, Ids)
  /\ prev' = Erased(prev, next, t, Ids)
  /\ UNCHANGED <<mutex, ids, cap, ptr, my, gone, fate, owed>>

\* Mutant of DisposeAll: the array is freed with the objects in it.
DisposeNothing(t) ==
  /\ Go(t, "dispose all", "exited")
  /\ ptr' = [ptr EXCEPT ![t] = [i \in Ids |-> Null]]
  /\ cap' = [cap EXCEPT ![t] = 0]
  /\ UNCHANGED <<mutex, ids, next, prev, my, gone, fate, owed>>

\* ... and without it the objects are deleted and the array is freed.
DisposeAll(t) ==
  /\ Go(t, "dispose all", "exited")
  /\ fate' = Deleted(UNION {Pointee(t, i) : i \in Ids})
  /\ ptr' = [ptr EXCEPT ![t] = [i \in Ids |-> Null]]
  /\ cap' = [cap EXCEPT ![t] = 0]
  /\ UNCHANGED <<mutex, ids, next, prev, my, gone, owed>>

\* ~ThreadLocalPtr, when nobody uses the variable any more: the id and, before
\* the mutex, a reference to the head of its list.
Destroy(t, v) ==
  /\ pc[t] = "idle" /\ v \notin gone /\ Alone(t, v)
  /\ gone' = gone \cup {v}
  /\ IF value[v] = Invalid
       THEN UNCHANGED <<pc, my>>
       ELSE /\ Go(t, "idle", "destroy")
            /\ my' = [my EXCEPT ![t] = [Locals("destroy", v) EXCEPT !.ref = cap[Head]]]
  /\ UNCHANGED <<mutex, ids, mem, fate, owed>>

\* empty() compares next_ with prev_, which are equal too when one node is left:
\* the last node of the list stays.
Removed(i) == {t \in Threads : Linked(t, i) /\ prev[Head][i] # t}

\* Mutant of CopyElements: it stops at the first node.
CopyFirst(t) ==
  LET i == Id(t)
      S == Removed(i) \cap {next[Head][i]}
  IN
  /\ Go(t, "destroy", IF my[t].ref = cap[Head] THEN "dispose copies" ELSE "bad address")
  /\ mutex = NoThread
  /\ my' = [my EXCEPT ![t].copies = UNION {Pointee(u, i) : u \in S}]
  /\ next' = [e \in Entries |-> [next[e] EXCEPT ![i] =
                IF e \in S THEN Null ELSE IF e = Head /\ S # {} THEN next[next[e][i]][i] ELSE @]]
  /\ prev' = [e \in Entries |-> [prev[e] EXCEPT ![i] =
                IF e \in S THEN Null ELSE IF @ \in S THEN Head ELSE @]]
  /\ UNCHANGED <<mutex, ids, cap, ptr, gone, fate, owed>>

\* destroy, under the mutex: the nodes are taken from the list one by one and
\* their elements copied.
CopyElements(t) ==
  LET i == Id(t)
      last == prev[Head][i]
  IN
  /\ Go(t, "destroy", IF my[t].ref = cap[Head] THEN "dispose copies" ELSE "bad address")
  /\ mutex = NoThread
  /\ my' = [my EXCEPT ![t].copies = UNION {Pointee(u, i) : u \in Removed(i)}]
  /\ next' = [e \in Entries |-> [next[e] EXCEPT ![i] =
                IF e \in Removed(i) THEN Null ELSE IF e = Head THEN last ELSE @]]
  /\ prev' = [e \in Entries |-> [prev[e] EXCEPT ![i] =
                IF e \in Removed(i) THEN Null ELSE IF e = last THEN Head ELSE @]]
  /\ UNCHANGED <<mutex, ids, cap, ptr, gone, fate, owed>>

\* The copies are disposed of; the elements they were copied from keep ptr_.
DisposeCopies(t) ==
  /\ Return(t, "dispose copies")
  /\ fate' = Deleted(my[t].copies)
  /\ UNCHANGED <<mutex, ids, mem, gone, owed>>

-----------------------------------------------------------------------------
\* A thread may begin a call, end, or destroy a variable; nothing obliges it to.
Start(t) ==
  \/ \E v \in Vars, o \in Ops : Begin(t, v, o)
  \/ \E v \in Vars : Destroy(t, v)
  \/ Unlink(t)

Progress(t) ==
  \/ GetOrAllocate(t) \/ Allocate(t) \/ ReserveHead(t) \/ Copy(t) \/ Swap(t)
  \/ Found(t) \/ Dispose(t) \/ Cleanup(t) \/ AlreadyLinked(t) \/ PushBack(t) \/ Store(t)
  \/ LockAll(t) \/ Visit(t) \/ Release(t)
  \/ DisposeAll(t) \/ CopyElements(t) \/ DisposeCopies(t)

\* A failed assertion or a bad address ends the program.
Running == \A t \in Threads : pc[t] \notin Crashed

Next ==
  /\ Running
  /\ \E t \in Threads : Start(t) \/ Progress(t)

Spec == Init /\ [][Next]_vars

-----------------------------------------------------------------------------
\* The assertion of allocate: an id is given to a variable once.
AllocatedOnce == \A t \in Threads : pc[t] # "assertion failed"

\* No thread goes to the list of an id before it has a head, or to a head that
\* has been freed, but in two cases.  A thread's variable got its id from another
\* thread's first use, which has not made the head yet
\* (ThreadLocalDetail.cc:76-80); or destroy kept its reference to the head, from
\* before the mutex, while the array was replaced (ThreadLocalDetail.cc:182).
BadAddressExplained ==
  \A t \in Threads : pc[t] = "bad address" =>
    \/ \E u \in Threads : pc[u] = "reserve head" /\ InCall(u, my[t].var)
    \/ my[t].var \in gone /\ my[t].ref # cap[Head]

\* From the head on, next_ leads through every linked node and back, and prev_
\* leads the other way, although threads come, exit and are removed by destroy.
Chain(i) ==
  LET after[n \in 0..Cardinality(Threads)] ==
        IF n = 0 THEN Head ELSE next[after[n - 1]][i]
  IN  {after[n] : n \in 0..Cardinality({t \in Threads : Linked(t, i)})}

ListWhole ==
  \A i \in {n \in Ids : n < cap[Head]} :
    LET nodes == {Head} \cup {t \in Threads : Linked(t, i)} IN
      Chain(i) = nodes /\ \A e \in nodes : next[e][i] \in nodes /\ prev[next[e][i]][i] = e

\* What an accessor comes by is in an array that has not been freed, and is not
\* deleted, unless its own thread is at this moment resetting the variable.
AccessorVisitsLive ==
  Running => \A t \in Threads : pc[t] = "visit" /\ my[t].at # Head =>
    LET u == my[t].at
        i == Id(t)
    IN  /\ i < cap[u] /\ Linked(u, i)
        /\ ptr[u][i] = Null \/ fate[ptr[u][i]] = "live" \/ (pc[u] = "cleanup" /\ Id(u) = i)

\* An accessor comes by every object that was stored when it took the mutex and
\* has not been reset since.
AccessorVisitsAll == \A t \in Threads : pc[t] = "release" => owed[t] = {}

\* An object is deleted twice only if its variable was destroyed while the
\* object's thread still had it, and once more by the exit of that thread: destroy
\* deletes through a copy of the element.
DeletedOnce ==
  \A o \in Objects : fate[o] = "twice" => o[2] \in gone /\ pc[o[1]] = "exited"

\* A thread that has exited has left no object behind.
ExitLeavesNothing == \A o \in Objects : pc[o[1]] = "exited" => fate[o] # "live"

\* destroy leaves one object at most, but for threads that are exiting.
DestroyLeavesOne ==
  \A v \in gone : (\A t \in Threads : ~InCall(t, v)) =>
    Cardinality({o \in Objects : o[2] = v /\ fate[o] = "live" /\ pc[o[1]] # "dispose all"}) <= 1
=============================================================================
