--------------------------- MODULE ThreadLocalProofs ---------------------------
(***************************************************************************)
(* Thread-local variables, for any numbers of threads, variables and       *)
(* objects.                                                                *)
(*                                                                         *)
(* AInv is the invariant of the objects: where each live object is held,   *)
(* which elements are linked, what destroy has copied.  It needs no        *)
(* hypothesis, and gives that nothing is deleted twice but by destroy and  *)
(* its thread's exit, that such an exit leaves no object and that destroy  *)
(* leaves one at most.                                                     *)
(*                                                                         *)
(* HInv says that an id has the head of its list, or a call that is about  *)
(* to make it, also without any hypothesis: it explains every bad address. *)
(*                                                                         *)
(* BInv is the invariant of the arrays, the lists and the accessors.  It   *)
(* has one hypothesis, Few: the first array has room for all variables.    *)
(* reserve copies a thread's nodes outside the mutex, so once arrays are   *)
(* outgrown nodes can be lost, and no theorem claims anything of the lists *)
(* beyond that.                                                            *)
(***************************************************************************)
EXTENDS ThreadLocal, FiniteSetTheorems, TLAPS

\* Where a thread is: outside every call, in one that may not have an id yet, in
\* one that has, in the part of get and reset that stores an object, in destroy.
Outside == {"idle", "dispose all", "exited"}
Asking == {"get or allocate", "allocate"}
Storing == {"link", "store"}
InElement == {"element", "cleanup"} \cup Storing
Accessing == {"lock", "visit", "release"}
Destroying == {"destroy", "dispose copies"}
WithAnId == {"reserve head", "copy", "swap"} \cup InElement \cup Accessing \cup Destroying

\* The types. A call's fields are those of Locals.
Pointers == Objects \cup {Null}
Links == [Ids -> Entries \cup {Null}]
Fates == {"unborn", "live", "deleted", "twice"}
Fields == {"op", "var", "obj", "saved", "ref", "copies", "at"}

PcOK == pc \in [Threads -> Outside \cup Asking \cup WithAnId \cup Crashed]

MyOK ==
  /\ DOMAIN my = Threads
  /\ \A t \in Threads :
       /\ my[t] = [f \in Fields |-> my[t][f]]
       /\ my[t].var \in Vars \cup {Null}
       /\ my[t].saved.next \in Links /\ my[t].saved.prev \in Links
       /\ my[t].copies \subseteq Objects

LinksOK == next \in [Entries -> Links] /\ prev \in [Entries -> Links]

PtrOK == ptr \in [Threads -> [Ids -> Pointers]]

OthersOK ==
  /\ nextId \in Nat /\ value \in [Vars -> Nat]
  /\ cap \in [Entries -> Nat]
  /\ gone \subseteq Vars /\ fate \in [Objects -> Fates]

TypeOK == PcOK /\ MyOK /\ LinksOK /\ PtrOK /\ OthersOK

\* A call is one of a variable, and nobody but its destroyer calls a destroyed one.
Calls ==
  /\ \A t \in Threads : pc[t] \in Outside <=> my[t].var = Null
  /\ \A t \in Threads : pc[t] \in WithAnId => Id(t) # Invalid
  /\ \A t \in Threads : my[t].var \in gone => pc[t] \in Destroying
  /\ \A t \in Threads : pc[t] \in Destroying => my[t].var \in gone /\ Alone(t, my[t].var)

\* The ids in use are 1, 2, ... nextId - 1, each of one variable.
IdsGiven ==
  /\ \A v \in Vars : value[v] < nextId
  /\ \A v, w \in Vars : value[v] = value[w] /\ value[v] # Invalid => v = w
  /\ nextId = Cardinality({v \in Vars : value[v] # Invalid}) + 1

\* A thread's element points to an object of the thread and the variable.  It is live
\* unless the variable is gone or the object is being replaced.
PointsRight ==
  \A t \in Threads, i \in Ids : ptr[t][i] # Null =>
    LET o == ptr[t][i] IN
      /\ o[1] = t /\ value[o[2]] = i
      /\ fate[o] # "unborn"
      /\ fate[o] = "live" \/ o[2] \in gone \/ (pc[t] = "cleanup" /\ Id(t) = i)

\* What a call that stores an object has in hand.
InHand ==
  \A t \in Threads :
    /\ pc[t] \in Storing =>
         /\ my[t].obj \in Objects /\ my[t].obj[1] = t /\ my[t].obj[2] = my[t].var
         /\ fate[my[t].obj] = "live" /\ ptr[t][Id(t)] = Null
    /\ pc[t] = "cleanup" /\ ptr[t][Id(t)] # Null => fate[ptr[t][Id(t)]] # "live"
    /\ pc[t] = "exited" => \A i \in Ids : ptr[t][i] = Null

\* A live object is in its thread's element, or about to be stored there.
LiveIsHeld ==
  \A o \in Objects : fate[o] = "live" =>
    \/ value[o[2]] \in Ids /\ ptr[o[1]][value[o[2]]] = o
    \/ pc[o[1]] \in Storing /\ my[o[1]].obj = o

\* destroy has taken the nodes of v.
Emptied(v) == v \in gone /\ \A u \in Threads : InCall(u, v) => pc[u] = "dispose copies"

\* An element with an object is in its list, until its thread exits or the
\* variable's list is emptied; the copy reserve has made of the nodes says so too.
StoredIsLinked ==
  \A t \in Threads :
    /\ \A i \in Ids : ptr[t][i] # Null /\ pc[t] # "dispose all" =>
         /\ Linked(t, i) \/ Emptied(ptr[t][i][2])
         /\ pc[t] = "swap" => my[t].saved.next[i] # Null \/ Emptied(ptr[t][i][2])
    /\ pc[t] = "store" => Linked(t, Id(t))

\* The copies are of elements of the variable that is destroyed.
CopiesRight ==
  \A t \in Threads : pc[t] = "dispose copies" => \A o \in my[t].copies : o[2] = my[t].var

\* What the elements of a variable that is destroyed point to is live, and what destroy
\* has copied of them too, unless the thread it belongs to has exited.
CopiesAlive ==
  \A t \in Threads :
    /\ pc[t] = "destroy" => \A u \in Threads : ptr[u][Id(t)] # Null => fate[ptr[u][Id(t)]] = "live"
    /\ pc[t] = "dispose copies" => \A o \in my[t].copies : fate[o] = "live" \/ pc[o[1]] = "exited"

\* The objects of v that destroy has left, or is about to leave.
Left(v) ==
  {o \in Objects : /\ o[2] = v /\ fate[o] = "live" /\ pc[o[1]] # "dispose all"
                   /\ \A t \in Threads : InCall(t, v) => o \notin my[t].copies}

OneLeft == \A v \in Vars : Emptied(v) => \A o1, o2 \in Left(v) : o1 = o2

Objectwise == PointsRight /\ InHand /\ LiveIsHeld /\ StoredIsLinked /\ CopiesRight

\* The invariant of the objects: all of it until a crash, its conclusions always.
AInv ==
  /\ Running => TypeOK /\ Calls /\ IdsGiven /\ Objectwise /\ CopiesAlive
  /\ OneLeft /\ DeletedOnce /\ ExitLeavesNothing

\* The arrays that hold the first id hold the id of every variable.
Few == Cardinality(Vars) < NewCapacity(1)

\* The list of the variable has its head.
Ready(v) == value[v] # Invalid /\ value[v] < cap[Head]

\* An id comes with the head of its list, or a call is on its way to make it.
HeadComes ==
  \A v \in Vars : value[v] = Invalid \/ Ready(v)
                   \/ \E t \in Threads : InCall(t, v) /\ pc[t] = "reserve head"

\* The invariant of the ids and the heads.
HInv == (Running => HeadComes) /\ BadAddressExplained

\* Who is in a list, or about to empty it, has found its head.
HeadFound == \A t \in Threads : pc[t] \in {"visit", "destroy"} => Ready(my[t].var)

\* An array has room for every id or is not there yet, and then links nothing; what a
\* call knows of its array and of the heads' still holds.
Arrays ==
  /\ \A e \in Entries : cap[e] = 0 \/ cap[e] > Cardinality(Vars)
  /\ \A t \in Threads :
     /\ pc[t] = "destroy" => my[t].ref = cap[Head]
     /\ cap[t] = 0 => next[t] = NoNodes
     /\ pc[t] \in {"copy", "swap"} => cap[t] = 0
     /\ pc[t] = "swap" => my[t].saved.next = NoNodes
     /\ pc[t] \in InElement => cap[t] # 0
     /\ pc[t] \in {"dispose all", "exited"} => next[t] = NoNodes
     /\ \A i \in Ids : Linked(t, i) => i <= Cardinality(Vars) /\ i < cap[Head]

\* The nodes N with next n and prev p: n and p are each other's inverse, and from the
\* head n leads to every node.
Nodes(i) == {e \in Entries : next[e][i] # Null}
Column(links, i) == [e \in Entries |-> links[e][i]]
IsRing(N, n, p) ==
  /\ Head \in N
  /\ \A e \in N : n[e] \in N /\ p[e] \in N /\ p[n[e]] = e /\ n[p[e]] = e
  /\ \A S \in SUBSET N : Head \in S /\ (\A e \in S : n[e] \in S) => S = N
Ring(i) == IsRing(Nodes(i), Column(next, i), Column(prev, i))
Rings == \A i \in Ids : i < cap[Head] => Ring(i)

\* What an accessor still owes lies between its iterator and the head.
Ahead(t) ==
  LET i == Id(t) IN
  \A S \in SUBSET Nodes(i) :
    next[my[t].at][i] \in S /\ (\A e \in S \ {Head} : next[e][i] \in S) => owed[t] \subseteq S
\* Only who has the mutex is under way in a list, and it is at a node of it.
Access ==
  /\ owed \in [Threads -> SUBSET Threads]
  /\ \A t \in Threads :
       /\ pc[t] \in {"visit", "release"} => mutex = t
       /\ pc[t] \notin {"visit", "release"} => my[t].at = Head
       /\ pc[t] = "visit" => my[t].at \in Nodes(Id(t)) /\ Ahead(t)

\* The invariant of the arrays, the lists and the accessors.
BInv == (Running => HeadFound /\ Arrays /\ Access) /\ Rings /\ AccessorVisitsAll

-----------------------------------------------------------------------------
\* The locals of a call.

\* A thread's locals are those of its call.
LEMMA LocalsAre ==
  ASSUME NEW o, NEW v
  PROVE  LET l == Locals(o, v) IN
           /\ l = [f \in Fields |-> l[f]]
           /\ l.op = o /\ l.var = v /\ l.obj = Null /\ l.ref = 0 /\ l.copies = {} /\ l.at = Head
           /\ l.saved.next = NoNodes /\ l.saved.prev = NoNodes
BY DEF Locals, Fields

\* Assigning one local of a thread leaves its other locals and the other threads' alone.
LEMMA SetObj ==
  ASSUME MyOK, NEW t \in Threads, NEW o, my' = [my EXCEPT ![t].obj = o]
  PROVE  /\ DOMAIN my' = Threads
         /\ \A u \in Threads \ {t} : my'[u] = my[u]
         /\ my'[t] = [f \in Fields |-> my'[t][f]]
         /\ my'[t].op = my[t].op /\ my'[t].var = my[t].var /\ my'[t].obj = o /\ my'[t].saved = my[t].saved
         /\ my'[t].ref = my[t].ref /\ my'[t].copies = my[t].copies /\ my'[t].at = my[t].at
BY DEF MyOK, Fields

\* Destroy's locals: the variable and the array of heads it took a reference to.
LEMMA SetRef ==
  ASSUME MyOK, NEW t \in Threads, NEW v, NEW r, my' = [my EXCEPT ![t] = [Locals("destroy", v) EXCEPT !.ref = r]]
  PROVE  /\ DOMAIN my' = Threads
         /\ \A u \in Threads \ {t} : my'[u] = my[u]
         /\ my'[t] = [f \in Fields |-> my'[t][f]]
         /\ my'[t].op = "destroy" /\ my'[t].var = v /\ my'[t].obj = Null /\ my'[t].saved.next = NoNodes
         /\ my'[t].ref = r /\ my'[t].copies = {} /\ my'[t].at = Head
<1>1. my'[t] = [Locals("destroy", v) EXCEPT !.ref = r]
  BY DEF MyOK
<1>2. QED
  BY <1>1 DEF MyOK, Fields, Locals

-----------------------------------------------------------------------------
\* Steps of a call.

\* A call that has its id goes on to the mutex, to its array or to its element.
LEMMA WithIdIn ==
  ASSUME NEW t \in Threads, NEW o, NEW i \in Nat, OthersOK
  PROVE  WithId(t, o, i) \in {"lock", "copy", "element"}
BY DEF WithId, OthersOK, Entries

\* t's call is the only one that a step moves.
Elsewhere(t) == \A u \in Threads \ {t} : pc'[u] = pc[u] /\ my'[u] = my[u]

\* Go(t, a, b) moves t from a to b, and nobody else.
LEMMA GoMoves ==
  ASSUME PcOK, NEW t \in Threads, NEW a, NEW b, Go(t, a, b)
  PROVE  pc[t] = a /\ pc'[t] = b /\ \A u \in Threads \ {t} : pc'[u] = pc[u]
BY DEF PcOK, Go

\* A move to a place of the program leaves every thread at one.
LEMMA GoOK ==
  ASSUME PcOK, NEW t \in Threads, NEW a, NEW b \in Outside \cup Asking \cup WithAnId \cup Crashed, Go(t, a, b)
  PROVE  PcOK'
BY DEF PcOK, Go

\* A call that returns leaves its thread idle, without a variable, nodes in hand or copies.
LEMMA ReturnMoves ==
  ASSUME PcOK, MyOK, NEW t \in Threads, NEW a, Return(t, a)
  PROVE  /\ pc[t] = a /\ pc'[t] = "idle" /\ Elsewhere(t)
         /\ my'[t].var = Null /\ my'[t].saved.next = NoNodes /\ my'[t].copies = {}
<1>1. Go(t, a, "idle") /\ my' = [my EXCEPT ![t] = Locals("none", Null)]
  BY DEF Return
<1>2. my'[t] = Locals("none", Null) /\ \A u \in Threads \ {t} : my'[u] = my[u]
  BY <1>1 DEF MyOK
<1>3. QED
  BY <1>1, <1>2, GoMoves, LocalsAre DEF Elsewhere

\* An array without nodes is an array of links.
LEMMA NoNodesLinks == NoNodes \in Links
BY DEF NoNodes, Links

\* A thread's locals may be set up for any call of a variable.
LEMMA MySetLocals ==
  ASSUME MyOK, NEW t \in Threads, NEW o, NEW v \in Vars \cup {Null}, my' = [my EXCEPT ![t] = Locals(o, v)]
  PROVE  MyOK'
<1>1. my'[t] = Locals(o, v) /\ (\A u \in Threads \ {t} : my'[u] = my[u]) /\ DOMAIN my' = Threads
  BY DEF MyOK
<1> DEFINE l == Locals(o, v)
<1>2. l = [f \in Fields |-> l[f]] /\ l.var = v /\ l.copies = {} /\ l.saved.next = NoNodes /\ l.saved.prev = NoNodes
  BY LocalsAre
<1> HIDE DEF l
<1>3. \A u \in Threads :
       /\ my'[u] = [f \in Fields |-> my'[u][f]]
       /\ my'[u].var \in Vars \cup {Null}
       /\ my'[u].saved.next \in Links /\ my'[u].saved.prev \in Links
       /\ my'[u].copies \subseteq Objects
  <2> SUFFICES ASSUME NEW u \in Threads PROVE 
       /\ my'[u] = [f \in Fields |-> my'[u][f]]
       /\ my'[u].var \in Vars \cup {Null}
       /\ my'[u].saved.next \in Links /\ my'[u].saved.prev \in Links
       /\ my'[u].copies \subseteq Objects
    OBVIOUS
  <2>1. CASE u = t
    BY <1>1, <1>2, <2>1, NoNodesLinks DEF l
  <2>2. CASE u # t
    BY <1>1, <2>2 DEF MyOK
  <2>3. QED
    BY <2>1, <2>2
<1>4. QED
  BY <1>1, <1>3 DEF MyOK

\* ... which is where a thread may be.
LEMMA ReturnOK ==
  ASSUME PcOK, MyOK, NEW t \in Threads, NEW a, Return(t, a)
  PROVE  PcOK' /\ MyOK'
BY GoOK, MySetLocals DEF Return, Outside

-----------------------------------------------------------------------------
\* Ids and places.

\* There are no more ids in use than variables.
LEMMA FewIds ==
  ASSUME IdsGiven, OthersOK
  PROVE  /\ Cardinality(Vars) \in Nat /\ nextId \in 1..(Cardinality(Vars) + 1)
         /\ \A v \in Vars : value[v] \in 0..Cardinality(Vars)
         /\ \A v \in Vars : value[v] # Invalid => value[v] \in Ids
<1> DEFINE G == {v \in Vars : value[v] # Invalid}
<1>1. IsFiniteSet(Vars) /\ G \subseteq Vars
  BY ThreadLocalAssumption
<1> HIDE DEF G
<1>2. Cardinality(Vars) \in Nat /\ Cardinality(G) \in Nat /\ Cardinality(G) <= Cardinality(Vars)
  BY <1>1, FS_Subset, FS_CardinalityType
<1>3. nextId = Cardinality(G) + 1
  BY DEF IdsGiven, G
<1>4. QED
  BY <1>2, <1>3 DEF IdsGiven, OthersOK, Ids, Invalid

\* A call has a variable, and an id from the moment it has asked for one.
LEMMA CallHas ==
  ASSUME TypeOK, Calls, IdsGiven, NEW t \in Threads, pc[t] \in Asking \cup WithAnId
  PROVE  /\ my[t].var \in Vars /\ Id(t) \in 0..Cardinality(Vars) /\ Id(t) \in Nat
         /\ pc[t] \in WithAnId => Id(t) \in Ids
<1>1. pc[t] \notin Outside
  BY DEF Asking, WithAnId, Outside, InElement, Storing, Accessing, Destroying
<1>2. my[t].var \in Vars
  BY <1>1 DEF Calls, TypeOK, MyOK
<1>3. Id(t) \in 0..Cardinality(Vars) /\ (Id(t) # Invalid => Id(t) \in Ids) /\ Cardinality(Vars) \in Nat
  BY <1>2, FewIds DEF Id, TypeOK
<1>4. QED
  BY <1>2, <1>3 DEF Calls

\* A new array is long enough for the id it was made for.
LEMMA CapacityGrows ==
  ASSUME NEW i \in Nat
  PROVE  NewCapacity(i) \in Nat /\ i < NewCapacity(i)
BY ThreadLocalAssumption DEF NewCapacity

\* ... and the smallest is the one made for the first id.
LEMMA CapacityIsMonotone ==
  ASSUME NEW i \in Nat, i >= 1
  PROVE  NewCapacity(1) <= NewCapacity(i) /\ NewCapacity(1) \in Nat
BY ThreadLocalAssumption DEF NewCapacity

\* All places of the program.
PCs == Outside \cup Asking \cup WithAnId \cup Crashed

\* Each step of a call goes to a step of a call.
LEMMA PcOKKept ==
  ASSUME TypeOK, Calls, IdsGiven, NEW t \in Threads, Start(t) \/ Progress(t)
  PROVE  PcOK'
<1> USE DEF TypeOK
<1>1. ASSUME NEW a, NEW b \in PCs, Go(t, a, b) PROVE PcOK'
  BY <1>1, GoOK DEF PCs
<1>2. ASSUME NEW o, NEW i \in Nat PROVE WithId(t, o, i) \in PCs
  BY <1>2, WithIdIn DEF PCs, WithAnId, InElement, Accessing
<1>3. ASSUME NEW v \in Vars, NEW o \in Ops, Begin(t, v, o) PROVE PcOK'
  <2>1. "get or allocate" \in PCs /\ value[v] \in Nat
    BY DEF PCs, Asking, OthersOK
  <2>2. QED
    BY <1>1, <1>2, <1>3, <2>1 DEF Begin
<1>4. ASSUME NEW v \in Vars, Destroy(t, v) PROVE PcOK'
  BY <1>1, <1>4 DEF Destroy, PCs, WithAnId, Destroying, PcOK
<1>5. CASE Unlink(t) \/ DisposeAll(t)
  BY <1>1, <1>5 DEF Unlink, DisposeAll, PCs, Outside
<1>6. CASE Allocate(t)
  BY <1>1, <1>6 DEF Allocate, PCs, WithAnId, Crashed
<1>7. CASE GetOrAllocate(t)
  <2>1. pc[t] = "get or allocate" /\ "allocate" \in PCs
    BY <1>7, GoMoves DEF GetOrAllocate, PCs, Asking
  <2>2. Id(t) \in Nat
    BY <2>1, CallHas DEF Asking
  <2>3. QED
    BY <1>1, <1>2, <1>7, <2>1, <2>2 DEF GetOrAllocate
<1>8. CASE ReserveHead(t)
  <2>1. pc[t] = "reserve head"
    BY <1>8, GoMoves DEF ReserveHead
  <2>2. Id(t) \in Nat
    BY <2>1, CallHas DEF WithAnId
  <2>3. QED
    BY <1>1, <1>2, <1>8, <2>2 DEF ReserveHead
<1>9. CASE Copy(t) \/ Swap(t)
  BY <1>1, <1>9 DEF Copy, Swap, PCs, WithAnId, InElement
<1>10. CASE Found(t) \/ Store(t) \/ Release(t) \/ DisposeCopies(t)
  BY <1>10, ReturnOK DEF Found, Store, Release, DisposeCopies
<1>11. CASE Dispose(t) \/ AlreadyLinked(t)
  BY <1>1, <1>11 DEF Dispose, AlreadyLinked, PCs, WithAnId, InElement, Storing
<1>12. CASE Cleanup(t)
  <2>1. Return(t, "cleanup") \/ Go(t, "cleanup", "link")
    BY <1>12 DEF Cleanup
  <2>2. QED
    BY <1>1, <2>1, ReturnOK DEF PCs, WithAnId, InElement, Storing
<1>13. CASE PushBack(t)
  BY <1>1, <1>13 DEF PushBack, PCs, WithAnId, InElement, Storing, Crashed
<1>14. CASE LockAll(t) \/ CopyElements(t)
  BY <1>1, <1>14 DEF LockAll, CopyElements, PCs, WithAnId, Accessing, Destroying, Crashed
<1>15. CASE Visit(t)
  BY <1>1, <1>15 DEF Visit, PCs, WithAnId, Accessing
<1>16. QED
  BY <1>3, <1>4, <1>5, <1>6, <1>7, <1>8, <1>9, <1>10, <1>11, <1>12, <1>13, <1>14, <1>15
     DEF Start, Progress

-----------------------------------------------------------------------------
\* The types are kept.

\* The same for the nodes that reserve saves, ...
LEMMA SetSaved ==
  ASSUME MyOK, NEW t \in Threads, NEW s, my' = [my EXCEPT ![t].saved = s]
  PROVE  /\ DOMAIN my' = Threads
         /\ \A u \in Threads \ {t} : my'[u] = my[u]
         /\ my'[t] = [f \in Fields |-> my'[t][f]]
         /\ my'[t].op = my[t].op /\ my'[t].var = my[t].var /\ my'[t].obj = my[t].obj /\ my'[t].saved = s
         /\ my'[t].ref = my[t].ref /\ my'[t].copies = my[t].copies /\ my'[t].at = my[t].at
BY DEF MyOK, Fields

\* ... for the accessor's iterator, ...
LEMMA SetAt ==
  ASSUME MyOK, NEW t \in Threads, NEW e, my' = [my EXCEPT ![t].at = e]
  PROVE  /\ DOMAIN my' = Threads
         /\ \A u \in Threads \ {t} : my'[u] = my[u]
         /\ my'[t] = [f \in Fields |-> my'[t][f]]
         /\ my'[t].op = my[t].op /\ my'[t].var = my[t].var /\ my'[t].obj = my[t].obj /\ my'[t].saved = my[t].saved
         /\ my'[t].ref = my[t].ref /\ my'[t].copies = my[t].copies /\ my'[t].at = e
BY DEF MyOK, Fields

\* ... for destroy's copies, ...
LEMMA SetCopies ==
  ASSUME MyOK, NEW t \in Threads, NEW c, my' = [my EXCEPT ![t].copies = c]
  PROVE  /\ DOMAIN my' = Threads
         /\ \A u \in Threads \ {t} : my'[u] = my[u]
         /\ my'[t] = [f \in Fields |-> my'[t][f]]
         /\ my'[t].op = my[t].op /\ my'[t].var = my[t].var /\ my'[t].obj = my[t].obj /\ my'[t].saved = my[t].saved
         /\ my'[t].ref = my[t].ref /\ my'[t].copies = c /\ my'[t].at = my[t].at
BY DEF MyOK, Fields

\* ... and for all locals at the beginning of a call.
LEMMA SetLocals ==
  ASSUME MyOK, NEW t \in Threads, NEW o, NEW v, my' = [my EXCEPT ![t] = Locals(o, v)]
  PROVE  /\ DOMAIN my' = Threads
         /\ \A u \in Threads \ {t} : my'[u] = my[u]
         /\ my'[t] = [f \in Fields |-> my'[t][f]]
         /\ my'[t].op = o /\ my'[t].var = v /\ my'[t].obj = Null /\ my'[t].saved.next = NoNodes
         /\ my'[t].saved.prev = NoNodes
         /\ my'[t].ref = 0 /\ my'[t].copies = {} /\ my'[t].at = Head
<1>1. my'[t] = Locals(o, v)
  BY DEF MyOK
<1>2. QED
  BY <1>1, LocalsAre DEF MyOK

\* What destroy copies of an element is an object.
LEMMA PointeeIn ==
  ASSUME PtrOK, NEW u \in Threads, NEW i \in Ids
  PROVE  Pointee(u, i) \subseteq Objects
BY DEF PtrOK, Pointee, Pointers

\* A call keeps to its locals.
LEMMA MyOKKept ==
  ASSUME TypeOK, Calls, IdsGiven, NEW t \in Threads, Start(t) \/ Progress(t)
  PROVE  MyOK' /\ Elsewhere(t)
<1> USE DEF TypeOK
<1> DEFINE Good(x) ==
       /\ x = [f \in Fields |-> x[f]]
       /\ x.var \in Vars \cup {Null}
       /\ x.saved.next \in Links /\ x.saved.prev \in Links
       /\ x.copies \subseteq Objects
<1>1. \A u \in Threads : Good(my[u])
  BY DEF MyOK
<1>2. (\A u \in Threads \ {t} : pc'[u] = pc[u])
  BY GoMoves DEF Start, Progress, Begin, Destroy, Unlink, GetOrAllocate, Allocate, ReserveHead, Copy, Swap,
       Found, Dispose, Cleanup, AlreadyLinked, PushBack, Store, LockAll, Visit, Release,
       DisposeAll, CopyElements, DisposeCopies, Return
<1>3. ASSUME DOMAIN my' = Threads, Good(my'[t]), \A u \in Threads \ {t} : my'[u] = my[u]
      PROVE  MyOK' /\ Elsewhere(t)
  <2>1. \A u \in Threads : Good(my'[u])
    BY <1>1, <1>3
  <2>2. QED
    BY <1>2, <1>3, <2>1 DEF MyOK, Elsewhere
<1>4. ASSUME NEW a, Return(t, a) PROVE MyOK' /\ Elsewhere(t)
  BY <1>4, <1>2, ReturnOK, ReturnMoves DEF Elsewhere
<1>5. ASSUME UNCHANGED my PROVE MyOK' /\ Elsewhere(t)
  BY <1>2, <1>5 DEF MyOK, Elsewhere
<1>6. ASSUME NEW v \in Vars, NEW o \in Ops, Begin(t, v, o) PROVE MyOK' /\ Elsewhere(t)
  <2>1. my' = [my EXCEPT ![t] = Locals(o, v)] /\ v \in Vars \cup {Null}
    BY <1>6 DEF Begin
  <2>2. DOMAIN my' = Threads /\ \A u \in Threads \ {t} : my'[u] = my[u]
    BY <2>1, SetLocals
  <2>3. MyOK'
    BY <2>1, MySetLocals
  <2>4. QED
    BY <1>2, <2>2, <2>3 DEF Elsewhere
<1>7. ASSUME NEW v \in Vars, Destroy(t, v) PROVE MyOK' /\ Elsewhere(t)
  <2>1. CASE UNCHANGED my
    BY <2>1, <1>5
  <2>2. CASE my' = [my EXCEPT ![t] = [Locals("destroy", v) EXCEPT !.ref = cap[Head]]]
    <3>1. my'[t].saved.prev = NoNodes
      <4>1. my'[t] = [Locals("destroy", v) EXCEPT !.ref = cap[Head]]
        BY <2>2 DEF MyOK
      <4>2. QED
        BY <4>1 DEF Locals
    <3>2. /\ DOMAIN my' = Threads
          /\ \A u \in Threads \ {t} : my'[u] = my[u]
          /\ my'[t] = [f \in Fields |-> my'[t][f]]
          /\ my'[t].var = v /\ my'[t].saved.next = NoNodes /\ my'[t].copies = {}
      BY <2>2, SetRef
    <3>3. Good(my'[t])
      BY <3>1, <3>2, NoNodesLinks
    <3>4. QED
      BY <1>3, <3>2, <3>3
  <2>3. QED
    BY <1>7, <2>1, <2>2 DEF Destroy
<1>8. CASE Copy(t)
  <2>1. next[t] \in Links /\ prev[t] \in Links
    BY DEF LinksOK, Entries
  <2> DEFINE s == [next |-> next[t], prev |-> prev[t]]
  <2>2. s.next \in Links /\ s.prev \in Links /\ my' = [my EXCEPT ![t].saved = s]
    BY <1>8, <2>1 DEF Copy
  <2> HIDE DEF s
  <2>3. /\ DOMAIN my' = Threads
        /\ \A u \in Threads \ {t} : my'[u] = my[u]
        /\ my'[t] = [f \in Fields |-> my'[t][f]]
        /\ my'[t].var = my[t].var /\ my'[t].saved = s /\ my'[t].copies = my[t].copies
    BY <2>2, SetSaved
  <2>4. Good(my'[t])
    BY <1>1, <2>2, <2>3
  <2>5. QED
    BY <1>3, <2>3, <2>4
<1>9. CASE Cleanup(t)
  <2>1. CASE Return(t, "cleanup")
    BY <2>1, <1>4
  <2>2. CASE \E o \in Fresh(t, my[t].var) : my' = [my EXCEPT ![t].obj = o]
    <3>1. PICK o \in Fresh(t, my[t].var) : my' = [my EXCEPT ![t].obj = o]
      BY <2>2
    <3>2. /\ DOMAIN my' = Threads
          /\ \A u \in Threads \ {t} : my'[u] = my[u]
          /\ my'[t] = [f \in Fields |-> my'[t][f]]
          /\ my'[t].var = my[t].var /\ my'[t].saved = my[t].saved /\ my'[t].copies = my[t].copies
      BY <3>1, SetObj
    <3>3. Good(my'[t])
      BY <1>1, <3>2
    <3>4. QED
      BY <1>3, <3>2, <3>3
  <2>3. QED
    BY <1>9, <2>1, <2>2 DEF Cleanup
<1>10. CASE Visit(t)
  <2>1. PICK e : my' = [my EXCEPT ![t].at = e]
    BY <1>10 DEF Visit
  <2>2. /\ DOMAIN my' = Threads
        /\ \A u \in Threads \ {t} : my'[u] = my[u]
        /\ my'[t] = [f \in Fields |-> my'[t][f]]
        /\ my'[t].var = my[t].var /\ my'[t].saved = my[t].saved /\ my'[t].copies = my[t].copies
    BY <2>1, SetAt
  <2>3. Good(my'[t])
    BY <1>1, <2>2
  <2>4. QED
    BY <1>3, <2>2, <2>3
<1>11. CASE CopyElements(t)
  <2>1. pc[t] = "destroy"
    BY <1>11, GoMoves DEF CopyElements
  <2>2. Id(t) \in Ids
    BY <2>1, CallHas DEF WithAnId, Destroying
  <2> DEFINE c == UNION {Pointee(u, Id(t)) : u \in Removed(Id(t))}
  <2>3. c \subseteq Objects
    BY <2>2, PointeeIn DEF Removed
  <2>4. my' = [my EXCEPT ![t].copies = c]
    BY <1>11 DEF CopyElements
  <2> HIDE DEF c
  <2>5. /\ DOMAIN my' = Threads
        /\ \A u \in Threads \ {t} : my'[u] = my[u]
        /\ my'[t] = [f \in Fields |-> my'[t][f]]
        /\ my'[t].var = my[t].var /\ my'[t].saved = my[t].saved /\ my'[t].copies = c
    BY <2>4, SetCopies
  <2>6. Good(my'[t])
    BY <1>1, <2>3, <2>5
  <2>7. QED
    BY <1>3, <2>5, <2>6
<1>12. CASE Found(t) \/ Store(t) \/ Release(t) \/ DisposeCopies(t)
  BY <1>4, <1>12 DEF Found, Store, Release, DisposeCopies
<1>13. CASE GetOrAllocate(t) \/ Allocate(t) \/ ReserveHead(t) \/ Swap(t) \/ Dispose(t) \/ AlreadyLinked(t)
            \/ PushBack(t) \/ LockAll(t) \/ DisposeAll(t) \/ Unlink(t)
  BY <1>5, <1>13 DEF GetOrAllocate, Allocate, ReserveHead, Swap, Dispose, AlreadyLinked, PushBack, LockAll,
       DisposeAll, Unlink
<1>14. QED
  BY <1>6, <1>7, <1>8, <1>9, <1>10, <1>11, <1>12, <1>13 DEF Start, Progress

\* Changing the nodes of one entry, ...
LEMMA EntryLinks ==
  ASSUME NEW L \in [Entries -> Links], NEW e \in Entries, NEW l \in Links
  PROVE  [L EXCEPT ![e] = l] \in [Entries -> Links]
OBVIOUS

\* ... or one node, ...
LEMMA NodeLink ==
  ASSUME NEW L \in [Entries -> Links], NEW e, NEW i, NEW x \in Entries \cup {Null}
  PROVE  [L EXCEPT ![e][i] = x] \in [Entries -> Links]
<1>1. CASE e \in Entries
  <2>1. L[e] \in Links
    BY <1>1
  <2>2. [L[e] EXCEPT ![i] = x] \in Links
    BY <2>1 DEF Links
  <2>3. [L EXCEPT ![e][i] = x] = [L EXCEPT ![e] = [L[e] EXCEPT ![i] = x]]
    BY <1>1
  <2>4. QED
    BY <1>1, <2>2, <2>3, EntryLinks
<1>2. CASE e \notin Entries
  BY <1>2
<1>3. QED
  BY <1>1, <1>2

\* ... or unlinking a thread's nodes, as its exit does.
LEMMA ErasedLinks ==
  ASSUME NEW L \in [Entries -> Links], NEW M \in [Entries -> Links], NEW t \in Threads, NEW S
  PROVE  Erased(L, M, t, S) \in [Entries -> Links]
<1>1. \A e \in Entries, i \in Ids : L[e][i] \in Entries \cup {Null} /\ L[t][i] \in Entries \cup {Null}
  BY DEF Links, Entries
<1>2. QED
  BY <1>1 DEF Erased, Links

\* The nodes' types are kept by every step.
LEMMA LinksOKKept ==
  ASSUME TypeOK, Calls, IdsGiven, NEW t \in Threads, Start(t) \/ Progress(t)
  PROVE  LinksOK'
<1> USE DEF TypeOK
<1>1. CASE ReserveHead(t)
  <2> DEFINE new == IF Id(t) < cap[Head] THEN {} ELSE {i \in Ids : i >= cap[Head]}
             heads(links) == [i \in Ids |-> IF i \in new THEN Head ELSE links[i]]
  <2>1. next[Head] \in Links /\ prev[Head] \in Links /\ Head \in Entries
    BY DEF LinksOK, Entries
  <2>2. heads(next[Head]) \in Links /\ heads(prev[Head]) \in Links
    <3> HIDE DEF new
    <3>1. QED
      BY <2>1 DEF Links
  <2>3. next' = [next EXCEPT ![Head] = heads(next[Head])] /\ prev' = [prev EXCEPT ![Head] = heads(prev[Head])]
    BY <1>1 DEF ReserveHead
  <2> HIDE DEF heads, new
  <2>4. QED
    BY <2>1, <2>2, <2>3, EntryLinks DEF LinksOK
<1>2. CASE Swap(t)
  <2>1. my[t].saved.next \in Links /\ my[t].saved.prev \in Links /\ t \in Entries
    BY DEF MyOK, Entries
  <2>2. next' = [next EXCEPT ![t] = my[t].saved.next] /\ prev' = [prev EXCEPT ![t] = my[t].saved.prev]
    BY <1>2 DEF Swap
  <2>3. QED
    BY <2>1, <2>2, EntryLinks DEF LinksOK
<1>3. CASE PushBack(t)
  <2>1. CASE UNCHANGED <<next, prev>>
    BY <2>1 DEF LinksOK
  <2>2. CASE /\ next' = [next EXCEPT ![t][Id(t)] = Head, ![prev[Head][Id(t)]][Id(t)] = t]
             /\ prev' = [prev EXCEPT ![t][Id(t)] = prev[Head][Id(t)], ![Head][Id(t)] = t]
    <3>1. pc[t] = "link"
      BY <1>3, GoMoves DEF PushBack
    <3>2. Id(t) \in Ids
      BY <3>1, CallHas DEF WithAnId, InElement, Storing
    <3>3. prev[Head][Id(t)] \in Entries \cup {Null} /\ t \in Entries /\ Head \in Entries
      BY <3>2 DEF LinksOK, Links, Entries
    <3> DEFINE i == Id(t)
               l == prev[Head][i]
               N == [next EXCEPT ![t][i] = Head]
               P == [prev EXCEPT ![t][i] = l]
    <3>4. N \in [Entries -> Links] /\ P \in [Entries -> Links]
      <4> HIDE DEF i
      <4>1. next \in [Entries -> Links] /\ prev \in [Entries -> Links] /\ l \in Entries \cup {Null}
        BY <3>3 DEF LinksOK, i
      <4> HIDE DEF l
      <4>2. QED
        BY <4>1, <3>3, NodeLink
    <3>5. next' = [N EXCEPT ![l][i] = t] /\ prev' = [P EXCEPT ![Head][i] = t]
      BY <2>2
    <3> HIDE DEF N, P, i, l
    <3>6. QED
      BY <3>3, <3>4, <3>5, NodeLink DEF LinksOK
  <2>3. QED
    BY <1>3, <2>1, <2>2 DEF PushBack
<1>4. CASE Unlink(t)
  BY <1>4, ErasedLinks DEF Unlink, LinksOK
<1>5. CASE CopyElements(t)
  <2>1. pc[t] = "destroy"
    BY <1>5, GoMoves DEF CopyElements
  <2>2. Id(t) \in Ids
    BY <2>1, CallHas DEF WithAnId, Destroying
  <2>3. PICK i \in Ids : i = Id(t)
    BY <2>2
  <2> DEFINE last == prev[Head][i]
  <2>4. last \in Entries \cup {Null} /\ Head \in Entries
    BY <2>3 DEF LinksOK, Links, Entries
  <2>5. \A e \in Entries : next[e] \in Links /\ prev[e] \in Links
    BY DEF LinksOK
  <2>6. /\ next' = [e \in Entries |-> [next[e] EXCEPT ![i] =
                IF e \in Removed(i) THEN Null ELSE IF e = Head THEN last ELSE @]]
        /\ prev' = [e \in Entries |-> [prev[e] EXCEPT ![i] =
                IF e \in Removed(i) THEN Null ELSE IF e = last THEN Head ELSE @]]
    BY <1>5, <2>3 DEF CopyElements
  <2>7. \A e \in Entries : next'[e] \in Links /\ prev'[e] \in Links
    <3> SUFFICES ASSUME NEW e \in Entries PROVE next'[e] \in Links /\ prev'[e] \in Links
      OBVIOUS
    <3>1. PICK x, y : next'[e] = [next[e] EXCEPT ![i] = x] /\ prev'[e] = [prev[e] EXCEPT ![i] = y]
                   /\ x \in Entries \cup {Null, next[e][i]} /\ y \in Entries \cup {Null, prev[e][i]}
      BY <2>4, <2>6
    <3>2. x \in Entries \cup {Null} /\ y \in Entries \cup {Null}
      BY <2>5, <3>1 DEF Links
    <3>3. QED
      BY <2>5, <3>1, <3>2 DEF Links
  <2>8. QED
    BY <2>6, <2>7 DEF LinksOK
<1>6. CASE UNCHANGED <<next, prev>>
  BY <1>6 DEF LinksOK
<1>7. QED
  BY <1>1, <1>2, <1>3, <1>4, <1>5, <1>6 DEF Start, Progress, Begin, Destroy, GetOrAllocate, Allocate, Copy,
       Found, Dispose, Cleanup, AlreadyLinked, Store, LockAll, Visit, Release,
       DisposeAll, DisposeCopies, mem

\* Deleting some objects ends those and no others; only an object that is not live is deleted twice.
LEMMA DeletedFates ==
  ASSUME fate \in [Objects -> Fates], NEW p
  PROVE  Deleted(p) \in [Objects -> Fates]
         /\ \A o \in Objects : /\ Deleted(p)[o] = "live" <=> fate[o] = "live" /\ o \notin p
                               /\ o \notin p => Deleted(p)[o] = fate[o]
                               /\ o \in p => Deleted(p)[o] \in {"deleted", "twice"}
                               /\ Deleted(p)[o] = "twice" => fate[o] = "twice" \/ (o \in p /\ fate[o] # "live")
<1> DEFINE d == Deleted(p)
<1>1. DOMAIN d = Objects /\ d = [o \in Objects |-> d[o]]
  BY DEF Deleted
<1>2. ASSUME NEW o \in Objects
      PROVE  /\ o \notin p => d[o] = fate[o]
             /\ o \in p => d[o] = IF fate[o] = "live" THEN "deleted" ELSE "twice"
  <2>1. CASE o \notin p
    BY <2>1 DEF Deleted
  <2>2. CASE o \in p /\ fate[o] = "live"
    BY <2>2 DEF Deleted
  <2>3. CASE o \in p /\ fate[o] # "live"
    BY <2>3 DEF Deleted
  <2>4. QED
    BY <2>1, <2>2, <2>3
<1>3. \A o \in Objects : fate[o] \in Fates
  OBVIOUS
<1> HIDE DEF d
<1>4. ASSUME NEW o \in Objects
      PROVE  /\ d[o] \in Fates
             /\ d[o] = "live" <=> fate[o] = "live" /\ o \notin p
             /\ o \notin p => d[o] = fate[o]
             /\ o \in p => d[o] \in {"deleted", "twice"}
             /\ d[o] = "twice" => fate[o] = "twice" \/ (o \in p /\ fate[o] # "live")
  BY <1>2, <1>3 DEF Fates
<1>5. d \in [Objects -> Fates]
  BY <1>1, <1>4
<1>6. QED
  BY <1>4, <1>5 DEF d

\* The elements', ids', arrays' and objects' types are kept by every step.
LEMMA OthersKept ==
  ASSUME TypeOK, Calls, IdsGiven, InHand, NEW t \in Threads, Start(t) \/ Progress(t)
  PROVE  PtrOK' /\ OthersOK'
<1> USE DEF TypeOK
<1>1. CASE Cleanup(t)
  <2>1. /\ UNCHANGED <<nextId, value, cap, gone>>
        /\ ptr' = [ptr EXCEPT ![t][Id(t)] = Null]
        /\ UNCHANGED fate \/ \E o \in Fresh(t, my[t].var) : fate' = [fate EXCEPT ![o] = "live"]
    BY <1>1 DEF Cleanup, ids
  <2>2. PtrOK'
    BY <2>1 DEF PtrOK, Pointers
  <2>3. fate' \in [Objects -> Fates]
    BY <2>1 DEF OthersOK, Fates
  <2>4. QED
    BY <2>1, <2>2, <2>3 DEF OthersOK
<1>2. CASE Store(t)
  <2>1. /\ UNCHANGED <<nextId, value, cap, gone, fate>>
        /\ ptr' = [ptr EXCEPT ![t][Id(t)] = my[t].obj]
    BY <1>2 DEF Store, ids
  <2>2. pc[t] = "store"
    BY <1>2, ReturnMoves DEF Store
  <2>3. my[t].obj \in Objects
    BY <2>2 DEF InHand, Storing
  <2>4. PtrOK'
    BY <2>1, <2>3 DEF PtrOK, Pointers
  <2>5. QED
    BY <2>1, <2>4 DEF OthersOK
<1>3. CASE DisposeAll(t)
  <2> DEFINE p == UNION {Pointee(t, i) : i \in Ids}
  <2>1. /\ UNCHANGED <<nextId, value, gone>> /\ fate' = Deleted(p)
        /\ ptr' = [ptr EXCEPT ![t] = [i \in Ids |-> Null]]
        /\ cap' = [cap EXCEPT ![t] = 0]
    BY <1>3 DEF DisposeAll, ids
  <2> HIDE DEF p
  <2>2. PtrOK'
    BY <2>1 DEF PtrOK, Pointers
  <2>3. fate' \in [Objects -> Fates]
    BY <2>1, DeletedFates DEF OthersOK
  <2>4. QED
    BY <2>1, <2>2, <2>3 DEF OthersOK
<1>4. CASE Dispose(t) \/ DisposeCopies(t)
  <2>1. UNCHANGED <<nextId, value, gone, cap, ptr>> /\ \E p : fate' = Deleted(p)
    <3>1. CASE Dispose(t)
      BY <3>1 DEF Dispose, ids, mem
    <3>2. CASE DisposeCopies(t)
      BY <3>2 DEF DisposeCopies, ids, mem
    <3>3. QED
      BY <1>4, <3>1, <3>2
  <2>2. fate' \in [Objects -> Fates]
    BY <2>1, DeletedFates DEF OthersOK
  <2>3. QED
    BY <2>1, <2>2 DEF OthersOK, PtrOK
<1>5. CASE Allocate(t)
  <2>1. /\ UNCHANGED <<cap, ptr, gone, fate>> /\ nextId' = nextId + 1
        /\ value' = [value EXCEPT ![my[t].var] = nextId]
    BY <1>5 DEF Allocate, mem
  <2>2. value \in [Vars -> Nat] /\ nextId \in Nat
    BY DEF OthersOK
  <2>3. nextId' \in Nat
    BY <2>1, <2>2
  <2>4. value' \in [Vars -> Nat]
    BY <2>1, <2>2
  <2>5. QED
    BY <2>1, <2>3, <2>4 DEF OthersOK, PtrOK
<1>6. CASE ReserveHead(t) \/ Swap(t)
  <2>1. pc[t] \in {"reserve head", "swap"}
    BY <1>6, GoMoves DEF ReserveHead, Swap
  <2>2. Id(t) \in Nat
    BY <2>1, CallHas DEF WithAnId
  <2>3. UNCHANGED <<nextId, value, gone, ptr, fate>>
    BY <1>6 DEF ReserveHead, Swap, ids
  <2>4. NewCapacity(Id(t)) \in Nat
    BY <2>2, CapacityGrows
  <2> DEFINE c == NewCapacity(Id(t))
             k == IF Id(t) < cap[Head] THEN cap[Head] ELSE c
  <2>5. cap' = [cap EXCEPT ![Head] = k] \/ cap' = [cap EXCEPT ![t] = c]
    BY <1>6 DEF ReserveHead, Swap
  <2>6. k \in Nat /\ c \in Nat
    BY <2>4 DEF OthersOK, Entries
  <2> HIDE DEF k, c
  <2>7. cap' \in [Entries -> Nat]
    BY <2>5, <2>6 DEF OthersOK
  <2>8. QED
    BY <2>3, <2>7 DEF OthersOK, PtrOK
<1>7. ASSUME NEW v \in Vars, Destroy(t, v) PROVE PtrOK' /\ OthersOK'
  BY <1>7 DEF Destroy, OthersOK, PtrOK, ids, mem
<1>8. CASE UNCHANGED <<nextId, value, cap, gone, fate, ptr>>
  BY <1>8 DEF OthersOK, PtrOK
<1>9. QED
  BY <1>1, <1>2, <1>3, <1>4, <1>5, <1>6, <1>7, <1>8 DEF Start, Progress, Begin, GetOrAllocate, Copy,
       Found, AlreadyLinked, LockAll, Visit, Release, PushBack, Unlink, CopyElements, mem, ids

\* The types are kept by every step.
LEMMA TypeOKKept ==
  ASSUME TypeOK, Calls, IdsGiven, InHand, NEW t \in Threads, Start(t) \/ Progress(t)
  PROVE  TypeOK'
BY PcOKKept, MyOKKept, LinksOKKept, OthersKept DEF TypeOK

-----------------------------------------------------------------------------
\* Calls and ids.

\* Calls is kept by a step that leaves the destroyed variables to their destroyers.
LEMMA CallsFrom ==
  ASSUME TypeOK, Calls, NEW t \in Threads, Elsewhere(t),
         \A v \in Vars : value[v] # Invalid => value'[v] # Invalid,
         pc'[t] \in Outside <=> my'[t].var = Null,
         pc'[t] \in WithAnId => value'[my'[t].var] # Invalid,
         my'[t].var \in gone' => pc'[t] \in Destroying,
         pc'[t] \in Destroying => my'[t].var \in gone' /\ \A u \in Threads \ {t} : my[u].var # my'[t].var,
         gone \subseteq gone',
         \A u \in Threads \ {t} : my[u].var \in gone' => my[u].var \in gone,
         my'[t].var = my[t].var \/ my'[t].var \notin gone
  PROVE  Calls'
<1>1. ASSUME NEW u \in Threads
      PROVE  /\ pc'[u] \in Outside <=> my'[u].var = Null
             /\ pc'[u] \in WithAnId => value'[my'[u].var] # Invalid
             /\ my'[u].var \in gone' => pc'[u] \in Destroying
             /\ pc'[u] \in Destroying => my'[u].var \in gone' /\ \A w \in Threads \ {u} : my'[w].var # my'[u].var
  <2>1. CASE u = t
    BY <2>1 DEF Elsewhere
  <2>2. CASE u # t
    <3>1. pc'[u] = pc[u] /\ my'[u] = my[u]
      BY <2>2 DEF Elsewhere
    <3>2. pc'[u] \in Outside <=> my'[u].var = Null
      BY <3>1 DEF Calls
    <3>3. ASSUME pc'[u] \in WithAnId PROVE value'[my'[u].var] # Invalid
      <4>1. pc[u] \notin Outside
        BY <3>1, <3>3 DEF WithAnId, Outside, InElement, Storing, Accessing, Destroying
      <4>2. my[u].var \in Vars /\ value[my[u].var] # Invalid
        BY <3>1, <3>3, <4>1 DEF Calls, TypeOK, MyOK, Id
      <4>3. QED
        BY <3>1, <4>2
    <3>4. my'[u].var \in gone' => pc'[u] \in Destroying
      BY <2>2, <3>1 DEF Calls
    <3>5. ASSUME pc'[u] \in Destroying, NEW w \in Threads \ {u}
          PROVE  my'[u].var \in gone' /\ my'[w].var # my'[u].var
      <4>1. my[u].var \in gone /\ \A x \in Threads \ {u} : my[x].var # my[u].var
        BY <3>1, <3>5 DEF Calls, Alone, InCall
      <4>2. CASE w = t
        BY <2>2, <3>1, <4>1, <4>2
      <4>3. CASE w # t
        BY <3>1, <3>5, <4>1, <4>3 DEF Elsewhere
      <4>4. QED
        BY <3>1, <4>1, <4>2, <4>3
    <3>6. QED
      BY <3>2, <3>3, <3>4, <3>5
  <2>3. QED
    BY <2>1, <2>2
<1>2. QED
  BY <1>1 DEF Calls, Alone, InCall, Id

\* ... in particular by one within a call.
LEMMA CallsWithin ==
  ASSUME TypeOK, Calls, NEW t \in Threads, Elsewhere(t), UNCHANGED gone,
         \A v \in Vars : value[v] # Invalid => value'[v] # Invalid,
         my'[t].var = my[t].var, pc[t] \notin Outside, pc'[t] \notin Outside,
         pc[t] \in Destroying <=> pc'[t] \in Destroying,
         pc'[t] \in WithAnId => value'[my[t].var] # Invalid
  PROVE  Calls'
BY CallsFrom DEF Calls, Alone, InCall

\* ... or by the end of a call.
LEMMA CallsReturn ==
  ASSUME TypeOK, Calls, NEW t \in Threads, NEW a, Return(t, a), UNCHANGED <<gone, value>>
  PROVE  Calls'
<1>1. pc'[t] = "idle" /\ Elsewhere(t) /\ my'[t].var = Null
  BY ReturnMoves DEF TypeOK
<1>2. Null \notin gone
  BY ThreadLocalAssumption DEF TypeOK, OthersOK
<1>3. "idle" \in Outside /\ "idle" \notin WithAnId /\ "idle" \notin Destroying
  BY DEF Outside, WithAnId, InElement, Storing, Accessing, Destroying
<1>4. QED
  BY <1>1, <1>2, <1>3, CallsFrom

\* The groups that the places of a call belong to.
LEMMA StepSets ==
  /\ {"get or allocate", "allocate", "lock", "copy", "element", "reserve head", "swap", "cleanup", "link", "store",
      "visit", "release", "destroy", "dispose copies"} \cap Outside = {}
  /\ {"get or allocate", "allocate", "lock", "copy", "element", "reserve head", "swap", "cleanup", "link", "store",
      "visit", "release"} \cap Destroying = {}
  /\ {"lock", "copy", "element", "reserve head", "swap", "cleanup", "link", "store",
      "visit", "release", "destroy", "dispose copies"} \subseteq WithAnId
  /\ {"get or allocate", "allocate"} \cap WithAnId = {}
  /\ {"destroy", "dispose copies"} \subseteq Destroying
  /\ {"idle", "dispose all", "exited"} \subseteq Outside
  /\ Destroying \subseteq WithAnId /\ Outside \cap WithAnId = {}
BY DEF Outside, WithAnId, InElement, Storing, Accessing, Destroying

\* Calls is kept by every step that does not crash.
LEMMA CallsKept ==
  ASSUME TypeOK, Calls, IdsGiven, Running', NEW t \in Threads, Start(t) \/ Progress(t)
  PROVE  Calls'
<1>1. Elsewhere(t)
  BY MyOKKept
<1>2. Null \notin gone /\ Null \notin Vars
  BY ThreadLocalAssumption DEF TypeOK, OthersOK
<1>3. pc'[t] \notin Crashed
  BY DEF Running
<1>4. MyOK /\ PcOK
  BY DEF TypeOK
<1>5. ASSUME NEW v \in Vars, NEW o \in Ops, Begin(t, v, o) PROVE Calls'
  <2>1. /\ v \notin gone /\ UNCHANGED <<value, gone>> /\ my' = [my EXCEPT ![t] = Locals(o, v)]
        /\ Go(t, "idle", IF value[v] = Invalid THEN "get or allocate" ELSE WithId(t, o, value[v]))
    BY <1>5 DEF Begin, ids
  <2>2. my'[t].var = v
    <3>1. my' = [my EXCEPT ![t] = Locals(o, v)]
      BY <2>1
    <3>2. QED
      BY <1>4, <3>1 DEF MyOK, Locals
  <2>3. value[v] \in Nat
    BY DEF TypeOK, OthersOK
  <2>4. pc'[t] = IF value[v] = Invalid THEN "get or allocate" ELSE WithId(t, o, value[v])
    BY <2>1, GoMoves DEF TypeOK
  <2>5. pc'[t] \notin Outside /\ pc'[t] \notin Destroying /\ (pc'[t] \in WithAnId => value[v] # Invalid)
    <3>1. CASE value[v] = Invalid
      BY <2>4, <3>1, StepSets
    <3>2. CASE value[v] # Invalid
      <4>1. pc'[t] \in {"lock", "copy", "element"}
        BY <2>3, <2>4, <3>2, WithIdIn DEF TypeOK
      <4>2. QED
        BY <3>2, <4>1, StepSets
    <3>3. QED
      BY <3>1, <3>2
  <2>6. UNCHANGED <<value, gone>> /\ my'[t].var \notin gone /\ my'[t].var # Null
    BY <1>2, <2>1, <2>2
  <2>7. pc'[t] \in WithAnId => value'[my'[t].var] # Invalid
    BY <2>2, <2>5, <2>6
  <2>8. QED
    BY <1>1, <2>5, <2>6, <2>7, CallsFrom
<1>6. ASSUME NEW v \in Vars, Destroy(t, v) PROVE Calls'
  <2>1. /\ pc[t] = "idle" /\ v \notin gone /\ (\A u \in Threads \ {t} : my[u].var # v)
        /\ gone' = gone \cup {v} /\ UNCHANGED value
    BY <1>6 DEF Destroy, Alone, InCall, ids
  <2>2. my[t].var = Null
    BY <2>1, StepSets DEF Calls
  <2>3. CASE value[v] = Invalid
    <3>1. UNCHANGED <<pc, my>>
      BY <1>6, <2>3 DEF Destroy
    <3>2. my'[t].var = Null /\ pc'[t] = "idle"
      BY <2>1, <2>2, <3>1
    <3>3. QED
      BY <1>1, <1>2, <2>1, <2>2, <3>2, StepSets, CallsFrom
  <2>4. CASE value[v] # Invalid
    <3>1. Go(t, "idle", "destroy") /\ my' = [my EXCEPT ![t] = [Locals("destroy", v) EXCEPT !.ref = cap[Head]]]
      BY <1>6, <2>4 DEF Destroy
    <3>2. pc'[t] = "destroy" /\ my'[t].var = v
      <4>1. pc'[t] = "destroy"
        BY <1>4, <3>1, GoMoves
      <4>2. my'[t].var = v
        BY <1>4, <3>1, SetRef
      <4>3. QED
        BY <4>1, <4>2
    <3>3. QED
      BY <1>1, <1>2, <2>1, <2>4, <3>2, StepSets, CallsFrom
  <2>5. QED
    BY <2>3, <2>4
<1>7. CASE Unlink(t) \/ DisposeAll(t)
  <2>1. /\ pc[t] \in {"idle", "dispose all"} /\ pc'[t] \in {"dispose all", "exited"} /\ UNCHANGED <<my, value, gone>>
    BY <1>7, GoMoves DEF Unlink, DisposeAll, TypeOK, ids
  <2>2. my[t].var = Null
    BY <2>1, StepSets DEF Calls
  <2>3. QED
    BY <1>1, <1>2, <2>1, <2>2, StepSets, CallsFrom
<1>8. CASE Allocate(t)
  <2>1. /\ pc[t] = "allocate" /\ pc'[t] = "reserve head" /\ UNCHANGED <<my, gone>>
        /\ value' = [value EXCEPT ![my[t].var] = nextId]
    BY <1>8, <1>3, GoMoves DEF Allocate, Crashed, TypeOK
  <2>2. my[t].var \in Vars
    BY <2>1, CallHas DEF Asking
  <2>3. nextId # Invalid
    BY FewIds DEF TypeOK, Invalid
  <2>4. value'[my[t].var] = nextId /\ \A v \in Vars : value[v] # Invalid => value'[v] # Invalid
    BY <2>1, <2>2, <2>3 DEF TypeOK, OthersOK
  <2>5. QED
    BY <1>1, <2>1, <2>3, <2>4, StepSets, CallsWithin
<1>9. CASE GetOrAllocate(t)
  <2>1. /\ UNCHANGED <<my, gone, value>>
        /\ pc[t] = "get or allocate"
        /\ pc'[t] = IF Id(t) = Invalid THEN "allocate" ELSE WithId(t, my[t].op, Id(t))
    BY <1>9, GoMoves DEF GetOrAllocate, TypeOK, ids
  <2>2. Id(t) \in Nat
    BY <2>1, CallHas DEF Asking
  <2>3. pc'[t] \in {"allocate", "lock", "copy", "element"} /\ (pc'[t] # "allocate" => Id(t) # Invalid)
    <3>1. CASE Id(t) = Invalid
      BY <2>1, <3>1
    <3>2. CASE Id(t) # Invalid
      BY <2>1, <2>2, <3>2, WithIdIn DEF TypeOK
    <3>3. QED
      BY <3>1, <3>2
  <2>4. QED
    BY <1>1, <2>1, <2>3, StepSets, CallsWithin DEF Id
<1>10. CASE ReserveHead(t)
  <2>1. /\ UNCHANGED <<my, gone, value>>
        /\ pc[t] = "reserve head"
        /\ pc'[t] = WithId(t, my[t].op, Id(t))
    BY <1>10, GoMoves DEF ReserveHead, TypeOK, ids
  <2>2. Id(t) \in Nat /\ Id(t) # Invalid
    BY <2>1, CallHas, StepSets DEF Calls
  <2>3. pc'[t] \in {"lock", "copy", "element"}
    BY <2>1, <2>2, WithIdIn DEF TypeOK
  <2>4. QED
    BY <1>1, <2>1, <2>2, <2>3, StepSets, CallsWithin DEF Id
<1>11. CASE Copy(t) \/ Swap(t) \/ Dispose(t) \/ AlreadyLinked(t) \/ PushBack(t) \/ LockAll(t) \/ Visit(t)
           \/ CopyElements(t)
  <2>1. /\ UNCHANGED <<value, gone>>
        /\ pc[t] \in {"copy", "swap", "element", "link", "lock", "visit", "destroy"}
        /\ pc'[t] \in {"swap", "element", "cleanup", "store", "visit", "release", "dispose copies"}
        /\ pc[t] = "destroy" <=> pc'[t] = "dispose copies"
    <3>1. UNCHANGED <<value, gone>>
      BY <1>11 DEF Copy, Swap, Dispose, AlreadyLinked, PushBack, LockAll, Visit, CopyElements, ids
    <3>2. CASE Copy(t)
      BY <1>4, <3>1, <3>2, GoMoves DEF Copy
    <3>3. CASE Swap(t)
      BY <1>4, <3>1, <3>3, GoMoves DEF Swap
    <3>4. CASE Dispose(t) \/ AlreadyLinked(t)
      <4>1. Go(t, "element", "cleanup") \/ Go(t, "link", "store")
        BY <3>4 DEF Dispose, AlreadyLinked
      <4>2. QED
        BY <1>4, <3>1, <4>1 DEF Go, PcOK
    <3>5. CASE PushBack(t)
      <4>1. Go(t, "link", IF Id(t) < cap[Head] THEN "store" ELSE "bad address")
        BY <3>5 DEF PushBack
      <4>2. QED
        BY <1>3, <1>4, <3>1, <4>1 DEF Crashed, Go, PcOK
    <3>6. CASE LockAll(t)
      <4>1. Go(t, "lock", IF Id(t) < cap[Head] THEN "visit" ELSE "bad address")
        BY <3>6 DEF LockAll
      <4>2. QED
        BY <1>3, <1>4, <3>1, <4>1 DEF Crashed, Go, PcOK
    <3>7. CASE Visit(t)
      <4>1. Go(t, "visit", "release") \/ Go(t, "visit", "visit")
        BY <3>7 DEF Visit
      <4>2. QED
        BY <1>4, <3>1, <4>1 DEF Go, PcOK
    <3>8. CASE CopyElements(t)
      BY <1>3, <1>4, <3>1, <3>8 DEF CopyElements, Crashed, Go, PcOK
    <3>9. QED
      BY <1>11, <3>2, <3>3, <3>4, <3>5, <3>6, <3>7, <3>8
  <2>2. my'[t].var = my[t].var
    <3>1. CASE UNCHANGED my
      BY <3>1
    <3>2. CASE Copy(t)
      BY <3>2, SetSaved DEF Copy, TypeOK
    <3>3. CASE Visit(t)
      BY <3>3, SetAt DEF Visit, TypeOK
    <3>4. CASE CopyElements(t)
      BY <3>4, SetCopies DEF CopyElements, TypeOK
    <3>5. QED
      BY <1>11, <3>1, <3>2, <3>3, <3>4 DEF Swap, Dispose, AlreadyLinked, PushBack, LockAll
  <2>3. value[my[t].var] # Invalid
    BY <2>1, StepSets DEF Calls, Id
  <2>4. QED
    BY <1>1, <2>1, <2>2, <2>3, StepSets, CallsWithin
<1>12. CASE Cleanup(t)
  <2>1. CASE Return(t, "cleanup")
    BY <1>12, <2>1, CallsReturn DEF Cleanup, ids
  <2>2. CASE Go(t, "cleanup", "link") /\ \E o \in Fresh(t, my[t].var) : my' = [my EXCEPT ![t].obj = o]
    <3>1. pc[t] = "cleanup" /\ pc'[t] = "link" /\ my'[t].var = my[t].var
      BY <2>2, GoMoves, SetObj DEF TypeOK
    <3>2. value[my[t].var] # Invalid
      BY <3>1, StepSets DEF Calls, Id
    <3>3. UNCHANGED <<value, gone>>
      BY <1>12 DEF Cleanup, ids
    <3>4. QED
      BY <1>1, <3>1, <3>2, <3>3, StepSets, CallsWithin
  <2>3. QED
    BY <1>12, <2>1, <2>2 DEF Cleanup
<1>13. CASE Found(t) \/ Store(t) \/ Release(t) \/ DisposeCopies(t)
  <2>1. UNCHANGED <<value, gone>> /\ \E a : Return(t, a)
    BY <1>13 DEF Found, Store, Release, DisposeCopies, ids
  <2>2. QED
    BY <2>1, CallsReturn
<1>14. QED
  BY <1>5, <1>6, <1>7, <1>8, <1>9, <1>10, <1>11, <1>12, <1>13 DEF Start, Progress

\* What allocate does when its assertion holds: the next id is given to the variable.
LEMMA AllocateTakes ==
  ASSUME TypeOK, Calls, IdsGiven, Running', NEW t \in Threads, Allocate(t)
  PROVE  /\ pc[t] = "allocate" /\ pc'[t] = "reserve head" /\ my[t].var \in Vars /\ value[my[t].var] = Invalid
         /\ value' = [value EXCEPT ![my[t].var] = nextId] /\ nextId' = nextId + 1
<1>1. /\ pc[t] = "allocate" /\ pc'[t] = IF Id(t) = Invalid THEN "reserve head" ELSE "assertion failed"
      /\ value' = [value EXCEPT ![my[t].var] = nextId] /\ nextId' = nextId + 1
  BY DEF Allocate, Go, TypeOK, PcOK
<1>2. my[t].var \in Vars
  BY <1>1, CallHas DEF Asking
<1>3. pc'[t] # "assertion failed"
  BY DEF Running, Crashed
<1>4. QED
  BY <1>1, <1>2, <1>3 DEF Id

\* Nothing else gives an id.
LEMMA ValueMoves ==
  ASSUME NEW t \in Threads, Start(t) \/ Progress(t)
  PROVE  Allocate(t) \/ UNCHANGED ids
<1>1. ASSUME NEW v \in Vars, NEW o \in Ops, Begin(t, v, o) PROVE UNCHANGED ids
  BY <1>1 DEF Begin
<1>2. ASSUME NEW v \in Vars, Destroy(t, v) PROVE UNCHANGED ids
  BY <1>2 DEF Destroy
<1>3. CASE Cleanup(t)
  BY <1>3 DEF Cleanup
<1>4. CASE PushBack(t)
  BY <1>4 DEF PushBack
<1>5. QED
  BY <1>1, <1>2, <1>3, <1>4 DEF Start, Progress, Unlink, GetOrAllocate, ReserveHead, Copy, Swap,
       Found, Dispose, AlreadyLinked, Store, LockAll, Visit, Release, DisposeAll, CopyElements, DisposeCopies

\* An id once given is kept.
LEMMA IdsStay ==
  ASSUME TypeOK, Calls, IdsGiven, Running', NEW t \in Threads, Start(t) \/ Progress(t)
  PROVE  \A v \in Vars : value[v] # Invalid => value'[v] = value[v]
<1>1. CASE Allocate(t)
  BY <1>1, AllocateTakes DEF TypeOK, OthersOK
<1>2. CASE UNCHANGED ids
  BY <1>2 DEF ids
<1>3. QED
  BY <1>1, <1>2, ValueMoves

\* Ids are given once, and each to one variable only.
LEMMA IdsGivenKept ==
  ASSUME TypeOK, Calls, IdsGiven, Running', NEW t \in Threads, Start(t) \/ Progress(t)
  PROVE  IdsGiven'
<1>1. CASE Allocate(t)
  <2> DEFINE G == {v \in Vars : value[v] # Invalid}
             x == my[t].var
  <2>1. /\ x \in Vars /\ value[x] = Invalid /\ value' = [value EXCEPT ![x] = nextId] /\ nextId' = nextId + 1
    BY <1>1, AllocateTakes
  <2>2. /\ value \in [Vars -> Nat] /\ nextId \in Nat /\ nextId # Invalid
        /\ \A v \in Vars : value[v] < nextId /\ value[v] \in Nat
    BY FewIds DEF TypeOK, OthersOK, IdsGiven, Invalid
  <2> HIDE DEF x
  <2>3. \A v \in Vars : value'[v] = IF v = x THEN nextId ELSE value[v]
    BY <2>1, <2>2
  <2>4. G' = G \cup {x} /\ x \notin G
    BY <2>1, <2>2, <2>3
  <2>5. IsFiniteSet(G)
    BY ThreadLocalAssumption, FS_Subset
  <2>6. nextId = Cardinality(G) + 1
    BY DEF IdsGiven
  <2> HIDE DEF G
  <2>7. Cardinality(G') = Cardinality(G) + 1 /\ Cardinality(G) \in Nat
    BY <2>4, <2>5, FS_AddElement, FS_CardinalityType
  <2>8. nextId' = Cardinality(G') + 1
    BY <2>1, <2>6, <2>7
  <2>9. \A v \in Vars : value'[v] < nextId'
    BY <2>1, <2>2, <2>3
  <2>10. ASSUME NEW v \in Vars, NEW w \in Vars, value'[v] = value'[w], value'[v] # Invalid PROVE v = w
    BY <2>2, <2>3, <2>10 DEF IdsGiven
  <2>11. QED
    BY <2>8, <2>9, <2>10 DEF IdsGiven, G
<1>2. CASE UNCHANGED ids
  BY <1>2 DEF ids, IdsGiven
<1>3. QED
  BY <1>1, <1>2, ValueMoves

\* A call keeps its variable, or is over, or begins with one that is not gone.
LEMMA VarStays ==
  ASSUME TypeOK, Calls, IdsGiven, NEW t \in Threads, Start(t) \/ Progress(t)
  PROVE  my'[t].var = my[t].var \/ my'[t].var \notin gone
<1>1. MyOK /\ PcOK
  BY DEF TypeOK
<1>2. Null \notin gone
  BY ThreadLocalAssumption DEF TypeOK, OthersOK
<1>3. ASSUME NEW v \in Vars, NEW o \in Ops, Begin(t, v, o) PROVE my'[t].var \notin gone
  <2>1. v \notin gone /\ my' = [my EXCEPT ![t] = Locals(o, v)]
    BY <1>3 DEF Begin
  <2>2. QED
    BY <1>1, <2>1 DEF MyOK, Locals
<1>4. ASSUME NEW v \in Vars, Destroy(t, v) PROVE my'[t].var = my[t].var \/ my'[t].var \notin gone
  <2>1. v \notin gone /\ (UNCHANGED my \/ my' = [my EXCEPT ![t] = [Locals("destroy", v) EXCEPT !.ref = cap[Head]]])
    BY <1>4 DEF Destroy
  <2>2. CASE my' = [my EXCEPT ![t] = [Locals("destroy", v) EXCEPT !.ref = cap[Head]]]
    BY <1>1, <2>1, <2>2 DEF MyOK, Locals
  <2>3. QED
    BY <2>1, <2>2
<1>5. ASSUME NEW a, Return(t, a) PROVE my'[t].var \notin gone
  BY <1>1, <1>2, <1>5, ReturnMoves
<1>6. CASE Copy(t)
  BY <1>6, <1>1, SetSaved DEF Copy
<1>7. CASE Visit(t)
  BY <1>7, <1>1, SetAt DEF Visit
<1>8. CASE CopyElements(t)
  BY <1>8, <1>1, SetCopies DEF CopyElements
<1>9. CASE Cleanup(t)
  <2>1. Return(t, "cleanup") \/ \E o : my' = [my EXCEPT ![t].obj = o]
    BY <1>9 DEF Cleanup
  <2>2. QED
    BY <1>5, <1>1, <2>1, SetObj
<1>10. CASE UNCHANGED my
  BY <1>10
<1>11. QED
  BY <1>3, <1>4, <1>5, <1>6, <1>7, <1>8, <1>9, <1>10 DEF Start, Progress, Unlink, GetOrAllocate, Allocate, ReserveHead,
     Swap, Found, Dispose, AlreadyLinked, PushBack, Store, LockAll, Release, DisposeAll, DisposeCopies

\* The invalid id is none of the ids.
LEMMA IdsArePositive == Invalid \notin Ids
BY FS_CardinalityType, ThreadLocalAssumption DEF Ids, Invalid

\* What an element points to.
LEMMA PointsTo ==
  ASSUME TypeOK, NEW u \in Threads, NEW i \in Ids, ptr[u][i] # Null
  PROVE  ptr[u][i] \in Objects /\ ptr[u][i][1] \in Threads /\ ptr[u][i][2] \in Vars
<1>1. ptr[u][i] \in Pointers
  BY DEF TypeOK, PtrOK
<1>2. ptr[u][i] \in Objects
  BY <1>1 DEF Pointers
<1>3. QED
  BY <1>2 DEF Objects

\* The parts about objects are kept by a step that leaves objects, elements and what is in hand.
LEMMA NoObjectMoves ==
  ASSUME TypeOK, Calls, IdsGiven, Objectwise, NEW t \in Threads, Elsewhere(t),
         \A v \in Vars : value[v] # Invalid => value'[v] = value[v],
         UNCHANGED <<ptr, fate>>, gone \subseteq gone',
         pc[t] # "cleanup", pc'[t] \notin {"cleanup", "exited"},
         pc[t] \in Storing <=> pc'[t] \in Storing,
         pc[t] \in Storing => my'[t] = my[t],
         pc'[t] = "dispose copies" => \A o \in my'[t].copies : o[2] = my'[t].var
  PROVE  PointsRight' /\ InHand' /\ LiveIsHeld' /\ CopiesRight'
<1>1. ASSUME NEW u \in Threads \ {t}
      PROVE  pc'[u] = pc[u] /\ my'[u] = my[u]
  BY DEF Elsewhere
<1>2. ASSUME NEW u \in Threads, pc[u] \in WithAnId, my'[u] = my[u]
      PROVE  Id(u)' = Id(u)
  BY <1>2, CallHas DEF Calls, Id
<1>3. "cleanup" \in WithAnId /\ Storing \subseteq WithAnId
  BY DEF WithAnId, InElement
<1>4. PointsRight'
  <2> SUFFICES ASSUME NEW u \in Threads, NEW i \in Ids, ptr'[u][i] # Null
               PROVE  LET o == ptr'[u][i] IN
                        /\ o[1] = u /\ value'[o[2]] = i
                        /\ fate'[o] # "unborn"
                        /\ fate'[o] = "live" \/ o[2] \in gone' \/ (pc'[u] = "cleanup" /\ Id(u)' = i)
    BY DEF PointsRight
  <2>1. ptr' = ptr /\ fate' = fate /\ ptr[u][i] # Null
    OBVIOUS
  <2> DEFINE o == ptr[u][i]
  <2>2. /\ o[1] = u /\ value[o[2]] = i /\ fate[o] # "unborn"
        /\ fate[o] = "live" \/ o[2] \in gone \/ (pc[u] = "cleanup" /\ Id(u) = i)
    BY <2>1, ZenonT(60) DEF Objectwise, PointsRight
  <2>3. o \in Objects
    BY <2>1, PointsTo
  <2> HIDE DEF o
  <2>4. o[2] \in Vars /\ i # Invalid
    BY <2>3, IdsArePositive DEF Objects
  <2>5. value'[o[2]] = i
    BY <2>2, <2>4
  <2>6. pc[u] = "cleanup" => pc'[u] = "cleanup" /\ Id(u)' = Id(u)
    BY <1>1, <1>2, <1>3
  <2>7. QED
    BY <2>1, <2>2, <2>5, <2>6 DEF o
<1>5. InHand'
  <2> SUFFICES ASSUME NEW u \in Threads
      PROVE
    /\ pc'[u] \in Storing =>
         /\ my'[u].obj \in Objects /\ my'[u].obj[1] = u /\ my'[u].obj[2] = my'[u].var
         /\ fate[my'[u].obj] = "live" /\ ptr[u][Id(u)'] = Null
    /\ pc'[u] = "cleanup" /\ ptr[u][Id(u)'] # Null => fate[ptr[u][Id(u)']] # "live"
    /\ pc'[u] = "exited" => \A i \in Ids : ptr[u][i] = Null
    BY DEF InHand
  <2>1. /\ pc[u] \in Storing =>
           /\ my[u].obj \in Objects /\ my[u].obj[1] = u /\ my[u].obj[2] = my[u].var
           /\ fate[my[u].obj] = "live" /\ ptr[u][Id(u)] = Null
        /\ pc[u] = "cleanup" /\ ptr[u][Id(u)] # Null => fate[ptr[u][Id(u)]] # "live"
        /\ pc[u] = "exited" => \A i \in Ids : ptr[u][i] = Null
    BY DEF Objectwise, InHand
  <2>2. CASE u = t
    <3>1. pc'[u] \notin {"cleanup", "exited"}
      BY <2>2
    <3>2. pc'[u] \in Storing => pc[u] \in Storing /\ my'[u] = my[u] /\ Id(u)' = Id(u)
      BY <1>2, <1>3, <2>2
    <3>3. QED
      BY <2>1, <3>1, <3>2
  <2>3. CASE u # t
    <3>1. pc'[u] = pc[u] /\ my'[u] = my[u] /\ (pc[u] \in WithAnId => Id(u)' = Id(u))
      BY <1>1, <1>2, <2>3
    <3>2. QED
      BY <1>3, <2>1, <3>1
  <2>4. QED
    BY <2>2, <2>3
<1>6. LiveIsHeld'
  <2> SUFFICES ASSUME NEW o \in Objects, fate[o] = "live"
               PROVE  \/ value'[o[2]] \in Ids /\ ptr[o[1]][value'[o[2]]] = o
                      \/ pc'[o[1]] \in Storing /\ my'[o[1]].obj = o
    BY DEF LiveIsHeld
  <2>1. o[1] \in Threads /\ o[2] \in Vars
    BY DEF Objects
  <2>2. \/ value[o[2]] \in Ids /\ ptr[o[1]][value[o[2]]] = o
        \/ pc[o[1]] \in Storing /\ my[o[1]].obj = o
    BY DEF Objectwise, LiveIsHeld
  <2>3. CASE value[o[2]] \in Ids /\ ptr[o[1]][value[o[2]]] = o
    <3>1. value[o[2]] # Invalid
      BY <2>3, IdsArePositive
    <3>2. QED
      BY <2>1, <2>3, <3>1
  <2>4. CASE pc[o[1]] \in Storing /\ my[o[1]].obj = o
    BY <1>1, <2>1, <2>4
  <2>5. QED
    BY <2>2, <2>3, <2>4
<1>7. CopiesRight'
  BY <1>1 DEF Objectwise, CopiesRight
<1>8. QED
  BY <1>4, <1>5, <1>6, <1>7

-----------------------------------------------------------------------------
\* Objects and elements.

\* The parts of the invariant about objects, thread by thread and object by object.
ElementsRight(t) ==
  \A i \in Ids : ptr[t][i] # Null =>
    LET o == ptr[t][i] IN
      /\ o[1] = t /\ value[o[2]] = i
      /\ fate[o] # "unborn"
      /\ fate[o] = "live" \/ o[2] \in gone \/ (pc[t] = "cleanup" /\ Id(t) = i)

\* What t has in hand, as InHand says.
HandRight(t) ==
    /\ pc[t] \in Storing =>
         /\ my[t].obj \in Objects /\ my[t].obj[1] = t /\ my[t].obj[2] = my[t].var
         /\ fate[my[t].obj] = "live" /\ ptr[t][Id(t)] = Null
    /\ pc[t] = "cleanup" /\ ptr[t][Id(t)] # Null => fate[ptr[t][Id(t)]] # "live"
    /\ pc[t] = "exited" => \A i \in Ids : ptr[t][i] = Null

\* A live object's place, as LiveIsHeld says.
IsHeld(o) ==
    \/ value[o[2]] \in Ids /\ ptr[o[1]][value[o[2]]] = o
    \/ pc[o[1]] \in Storing /\ my[o[1]].obj = o

\* A step of t leaves the other threads' objects alone, or they are of a variable
\* that is gone.
LEMMA OthersObjects ==
  ASSUME TypeOK, Calls, IdsGiven, Objectwise, NEW t \in Threads, Elsewhere(t), UNCHANGED <<value, gone>>,
         \A u \in Threads \ {t} : ptr'[u] = ptr[u],
         \A o \in Objects : fate'[o] = fate[o] \/ o[1] = t \/ (o[2] \in gone /\ fate'[o] \notin {"unborn", "live"})
  PROVE  /\ \A u \in Threads \ {t} : ElementsRight(u)' /\ HandRight(u)'
         /\ \A o \in Objects : o[1] # t /\ fate'[o] = "live" => IsHeld(o)'
<1>1. ASSUME NEW u \in Threads \ {t} PROVE ElementsRight(u)'
  <2>1. pc'[u] = pc[u] /\ my'[u] = my[u] /\ ptr'[u] = ptr[u] /\ Id(u)' = Id(u)
    BY DEF Elsewhere, Id
  <2> SUFFICES ASSUME NEW i \in Ids, ptr'[u][i] # Null
               PROVE  LET o == ptr'[u][i] IN
      /\ o[1] = u /\ value'[o[2]] = i
      /\ fate'[o] # "unborn"
      /\ fate'[o] = "live" \/ o[2] \in gone' \/ (pc'[u] = "cleanup" /\ Id(u)' = i)
    BY DEF ElementsRight
  <2> DEFINE o == ptr[u][i]
  <2>2. /\ o[1] = u /\ value[o[2]] = i /\ fate[o] # "unborn" /\ o \in Objects
        /\ fate[o] = "live" \/ o[2] \in gone \/ (pc[u] = "cleanup" /\ Id(u) = i)
    BY <2>1, PointsTo DEF Objectwise, PointsRight
  <2>3. ptr'[u][i] = o
    BY <2>1
  <2> HIDE DEF o
  <2>4. fate'[o] = fate[o] \/ (o[2] \in gone /\ fate'[o] # "unborn")
    BY <2>2
  <2>5. QED
    BY <2>1, <2>2, <2>3, <2>4
<1>2. ASSUME NEW u \in Threads \ {t} PROVE HandRight(u)'
  <2>1. pc'[u] = pc[u] /\ my'[u] = my[u] /\ ptr'[u] = ptr[u] /\ Id(u)' = Id(u)
    BY DEF Elsewhere, Id
  <2>2. HandRight(u)
    BY DEF HandRight, Objectwise, InHand
  <2>3. ASSUME pc[u] \in Storing PROVE fate'[my[u].obj] = "live"
    <3>1. my[u].var \notin gone
      BY <2>3 DEF Calls, Destroying, Storing
    <3>2. QED
      BY <2>2, <2>3, <3>1 DEF HandRight
  <2>4. ASSUME pc[u] = "cleanup", ptr[u][Id(u)] # Null PROVE fate'[ptr[u][Id(u)]] # "live"
    <3>1. Id(u) \in Ids
      BY <2>4, CallHas, StepSets
    <3>2. ptr[u][Id(u)] \in Objects /\ ptr[u][Id(u)][1] = u
      BY <2>4, <3>1, PointsTo DEF Objectwise, PointsRight
    <3>3. QED
      BY <2>2, <2>4, <3>2 DEF HandRight
  <2>5. QED
    BY <2>1, <2>2, <2>3, <2>4 DEF HandRight
<1>3. ASSUME NEW o \in Objects, o[1] # t, fate'[o] = "live" PROVE IsHeld(o)'
  <2>1. o[1] \in Threads \ {t} /\ fate[o] = "live"
    BY <1>3 DEF Objects
  <2>2. IsHeld(o)
    BY <2>1 DEF Objectwise, LiveIsHeld, IsHeld
  <2>3. QED
    BY <2>1, <2>2 DEF IsHeld, Elsewhere
<1>4. QED
  BY <1>1, <1>2, <1>3

\* What holds of t and of the others holds of all.
LEMMA Together ==
  ASSUME NEW t \in Threads,
         \A u \in Threads \ {t} : ElementsRight(u)' /\ HandRight(u)',
         \A o \in Objects : o[1] # t /\ fate'[o] = "live" => IsHeld(o)',
         ElementsRight(t)', HandRight(t)',
         \A o \in Objects : o[1] = t /\ fate'[o] = "live" => IsHeld(o)'
  PROVE  PointsRight' /\ InHand' /\ LiveIsHeld'
<1>1. \A u \in Threads : ElementsRight(u)' /\ HandRight(u)'
  OBVIOUS
<1>2. \A o \in Objects : fate'[o] = "live" => IsHeld(o)'
  OBVIOUS
<1>3. PointsRight'
  BY <1>1 DEF PointsRight, ElementsRight
<1>4. InHand'
  BY <1>1 DEF InHand, HandRight
<1>5. LiveIsHeld'
  BY <1>2 DEF LiveIsHeld, IsHeld
<1>6. QED
  BY <1>3, <1>4, <1>5

\* reset's deletion of the old object keeps the parts about objects; ...
LEMMA DisposeKeeps ==
  ASSUME TypeOK, Calls, IdsGiven, Objectwise, NEW t \in Threads, Elsewhere(t), Dispose(t)
  PROVE  PointsRight' /\ InHand' /\ LiveIsHeld'
<1> DEFINE i == Id(t)
           p == Pointee(t, i)
<1>1. /\ pc[t] = "element" /\ pc'[t] = "cleanup" /\ UNCHANGED <<value, gone, ptr, my>> /\ fate' = Deleted(p)
  BY DEF Dispose, Go, ids, mem, TypeOK, PcOK
<1>2. i \in Ids /\ i' = i
  BY <1>1, CallHas, StepSets DEF Id
<1>3. ElementsRight(t) /\ \A j \in Ids : ptr[t][j] # Null => ptr[t][j] \in Objects /\ ptr[t][j][2] \in Vars
  BY PointsTo DEF ElementsRight, Objectwise, PointsRight
<1>4. \A o \in Objects : o \in p <=> o = ptr[t][i]
  BY ThreadLocalAssumption DEF Pointee, Objects
<1>5. \A o \in p : o[1] = t
  BY <1>2, <1>3 DEF ElementsRight, Pointee
<1>6. \A o \in Objects : /\ fate'[o] = "live" <=> fate[o] = "live" /\ o \notin p
                         /\ o \notin p => fate'[o] = fate[o]
                         /\ o \in p => fate'[o] \in {"deleted", "twice"}
  BY <1>1, DeletedFates DEF TypeOK, OthersOK
<1> HIDE DEF p, i
<1>7. /\ \A u \in Threads \ {t} : ElementsRight(u)' /\ HandRight(u)'
      /\ \A o \in Objects : o[1] # t /\ fate'[o] = "live" => IsHeld(o)'
  BY <1>1, <1>5, <1>6, OthersObjects
<1>8. ElementsRight(t)'
  <2> SUFFICES ASSUME NEW j \in Ids, ptr'[t][j] # Null
               PROVE  LET o == ptr'[t][j] IN
      /\ o[1] = t /\ value'[o[2]] = j
      /\ fate'[o] # "unborn"
      /\ fate'[o] = "live" \/ o[2] \in gone' \/ (pc'[t] = "cleanup" /\ Id(t)' = j)
    BY DEF ElementsRight
  <2> DEFINE o == ptr[t][j]
  <2>1. /\ o[1] = t /\ value[o[2]] = j /\ fate[o] # "unborn" /\ o \in Objects
        /\ fate[o] = "live" \/ o[2] \in gone
    BY <1>1, <1>3 DEF ElementsRight
  <2>2. o \notin p \/ j = i
    <3>1. ASSUME o \in p PROVE j = i
      <4>1. ptr[t][i] = o /\ ptr[t][i] # Null
        BY <1>1, <1>4, <2>1, <3>1
      <4>2. QED
        BY <1>2, <1>3, <2>1, <4>1 DEF ElementsRight
    <3>2. QED
      BY <3>1
  <2>3. ptr'[t][j] = o
    BY <1>1
  <2> HIDE DEF o
  <2>4. QED
    BY <1>1, <1>2, <1>6, <2>1, <2>2, <2>3 DEF i
<1>9. HandRight(t)'
  <2>1. pc'[t] \notin Storing /\ pc'[t] # "exited"
    BY <1>1 DEF Storing
  <2>2. ptr'[t][Id(t)'] # Null => fate'[ptr'[t][Id(t)']] # "live"
    <3>1. ptr'[t][Id(t)'] = ptr[t][i]
      BY <1>1, <1>2 DEF i
    <3>2. ptr[t][i] # Null => ptr[t][i] \in Objects /\ ptr[t][i] \in p
      BY <1>2, <1>3, <1>4
    <3>3. QED
      BY <1>6, <3>1, <3>2
  <2>3. QED
    BY <2>1, <2>2 DEF HandRight
<1>10. ASSUME NEW o \in Objects, o[1] = t, fate'[o] = "live" PROVE IsHeld(o)'
  <2>1. fate[o] = "live"
    BY <1>6, <1>10
  <2>2. IsHeld(o)
    BY <2>1 DEF Objectwise, LiveIsHeld, IsHeld
  <2>3. pc[o[1]] \notin Storing
    BY <1>1, <1>10 DEF Storing
  <2>4. QED
    BY <1>1, <2>2, <2>3 DEF IsHeld
<1>11. QED
  BY <1>7, <1>8, <1>9, <1>10, Together

\* ... so does clearing the element and creating the new object, ...
LEMMA CleanupKeeps ==
  ASSUME TypeOK, Calls, IdsGiven, Objectwise, NEW t \in Threads, Elsewhere(t), Cleanup(t)
  PROVE  PointsRight' /\ InHand' /\ LiveIsHeld'
<1> DEFINE i == Id(t)
           v == my[t].var
<1>1. /\ pc[t] = "cleanup" /\ pc'[t] \in {"idle", "link"} /\ UNCHANGED <<value, gone>>
      /\ ptr' = [ptr EXCEPT ![t][i] = Null]
      /\ \/ pc'[t] = "idle" /\ UNCHANGED fate
         \/ pc'[t] = "link" /\ \E o \in Fresh(t, v) : my' = [my EXCEPT ![t].obj = o] /\ fate' = [fate EXCEPT ![o] = "live"]
  BY DEF Cleanup, Go, Return, ids, TypeOK, PcOK
<1>2. i \in Ids /\ i = value[v] /\ v \in Vars
  BY <1>1, CallHas, StepSets DEF Id
<1>3. ElementsRight(t) /\ \A j \in Ids : ptr[t][j] # Null => ptr[t][j] \in Objects /\ ptr[t][j][2] \in Vars
  BY PointsTo DEF ElementsRight, Objectwise, PointsRight
<1>4. /\ ptr'[t][i] = Null /\ \A j \in Ids \ {i} : ptr'[t][j] = ptr[t][j]
      /\ \A u \in Threads \ {t} : ptr'[u] = ptr[u]
  BY <1>1, <1>2 DEF TypeOK, PtrOK
<1>5. \A o \in Objects : \/ fate'[o] = fate[o]
                         \/ /\ fate[o] = "unborn" /\ fate'[o] = "live" /\ o[1] = t /\ o[2] = v
                            /\ pc'[t] = "link" /\ my'[t].obj = o
  <2>1. CASE UNCHANGED fate
    BY <2>1
  <2>2. ASSUME NEW o \in Fresh(t, v), my' = [my EXCEPT ![t].obj = o], fate' = [fate EXCEPT ![o] = "live"], pc'[t] = "link"
        PROVE  /\ o \in Objects /\ fate[o] = "unborn" /\ fate'[o] = "live" /\ o[1] = t /\ o[2] = v
               /\ my'[t].obj = o /\ \A x \in Objects \ {o} : fate'[x] = fate[x]
    BY <2>2, SetObj DEF Fresh, TypeOK, OthersOK
  <2>3. QED
    BY <1>1, <2>1, <2>2
<1> HIDE DEF i, v
<1>6. /\ \A u \in Threads \ {t} : ElementsRight(u)' /\ HandRight(u)'
      /\ \A o \in Objects : o[1] # t /\ fate'[o] = "live" => IsHeld(o)'
  <2>1. \A o \in Objects : fate'[o] = fate[o] \/ o[1] = t
    BY <1>5
  <2>2. QED
    BY <1>1, <1>4, <2>1, OthersObjects
<1>7. ElementsRight(t)'
  <2> SUFFICES ASSUME NEW j \in Ids, ptr'[t][j] # Null
               PROVE  LET o == ptr'[t][j] IN
      /\ o[1] = t /\ value'[o[2]] = j
      /\ fate'[o] # "unborn"
      /\ fate'[o] = "live" \/ o[2] \in gone' \/ (pc'[t] = "cleanup" /\ Id(t)' = j)
    BY DEF ElementsRight
  <2> DEFINE o == ptr[t][j]
  <2>1. j # i /\ ptr'[t][j] = o
    BY <1>4
  <2>2. /\ o[1] = t /\ value[o[2]] = j /\ fate[o] # "unborn" /\ o \in Objects
        /\ fate[o] = "live" \/ o[2] \in gone
    BY <1>1, <1>3, <2>1 DEF ElementsRight, i
  <2> HIDE DEF o
  <2>3. fate'[o] = fate[o]
    BY <1>5, <2>2
  <2>4. QED
    BY <1>1, <2>1, <2>2, <2>3
<1>8. HandRight(t)'
  <2>1. CASE pc'[t] = "idle"
    BY <2>1 DEF HandRight, Storing
  <2>2. CASE pc'[t] = "link"
    <3>1. PICK o \in Fresh(t, v) : my' = [my EXCEPT ![t].obj = o] /\ fate' = [fate EXCEPT ![o] = "live"]
      BY <1>1, <2>2 DEF v
    <3>2. my'[t].obj = o /\ my'[t].var = v
      BY <3>1, SetObj DEF TypeOK, v
    <3>3. o \in Objects /\ o[1] = t /\ o[2] = v /\ fate'[o] = "live"
      BY <3>1 DEF Fresh, TypeOK, OthersOK
    <3>4. Id(t)' = i
      BY <1>1, <1>2, <3>2 DEF Id
    <3>5. QED
      BY <1>4, <2>2, <3>2, <3>3, <3>4 DEF HandRight, Storing
  <2>3. QED
    BY <1>1, <2>1, <2>2
<1>9. ASSUME NEW o \in Objects, o[1] = t, fate'[o] = "live" PROVE IsHeld(o)'
  <2>1. CASE fate'[o] = fate[o]
    <3>1. IsHeld(o)
      BY <1>9, <2>1 DEF Objectwise, LiveIsHeld, IsHeld
    <3>2. value[o[2]] \in Ids /\ ptr[t][value[o[2]]] = o
      BY <1>1, <1>9, <3>1 DEF IsHeld, Storing
    <3>3. ptr[t][i] # Null => fate[ptr[t][i]] # "live"
      BY <1>1 DEF Objectwise, InHand, i
    <3>4. o # Null
      BY ThreadLocalAssumption DEF Objects
    <3>5. value[o[2]] # i
      BY <1>9, <2>1, <3>2, <3>3, <3>4
    <3>6. ptr'[t][value[o[2]]] = o
      BY <1>4, <3>2, <3>5
    <3>7. QED
      BY <1>1, <1>9, <3>2, <3>6 DEF IsHeld
  <2>2. CASE pc'[t] = "link" /\ my'[t].obj = o
    BY <1>9, <2>2 DEF IsHeld, Storing
  <2>3. QED
    BY <1>5, <2>1, <2>2
<1>10. QED
  BY <1>6, <1>7, <1>8, <1>9, Together

\* ... and storing it.
LEMMA StoreKeeps ==
  ASSUME TypeOK, Calls, IdsGiven, Objectwise, NEW t \in Threads, Elsewhere(t), Store(t)
  PROVE  PointsRight' /\ InHand' /\ LiveIsHeld'
<1> DEFINE i == Id(t)
           b == my[t].obj
<1>1. /\ pc[t] = "store" /\ pc'[t] = "idle" /\ UNCHANGED <<value, gone, fate>>
      /\ ptr' = [ptr EXCEPT ![t][i] = b]
  BY DEF Store, Go, Return, ids, TypeOK, PcOK
<1>2. i \in Ids /\ i = value[my[t].var]
  BY <1>1, CallHas, StepSets DEF Id
<1>3. ElementsRight(t) /\ \A j \in Ids : ptr[t][j] # Null => ptr[t][j] \in Objects /\ ptr[t][j][2] \in Vars
  BY PointsTo DEF ElementsRight, Objectwise, PointsRight
<1>4. /\ b \in Objects /\ b[1] = t /\ value[b[2]] = i /\ fate[b] = "live" /\ ptr[t][i] = Null
  BY <1>1, <1>2 DEF Objectwise, InHand, Storing
<1>5. /\ ptr'[t][i] = b /\ \A j \in Ids \ {i} : ptr'[t][j] = ptr[t][j]
      /\ \A u \in Threads \ {t} : ptr'[u] = ptr[u]
  BY <1>1, <1>2 DEF TypeOK, PtrOK
<1> HIDE DEF i
<1>6. /\ \A u \in Threads \ {t} : ElementsRight(u)' /\ HandRight(u)'
      /\ \A o \in Objects : o[1] # t /\ fate'[o] = "live" => IsHeld(o)'
  BY <1>1, <1>5, OthersObjects
<1>7. ElementsRight(t)'
  <2> SUFFICES ASSUME NEW j \in Ids, ptr'[t][j] # Null
               PROVE  LET o == ptr'[t][j] IN
      /\ o[1] = t /\ value'[o[2]] = j
      /\ fate'[o] # "unborn"
      /\ fate'[o] = "live" \/ o[2] \in gone' \/ (pc'[t] = "cleanup" /\ Id(t)' = j)
    BY DEF ElementsRight
  <2>1. CASE j = i
    <3>1. ptr'[t][j] = b /\ fate'[b] = "live" /\ value'[b[2]] = j
      BY <1>1, <1>4, <1>5, <2>1
    <3>2. QED
      BY <1>4, <3>1
  <2>2. CASE j # i
    <3>1. ptr'[t][j] = ptr[t][j]
      BY <1>5, <2>2
    <3>2. QED
      BY <1>1, <1>3, <3>1 DEF ElementsRight
  <2>3. QED
    BY <2>1, <2>2
<1>8. HandRight(t)'
  BY <1>1 DEF HandRight, Storing
<1>9. ASSUME NEW o \in Objects, o[1] = t, fate'[o] = "live" PROVE IsHeld(o)'
  <2>1. IsHeld(o)
    BY <1>1, <1>9 DEF Objectwise, LiveIsHeld, IsHeld
  <2>2. CASE my[t].obj = o
    BY <1>1, <1>2, <1>4, <1>5, <1>9, <2>2 DEF IsHeld
  <2>3. CASE value[o[2]] \in Ids /\ ptr[t][value[o[2]]] = o
    <3>1. value[o[2]] # i
      BY <1>4, <2>3, ThreadLocalAssumption DEF Objects
    <3>2. QED
      BY <1>1, <1>5, <1>9, <2>3, <3>1 DEF IsHeld
  <2>4. QED
    BY <1>9, <2>1, <2>2, <2>3 DEF IsHeld
<1>10. QED
  BY <1>6, <1>7, <1>8, <1>9, Together

\* What a thread that exits deletes: all its objects, and nothing else.
LEMMA DisposeAllTakes ==
  ASSUME TypeOK, Objectwise, NEW t \in Threads, DisposeAll(t)
  PROVE  /\ pc[t] = "dispose all" /\ pc'[t] = "exited" /\ UNCHANGED <<value, gone, my, next>>
         /\ ptr'[t] = [i \in Ids |-> Null] /\ \A u \in Threads \ {t} : ptr'[u] = ptr[u]
         /\ \A o \in Objects : /\ fate'[o] = "live" <=> fate[o] = "live" /\ o[1] # t
                               /\ o[1] # t => fate'[o] = fate[o]
                               /\ fate'[o] = "twice" => fate[o] = "twice" \/ o[2] \in gone
<1> DEFINE p == UNION {Pointee(t, i) : i \in Ids}
<1>1. /\ pc[t] = "dispose all" /\ pc'[t] = "exited" /\ UNCHANGED <<value, gone, my, next>>
      /\ ptr' = [ptr EXCEPT ![t] = [i \in Ids |-> Null]] /\ fate' = Deleted(p)
  BY DEF DisposeAll, Go, ids, TypeOK, PcOK
<1>2. ASSUME NEW o \in Objects
      PROVE  o \in p <=> \E i \in Ids : ptr[t][i] = o
  BY ThreadLocalAssumption DEF Pointee, Objects
<1>3. ASSUME NEW o \in Objects, o \in p
      PROVE  o[1] = t /\ (fate[o] = "live" \/ o[2] \in gone)
  <2>1. PICK i \in Ids : ptr[t][i] = o
    BY <1>2, <1>3
  <2>2. o # Null
    BY ThreadLocalAssumption DEF Objects
  <2>3. QED
    BY <1>1, <2>1, <2>2 DEF Objectwise, PointsRight
<1>4. ASSUME NEW o \in Objects, fate[o] = "live", o[1] = t
      PROVE  o \in p
  <2>1. value[o[2]] \in Ids /\ ptr[t][value[o[2]]] = o
    BY <1>1, <1>4 DEF Objectwise, LiveIsHeld, Storing
  <2>2. QED
    BY <1>2, <2>1
<1> HIDE DEF p
<1>5. \A o \in Objects : /\ fate'[o] = "live" <=> fate[o] = "live" /\ o \notin p
                         /\ o \notin p => fate'[o] = fate[o]
                         /\ fate'[o] = "twice" => fate[o] = "twice" \/ (o \in p /\ fate[o] # "live")
  BY <1>1, DeletedFates, ZenonT(60) DEF TypeOK, OthersOK
<1>6. ptr'[t] = [i \in Ids |-> Null] /\ \A u \in Threads \ {t} : ptr'[u] = ptr[u]
  BY <1>1 DEF TypeOK, PtrOK
<1>7. QED
  BY <1>1, <1>3, <1>4, <1>5, <1>6

\* A thread's exit keeps the parts about objects.
LEMMA DisposeAllKeeps ==
  ASSUME TypeOK, Calls, IdsGiven, Objectwise, NEW t \in Threads, Elsewhere(t), DisposeAll(t)
  PROVE  PointsRight' /\ InHand' /\ LiveIsHeld'
<1>1. /\ \A u \in Threads \ {t} : ElementsRight(u)' /\ HandRight(u)'
      /\ \A o \in Objects : o[1] # t /\ fate'[o] = "live" => IsHeld(o)'
  <2>1. \A o \in Objects : fate'[o] = fate[o] \/ o[1] = t
    BY DisposeAllTakes, ZenonT(60)
  <2>2. value' = value /\ gone' = gone /\ \A u \in Threads \ {t} : ptr'[u] = ptr[u]
    BY DisposeAllTakes
  <2>3. QED
    BY <2>1, <2>2, OthersObjects
<1>2. ElementsRight(t)' /\ HandRight(t)'
  <2>1. pc'[t] = "exited" /\ ptr'[t] = [i \in Ids |-> Null]
    BY DisposeAllTakes
  <2>2. \A i \in Ids : ptr'[t][i] = Null
    BY <2>1
  <2>3. QED
    BY <2>1, <2>2 DEF ElementsRight, HandRight, Storing
<1>3. \A o \in Objects : o[1] = t => fate'[o] # "live"
  BY DisposeAllTakes
<1>4. QED
  BY <1>1, <1>2, <1>3, Together

\* What destroy deletes: what it copied, all of it objects of its variable.
LEMMA DisposeCopiesTakes ==
  ASSUME TypeOK, Calls, Objectwise, NEW t \in Threads, DisposeCopies(t)
  PROVE  /\ pc[t] = "dispose copies" /\ pc'[t] = "idle" /\ UNCHANGED <<value, gone, ptr, next>>
         /\ my[t].var \in gone /\ my'[t].var = Null
         /\ \A o \in my[t].copies : o[2] = my[t].var
         /\ \A o \in Objects : /\ fate'[o] = "live" <=> fate[o] = "live" /\ o \notin my[t].copies
                               /\ o \notin my[t].copies => fate'[o] = fate[o]
                               /\ o \in my[t].copies => o[2] \in gone /\ fate'[o] \notin {"unborn", "live"}
<1>1. pc[t] = "dispose copies" /\ pc'[t] = "idle" /\ my'[t].var = Null
  BY ReturnMoves DEF DisposeCopies, TypeOK
<1>2. UNCHANGED <<value, gone, ptr, next>> /\ fate' = Deleted(my[t].copies)
  BY DEF DisposeCopies, ids, mem
<1>3. my[t].var \in gone
  BY <1>1, StepSets DEF Calls
<1>4. \A o \in my[t].copies : o[2] = my[t].var
  BY <1>1 DEF Objectwise, CopiesRight
<1>5. \A o \in Objects : /\ fate'[o] = "live" <=> fate[o] = "live" /\ o \notin my[t].copies
                         /\ o \notin my[t].copies => fate'[o] = fate[o]
                         /\ o \in my[t].copies => fate'[o] \in {"deleted", "twice"}
  BY <1>2, DeletedFates DEF TypeOK, OthersOK
<1>6. QED
  BY <1>1, <1>2, <1>3, <1>4, <1>5

\* destroy's deletions keep the parts about objects.
LEMMA DisposeCopiesKeeps ==
  ASSUME TypeOK, Calls, IdsGiven, Objectwise, NEW t \in Threads, Elsewhere(t), DisposeCopies(t)
  PROVE  PointsRight' /\ InHand' /\ LiveIsHeld'
<1>1. /\ \A u \in Threads \ {t} : ElementsRight(u)' /\ HandRight(u)'
      /\ \A o \in Objects : o[1] # t /\ fate'[o] = "live" => IsHeld(o)'
  BY DisposeCopiesTakes, OthersObjects
<1>2. ElementsRight(t)'
  <2> SUFFICES ASSUME NEW j \in Ids, ptr'[t][j] # Null
               PROVE  LET o == ptr'[t][j] IN
      /\ o[1] = t /\ value'[o[2]] = j
      /\ fate'[o] # "unborn"
      /\ fate'[o] = "live" \/ o[2] \in gone' \/ (pc'[t] = "cleanup" /\ Id(t)' = j)
    BY DEF ElementsRight
  <2>1. ptr' = ptr /\ value' = value /\ gone' = gone /\ pc[t] = "dispose copies"
    BY DisposeCopiesTakes
  <2> DEFINE o == ptr[t][j]
  <2>2. /\ o[1] = t /\ value[o[2]] = j /\ fate[o] # "unborn" /\ o \in Objects
        /\ fate[o] = "live" \/ o[2] \in gone
    BY <2>1, PointsTo, ZenonT(60) DEF Objectwise, PointsRight
  <2>3. ptr'[t][j] = o
    BY <2>1
  <2> HIDE DEF o
  <2>4. fate'[o] = fate[o] \/ (o[2] \in gone /\ fate'[o] # "unborn")
    BY <2>2, DisposeCopiesTakes
  <2>5. QED
    BY <2>1, <2>2, <2>3, <2>4
<1>3. HandRight(t)'
  BY DisposeCopiesTakes DEF HandRight, Storing
<1>4. ASSUME NEW o \in Objects, o[1] = t, fate'[o] = "live" PROVE IsHeld(o)'
  <2>1. fate[o] = "live" /\ pc[t] = "dispose copies" /\ value' = value /\ ptr' = ptr
    BY <1>4, DisposeCopiesTakes
  <2>2. IsHeld(o)
    BY <2>1 DEF Objectwise, LiveIsHeld, IsHeld
  <2>3. QED
    BY <1>4, <2>1, <2>2 DEF IsHeld, Storing
<1>5. QED
  BY <1>1, <1>2, <1>3, <1>4, Together

-----------------------------------------------------------------------------
\* Nodes of elements with objects.

\* But for swap, exit and destroy, a linked node stays linked.
LEMMA NodesStay ==
  ASSUME TypeOK, Calls, IdsGiven, NEW t \in Threads, Start(t) \/ Progress(t), ~Swap(t), ~Unlink(t),
         NEW u \in Threads, NEW i \in Ids, Linked(u, i)
  PROVE  Linked(u, i)' \/ (CopyElements(t) /\ i = Id(t))
<1>1. Null \notin Entries /\ Head \notin Threads /\ u \in Entries /\ u # Head
  BY ThreadLocalAssumption DEF Entries
<1>2. next \in [Entries -> Links]
  BY DEF TypeOK, LinksOK
<1>3. CASE UNCHANGED next
  BY <1>3 DEF Linked
<1>4. CASE ReserveHead(t)
  <2>1. \E x : next' = [next EXCEPT ![Head] = x]
    BY <1>4 DEF ReserveHead
  <2>2. next'[u] = next[u]
    BY <1>1, <1>2, <2>1
  <2>3. QED
    BY <2>2 DEF Linked
<1>5. CASE PushBack(t)
  <2> DEFINE j == Id(t)
             l == prev[Head][j]
             N == [next EXCEPT ![t][j] = Head]
  <2>1. UNCHANGED next \/ next' = [N EXCEPT ![l][j] = t]
    BY <1>5 DEF PushBack
  <2>2. N \in [Entries -> Links]
    BY <1>2, NodeLink DEF Entries
  <2>3. N[u][i] \in {next[u][i], Head}
    BY <1>1, <1>2 DEF Links
  <2> HIDE DEF N, j, l
  <2>4. next' = [N EXCEPT ![l][j] = t] => next'[u][i] \in {N[u][i], t}
    BY <1>1, <2>2 DEF Links
  <2>5. QED
    BY <1>1, <2>1, <2>3, <2>4 DEF Linked, Entries
<1>6. CASE CopyElements(t)
  <2>1. PICK j \in Ids : j = Id(t)
    <3>1. pc[t] = "destroy"
      BY <1>6 DEF CopyElements, Go
    <3>2. QED
      BY <3>1, CallHas, StepSets
  <2>2. \E x : next'[u] = [next[u] EXCEPT ![j] = x]
    BY <1>6, <1>1, <2>1 DEF CopyElements
  <2>3. i # j => next'[u][i] = next[u][i]
    BY <1>1, <1>2, <2>2 DEF Links
  <2>4. QED
    BY <1>6, <2>1, <2>3 DEF Linked
<1>7. QED
  BY <1>3, <1>4, <1>5, <1>6 DEF Start, Progress, Begin, Destroy, GetOrAllocate, Allocate, Copy,
       Found, Dispose, Cleanup, AlreadyLinked, Store, LockAll, Visit, Release,
       DisposeAll, DisposeCopies, mem

\* Unlinking t's nodes does not unlink another thread's.
LEMMA ErasedKeeps ==
  ASSUME TypeOK, NEW t \in Threads, Unlink(t), NEW u \in Threads \ {t}, NEW i \in Ids, Linked(u, i)
  PROVE  Linked(u, i)'
<1>1. next' = Erased(next, prev, t, Ids) /\ u \in Entries
  BY DEF Unlink, Entries
<1>2. next'[u][i] = CASE i \in Ids /\ Linked(t, i) /\ u = t -> Null
                      [] i \in Ids /\ Linked(t, i) /\ u # t /\ u = prev[t][i] -> next[t][i]
                      [] OTHER -> next[u][i]
  BY <1>1 DEF Erased
<1>3. CASE Linked(t, i) /\ u = prev[t][i]
  BY <1>2, <1>3 DEF Linked
<1>4. CASE ~(Linked(t, i) /\ u = prev[t][i])
  BY <1>2, <1>4 DEF Linked
<1>5. QED
  BY <1>3, <1>4

\* destroy takes nodes from its own list only, and leaves one.
LEMMA CopyElementsTakes ==
  ASSUME TypeOK, Calls, IdsGiven, Objectwise, NEW t \in Threads, CopyElements(t), Running'
  PROVE  /\ pc[t] = "destroy" /\ pc'[t] = "dispose copies" /\ UNCHANGED <<value, gone, ptr, fate>>
         /\ Id(t) \in Ids /\ my[t].var \in gone
         /\ my'[t].var = my[t].var /\ my'[t].saved = my[t].saved
         /\ my'[t].copies = UNION {Pointee(u, Id(t)) : u \in Removed(Id(t))}
         /\ Emptied(my[t].var)'
<1>1. pc[t] = "destroy" /\ (pc'[t] = "dispose copies" \/ pc'[t] = "bad address")
      /\ \A u \in Threads \ {t} : pc'[u] = pc[u]
  BY DEF CopyElements, Go, TypeOK, PcOK
<1>2. pc'[t] = "dispose copies"
  BY <1>1 DEF Running, Crashed
<1>3. Id(t) \in Ids /\ my[t].var \in gone /\ Alone(t, my[t].var)
  BY <1>1, CallHas, StepSets DEF Calls
<1>4. UNCHANGED <<value, gone, ptr, fate>>
      /\ my' = [my EXCEPT ![t].copies = UNION {Pointee(u, Id(t)) : u \in Removed(Id(t))}]
  BY DEF CopyElements, ids
<1>5. /\ my'[t].var = my[t].var /\ my'[t].saved = my[t].saved
      /\ my'[t].copies = UNION {Pointee(u, Id(t)) : u \in Removed(Id(t))}
      /\ \A u \in Threads \ {t} : my'[u] = my[u]
  BY <1>4, SetCopies DEF TypeOK
<1>6. Emptied(my[t].var)'
  <2>1. my'[t].var \in gone' /\ \A u \in Threads \ {t} : my'[u].var # my'[t].var
    BY <1>3, <1>4, <1>5 DEF Alone, InCall
  <2>2. \A u \in Threads : my'[u].var = my'[t].var => pc'[u] = "dispose copies"
    BY <1>2, <2>1
  <2>3. QED
    BY <2>1, <2>2 DEF Emptied, InCall
<1>7. QED
  BY <1>1, <1>2, <1>3, <1>4, <1>5, <1>6

\* A destroyer can only go on with destroy.
LEMMA DisposingStep ==
  ASSUME TypeOK, NEW t \in Threads, Start(t) \/ Progress(t)
  PROVE  /\ pc[t] = "dispose copies" => DisposeCopies(t)
         /\ pc[t] = "destroy" => CopyElements(t)
<1> PcOK
  BY DEF TypeOK
<1>1. ~Start(t) \/ pc[t] = "idle"
  BY DEF Start, Begin, Destroy, Unlink, Go
<1>2. GetOrAllocate(t) \/ Allocate(t) \/ ReserveHead(t) \/ Copy(t) \/ Swap(t) => pc[t] \notin Destroying
  BY DEF GetOrAllocate, Allocate, ReserveHead, Copy, Swap, Go, Destroying
<1>3. Found(t) \/ Dispose(t) \/ Cleanup(t) \/ AlreadyLinked(t) \/ PushBack(t) => pc[t] \notin Destroying
  BY DEF Found, Dispose, Cleanup, AlreadyLinked, PushBack, Go, Return, Destroying
<1>4. Store(t) \/ LockAll(t) \/ Visit(t) \/ Release(t) \/ DisposeAll(t) => pc[t] \notin Destroying
  BY DEF Store, LockAll, Visit, Release, DisposeAll, Go, Return, Destroying
<1>5. CopyElements(t) => pc[t] = "destroy"
  BY DEF CopyElements, Go
<1>6. DisposeCopies(t) => pc[t] = "dispose copies"
  BY DEF DisposeCopies, Return, Go
<1>7. QED
  BY <1>1, <1>2, <1>3, <1>4, <1>5, <1>6 DEF Progress, Destroying

\* A destroyed variable stays destroyed, and only destroy destroys one.
LEMMA GoneGrows ==
  ASSUME NEW t \in Threads, Start(t) \/ Progress(t)
  PROVE  gone \subseteq gone' /\ (gone' = gone \/ \E v \in Vars : Destroy(t, v))
<1>1. ASSUME NEW v \in Vars, NEW o \in Ops, Begin(t, v, o) PROVE UNCHANGED gone
  BY <1>1 DEF Begin
<1>2. ASSUME NEW v \in Vars, Destroy(t, v) PROVE gone \subseteq gone'
  BY <1>2 DEF Destroy
<1>3. CASE Cleanup(t)
  BY <1>3 DEF Cleanup
<1>4. CASE PushBack(t)
  BY <1>4 DEF PushBack
<1>5. QED
  BY <1>1, <1>2, <1>3, <1>4 DEF Start, Progress, Unlink, GetOrAllocate, Allocate, ReserveHead, Copy, Swap,
       Found, Dispose, AlreadyLinked, Store, LockAll, Visit, Release, DisposeAll, CopyElements, DisposeCopies

\* A list once emptied by destroy stays so: its variable is not called again.
LEMMA EmptiedStays ==
  ASSUME TypeOK, Calls, IdsGiven, NEW t \in Threads, Start(t) \/ Progress(t), NEW v \in Vars, Emptied(v)
  PROVE  Emptied(v)'
<1>1. v \in gone /\ v \in gone' /\ Elsewhere(t)
  BY GoneGrows, MyOKKept DEF Emptied
<1>2. my'[t].var # v
  <2>1. CASE my[t].var = v
    <3>1. DisposeCopies(t)
      BY <2>1, DisposingStep DEF Emptied, InCall
    <3>2. my'[t].var = Null
      BY <3>1, ReturnMoves DEF DisposeCopies, TypeOK
    <3>3. QED
      BY <3>2, ThreadLocalAssumption
  <2>2. CASE my[t].var # v
    BY <1>1, <2>2, VarStays
  <2>3. QED
    BY <2>1, <2>2
<1>3. QED
  BY <1>1, <1>2 DEF Emptied, InCall, Elsewhere

\* Which step leads where.
LEMMA StepTo ==
  ASSUME TypeOK, NEW t \in Threads, Start(t) \/ Progress(t)
  PROVE  /\ pc'[t] = "swap" => Copy(t)
         /\ pc'[t] = "store" => AlreadyLinked(t) \/ PushBack(t)
         /\ pc[t] = "dispose all" => DisposeAll(t)
         /\ pc'[t] = "exited" => DisposeAll(t)
         /\ pc[t] = "store" => Store(t)
<1> PcOK
  BY DEF TypeOK
<1>1. ASSUME NEW v \in Vars, NEW o \in Ops, Begin(t, v, o)
      PROVE  pc'[t] \notin {"swap", "store", "exited"} /\ pc[t] = "idle"
  <2>1. pc[t] = "idle" /\ pc'[t] = IF value[v] = Invalid THEN "get or allocate" ELSE WithId(t, o, value[v])
    BY <1>1 DEF Begin, Go, PcOK
  <2>2. value[v] \in Nat /\ OthersOK
    BY DEF TypeOK, OthersOK
  <2>3. QED
    BY <2>1, <2>2, WithIdIn
<1>2. ASSUME NEW v \in Vars, Destroy(t, v) PROVE pc'[t] \notin {"swap", "store", "exited"} /\ pc[t] = "idle"
  BY <1>2 DEF Destroy, Go, PcOK
<1>3. CASE GetOrAllocate(t) \/ ReserveHead(t)
  BY <1>3, WithIdIn DEF GetOrAllocate, ReserveHead, Go, PcOK, WithId
<1>4. CASE Allocate(t) \/ LockAll(t) \/ CopyElements(t) \/ Visit(t)
  BY <1>4 DEF Allocate, LockAll, CopyElements, Visit, Go, PcOK
<1>5. CASE Swap(t) \/ Dispose(t) \/ Unlink(t) \/ Found(t) \/ Release(t) \/ DisposeCopies(t)
  BY <1>5 DEF Swap, Dispose, Unlink, Found, Release, DisposeCopies, Go, Return, PcOK
<1>6. CASE Cleanup(t)
  BY <1>6 DEF Cleanup, Go, Return, PcOK
<1>7. CASE Copy(t) \/ AlreadyLinked(t) \/ Store(t) \/ DisposeAll(t)
  BY <1>7 DEF Copy, AlreadyLinked, Store, DisposeAll, Go, Return, PcOK
<1>8. CASE PushBack(t)
  <2>1. Go(t, "link", IF Id(t) < cap[Head] THEN "store" ELSE "bad address")
    BY <1>8 DEF PushBack
  <2>2. QED
    BY <1>8, <2>1 DEF Go, PcOK
<1>9. QED
  BY <1>1, <1>2, <1>3, <1>4, <1>5, <1>6, <1>7, <1>8 DEF Start, Progress

\* An element gets a new object only when its own thread stores one.
LEMMA PointerMoves ==
  ASSUME TypeOK, NEW t \in Threads, Start(t) \/ Progress(t), NEW u \in Threads, NEW i \in Ids, ptr'[u][i] # Null
  PROVE  ptr'[u][i] = ptr[u][i] \/ (Store(t) /\ u = t /\ i = Id(t))
<1> ptr \in [Threads -> [Ids -> Pointers]]
  BY DEF TypeOK, PtrOK
<1>1. CASE Cleanup(t)
  <2>1. ptr' = [ptr EXCEPT ![t][Id(t)] = Null]
    BY <1>1 DEF Cleanup
  <2>2. QED
    BY <2>1
<1>2. CASE Store(t)
  <2>1. ptr' = [ptr EXCEPT ![t][Id(t)] = my[t].obj]
    BY <1>2 DEF Store
  <2>2. QED
    BY <1>2, <2>1
<1>3. CASE DisposeAll(t)
  BY <1>3 DEF DisposeAll
<1>4. CASE UNCHANGED ptr
  BY <1>4
<1>5. CASE PushBack(t)
  BY <1>5 DEF PushBack
<1>6. QED
  BY <1>1, <1>2, <1>3, <1>4, <1>5 DEF Start, Progress, Begin, Destroy, Unlink, GetOrAllocate, Allocate, ReserveHead,
     Copy, Swap, Found, Dispose, AlreadyLinked, LockAll, Visit, Release, CopyElements, DisposeCopies, mem

\* A node is unlinked by its thread's exit, or its list's emptying, or a swap of
\* arrays.
LEMMA NodesStayLinked ==
  ASSUME TypeOK, Calls, IdsGiven, Objectwise, Running', NEW t \in Threads, Start(t) \/ Progress(t),
         NEW u \in Threads, NEW i \in Ids, Linked(u, i), ~(u = t /\ (Swap(t) \/ Unlink(t)))
  PROVE  Linked(u, i)' \/ (CopyElements(t) /\ i = Id(t))
<1>1. CASE Unlink(t)
  BY <1>1, ErasedKeeps
<1>2. CASE Swap(t)
  <2>1. next' = [next EXCEPT ![t] = my[t].saved.next]
    BY <1>2 DEF Swap
  <2>2. next'[u] = next[u]
    BY <1>2, <2>1 DEF TypeOK, LinksOK, Entries
  <2>3. QED
    BY <2>2 DEF Linked
<1>3. CASE ~Swap(t) /\ ~Unlink(t)
  BY <1>3, NodesStay
<1>4. QED
  BY <1>1, <1>2, <1>3

\* Two variables with one id are one variable.
LEMMA SameId ==
  ASSUME IdsGiven, NEW v \in Vars, NEW w \in Vars, value[v] = value[w], value[v] \in Ids
  PROVE  v = w
BY IdsArePositive DEF IdsGiven

\* An element with an object stays in its list.
LEMMA StoredIsLinkedKept ==
  ASSUME TypeOK, Calls, IdsGiven, Objectwise, Running', NEW t \in Threads, Start(t) \/ Progress(t)
  PROVE  StoredIsLinked'
<1>1. Elsewhere(t)
  BY MyOKKept
<1>2. Null \notin Entries
  BY ThreadLocalAssumption DEF Entries
<1>3. ASSUME NEW u \in Threads, NEW i \in Ids, ptr'[u][i] # Null, pc'[u] # "dispose all"
      PROVE  /\ Linked(u, i)' \/ Emptied(ptr[u][i][2])'
             /\ pc'[u] = "swap" => my'[u].saved.next[i] # Null \/ Emptied(ptr[u][i][2])'
  <2>1. CASE Store(t) /\ u = t /\ i = Id(t)
    <3>1. pc[t] = "store" /\ pc'[t] = "idle" /\ UNCHANGED next
      BY <2>1 DEF Store, Return, Go, TypeOK, PcOK
    <3>2. Linked(t, i)
      BY <2>1, <3>1 DEF Objectwise, StoredIsLinked
    <3>3. QED
      BY <2>1, <3>1, <3>2 DEF Linked
  <2>2. CASE ptr'[u][i] = ptr[u][i]
    <3>1. PICK o \in Objects : o = ptr[u][i] /\ o[2] \in Vars
      BY <1>3, <2>2, PointsTo
    <3>2. pc[u] # "dispose all"
      <4>1. CASE u # t
        BY <1>3, <1>1, <4>1 DEF Elsewhere
      <4>2. CASE u = t /\ pc[t] = "dispose all"
        <5>1. ptr'[t] = [j \in Ids |-> Null]
          BY <4>2, StepTo, DisposeAllTakes
        <5>2. QED
          BY <1>3, <4>2, <5>1
      <4>3. QED
        BY <4>1, <4>2
    <3>3. /\ Linked(u, i) \/ Emptied(o[2])
          /\ pc[u] = "swap" => my[u].saved.next[i] # Null \/ Emptied(o[2])
      BY <1>3, <2>2, <3>1, <3>2 DEF Objectwise, StoredIsLinked
    <3>4. Emptied(o[2]) => Emptied(o[2])'
      BY <3>1, EmptiedStays
    <3>5. Linked(u, i)' \/ Emptied(o[2])'
      <4>1. CASE u = t /\ Swap(t)
        <5>1. pc[t] = "swap" /\ next' = [next EXCEPT ![t] = my[t].saved.next]
          BY <4>1 DEF Swap, Go
        <5>2. next'[t] = my[t].saved.next
          BY <5>1 DEF TypeOK, LinksOK, Entries
        <5>3. QED
          BY <3>3, <3>4, <4>1, <5>1, <5>2 DEF Linked
      <4>2. CASE u = t /\ Unlink(t)
        BY <1>3, <4>2 DEF Unlink, Go, TypeOK, PcOK
      <4>3. CASE ~(u = t /\ (Swap(t) \/ Unlink(t)))
        <5>1. ASSUME CopyElements(t), i = Id(t) PROVE Emptied(o[2])'
          <6>1. value[o[2]] = i /\ value[my[t].var] = i /\ my[t].var \in Vars
            <7>1. value[o[2]] = i
              <8>1. ptr[u][i] # Null
                BY <1>3, <2>2
              <8>2. value[ptr[u][i][2]] = i
                BY <8>1 DEF Objectwise, PointsRight
              <8>3. QED
                BY <3>1, <8>2
            <7>2. my[t].var \in gone
              BY <5>1, CopyElementsTakes
            <7>3. QED
              BY <5>1, <7>1, <7>2 DEF Id, TypeOK, OthersOK
          <6>2. o[2] = my[t].var
            BY <3>1, <6>1, SameId
          <6>3. my'[t].var = o[2] /\ Emptied(my[t].var)'
            BY <5>1, <6>2, CopyElementsTakes
          <6>4. QED
            BY <6>3 DEF Emptied, InCall
        <5>2. QED
          BY <3>3, <3>4, <4>3, <5>1, NodesStayLinked
      <4>4. QED
        BY <4>1, <4>2, <4>3
    <3>6. ASSUME pc'[u] = "swap" PROVE my'[u].saved.next[i] # Null \/ Emptied(o[2])'
      <4>1. CASE u # t
        BY <1>1, <3>3, <3>4, <3>6, <4>1 DEF Elsewhere
      <4>2. CASE u = t
        <5>1. my' = [my EXCEPT ![t].saved = [next |-> next[t], prev |-> prev[t]]]
          BY <3>6, <4>2, StepTo DEF Copy
        <5>2. my'[t].saved = [next |-> next[t], prev |-> prev[t]]
          BY <5>1, SetSaved DEF TypeOK
        <5>3. QED
          BY <3>3, <3>4, <4>2, <5>2 DEF Linked
      <4>3. QED
        BY <4>1, <4>2
    <3>7. QED
      BY <2>2, <3>1, <3>5, <3>6 DEF Emptied
  <2>3. QED
    BY <1>3, <2>1, <2>2, PointerMoves
<1>4. ASSUME NEW u \in Threads, pc'[u] = "store" PROVE next'[u][Id(u)'] # Null
  <2>1. CASE u # t
    <3>1. pc[u] = "store" /\ my'[u] = my[u]
      BY <1>4, <1>1, <2>1 DEF Elsewhere
    <3>2. PICK i \in Ids, v \in Vars : i = Id(u) /\ v = my[u].var /\ value[v] = i
      BY <3>1, CallHas, StepSets DEF Id
    <3>3. Id(u)' = i
      BY <3>1, <3>2, IdsStay, IdsArePositive DEF Id
    <3>4. Linked(u, i)
      BY <3>1, <3>2 DEF Objectwise, StoredIsLinked
    <3>5. ~(CopyElements(t) /\ i = Id(t))
      <4>1. ASSUME CopyElements(t), i = Id(t) PROVE FALSE
        <5>1. value[my[t].var] = i /\ my[t].var \in Vars /\ pc[t] = "destroy"
          BY <4>1, CopyElementsTakes DEF Id, TypeOK, OthersOK
        <5>2. my[t].var = my[u].var
          BY <3>2, <5>1, SameId
        <5>3. QED
          BY <2>1, <5>1, <5>2, StepSets DEF Calls, Alone, InCall
      <4>2. QED
        BY <4>1
    <3>6. Linked(u, i)'
      BY <2>1, <3>4, <3>5, NodesStayLinked
    <3>7. QED
      BY <3>3, <3>6 DEF Linked
  <2>2. CASE u = t /\ AlreadyLinked(t)
    <3>1. Linked(t, Id(t)) /\ UNCHANGED <<next, my, value>>
      BY <2>2 DEF AlreadyLinked, mem, ids
    <3>2. QED
      BY <2>2, <3>1 DEF Linked, Id
  <2>3. CASE u = t /\ PushBack(t)
    <3> DEFINE i == Id(t)
               l == prev[Head][i]
    <3>1. Go(t, "link", IF i < cap[Head] THEN "store" ELSE "bad address")
      BY <2>3 DEF PushBack
    <3>2. pc[t] = "link" /\ i < cap[Head]
      BY <1>4, <2>3, <3>1 DEF Go, TypeOK, PcOK
    <3>3. i \in Ids
      BY <3>2, CallHas, StepSets
    <3>4. next' = [next EXCEPT ![t][i] = Head, ![l][i] = t]
      BY <2>3, <3>2 DEF PushBack
    <3>5. UNCHANGED <<my, value>>
      BY <2>3 DEF PushBack, ids
    <3> DEFINE N == [next EXCEPT ![t][i] = Head]
    <3>6. i' = i
      BY <3>5 DEF Id
    <3> HIDE DEF i, l
    <3>7. N \in [Entries -> Links] /\ N[t][i] = Head
      BY <3>3, NodeLink DEF TypeOK, LinksOK, Links, Entries
    <3>8. next' = [N EXCEPT ![l][i] = t]
      BY <3>4
    <3> HIDE DEF N
    <3>9. next'[t][i] \in {Head, t}
      BY <3>3, <3>7, <3>8 DEF Links, Entries
    <3>10. QED
      BY <1>2, <2>3, <3>6, <3>9 DEF i, Entries
  <2>4. QED
    BY <1>4, <2>1, <2>2, <2>3, StepTo
<1>5. QED
  BY <1>3, <1>4 DEF StoredIsLinked, Linked

\* The steps that delete an object, make one, or move one.
ObjectStep(t) == Dispose(t) \/ Cleanup(t) \/ Store(t) \/ DisposeAll(t) \/ DisposeCopies(t)

\* What destroy copies are elements of its own variable.
LEMMA CopiedAreRight ==
  ASSUME TypeOK, Calls, IdsGiven, Objectwise, NEW t \in Threads, CopyElements(t), Running'
  PROVE  \A o \in my'[t].copies : o[2] = my'[t].var
<1>1. /\ Id(t) \in Ids /\ my[t].var \in gone /\ my'[t].var = my[t].var
      /\ my'[t].copies = UNION {Pointee(u, Id(t)) : u \in Removed(Id(t))}
  BY CopyElementsTakes
<1>2. SUFFICES ASSUME NEW u \in Threads, NEW o \in Pointee(u, Id(t)) PROVE o[2] = my[t].var
  BY <1>1 DEF Removed
<1>3. o = ptr[u][Id(t)] /\ ptr[u][Id(t)] # Null
  BY <1>2 DEF Pointee
<1>4. o[2] \in Vars
  BY <1>1, <1>3, PointsTo
<1>5. value[o[2]] = Id(t)
  BY <1>1, <1>3 DEF Objectwise, PointsRight
<1>6. my[t].var \in Vars /\ value[my[t].var] = Id(t)
  BY <1>1 DEF Id, TypeOK, OthersOK
<1>7. QED
  BY <1>1, <1>4, <1>5, <1>6, SameId

\* The other steps leave the objects, the elements and what a call has in hand alone.
LEMMA QuietStep ==
  ASSUME TypeOK, Calls, IdsGiven, Objectwise, Running', NEW t \in Threads, Start(t) \/ Progress(t), ~ObjectStep(t)
  PROVE  /\ UNCHANGED <<ptr, fate>>
         /\ pc[t] # "cleanup" /\ pc'[t] \notin {"cleanup", "exited"}
         /\ pc[t] \in Storing <=> pc'[t] \in Storing
         /\ pc[t] \in Storing => my'[t] = my[t]
         /\ pc'[t] = "dispose copies" => \A o \in my'[t].copies : o[2] = my'[t].var
<1> PcOK
  BY DEF TypeOK
<1> USE DEF Storing
<1>1. pc'[t] \notin Crashed
  BY DEF Running
<1>2. ASSUME NEW v \in Vars, NEW o \in Ops, Begin(t, v, o)
      PROVE  UNCHANGED <<ptr, fate>> /\ pc[t] = "idle" /\ pc'[t] \in {"get or allocate", "lock", "copy", "element"}
  <2>1. pc[t] = "idle" /\ pc'[t] = IF value[v] = Invalid THEN "get or allocate" ELSE WithId(t, o, value[v])
    BY <1>2 DEF Begin, Go, PcOK
  <2>2. value[v] \in Nat /\ OthersOK
    BY DEF TypeOK, OthersOK
  <2>3. QED
    BY <1>2, <2>1, <2>2, WithIdIn DEF Begin, mem
<1>3. ASSUME NEW v \in Vars, Destroy(t, v)
      PROVE  UNCHANGED <<ptr, fate>> /\ pc[t] = "idle" /\ pc'[t] \in {"idle", "destroy"}
  BY <1>3 DEF Destroy, Go, PcOK, mem
<1>4. CASE GetOrAllocate(t) \/ ReserveHead(t)
  <2>1. pc[t] \in {"get or allocate", "reserve head"} /\ UNCHANGED <<ptr, fate>>
        /\ (pc'[t] = WithId(t, my[t].op, Id(t)) \/ pc'[t] = "allocate")
    BY <1>4 DEF GetOrAllocate, ReserveHead, Go, PcOK, mem
  <2>2. pc'[t] \in {"lock", "copy", "element", "allocate"}
    BY <2>1 DEF WithId
  <2>3. QED
    BY <2>1, <2>2
<1>5. CASE Allocate(t) \/ LockAll(t) \/ Visit(t) \/ Copy(t) \/ Swap(t) \/ Unlink(t)
  BY <1>5, <1>1 DEF Allocate, LockAll, Visit, Copy, Swap, Unlink, Go, PcOK, mem, Crashed
<1>6. CASE Found(t) \/ Release(t)
  BY <1>6 DEF Found, Release, Go, Return, PcOK, mem
<1>7. CASE AlreadyLinked(t)
  BY <1>7 DEF AlreadyLinked, Go, PcOK, mem
<1>8. CASE PushBack(t)
  <2>1. Go(t, "link", IF Id(t) < cap[Head] THEN "store" ELSE "bad address") /\ UNCHANGED <<ptr, fate, my>>
    BY <1>8 DEF PushBack
  <2>2. QED
    BY <1>1, <2>1 DEF Go, PcOK, Crashed
<1>9. CASE CopyElements(t)
  <2>1. pc[t] = "destroy" /\ pc'[t] = "dispose copies" /\ UNCHANGED <<ptr, fate>>
    BY <1>9, CopyElementsTakes
  <2>2. QED
    BY <1>9, <2>1, CopiedAreRight
<1>10. QED
  BY <1>2, <1>3, <1>4, <1>5, <1>6, <1>7, <1>8, <1>9 DEF Start, Progress, ObjectStep

\* The part of the invariant about objects is kept by every step that does not crash.
LEMMA ObjectwiseKept ==
  ASSUME TypeOK, Calls, IdsGiven, Objectwise, Running', NEW t \in Threads, Start(t) \/ Progress(t)
  PROVE  Objectwise'
<1>1. Elsewhere(t)
  BY MyOKKept
<1>2. StoredIsLinked'
  BY StoredIsLinkedKept
<1>3. CASE ~ObjectStep(t)
  <2>1. /\ UNCHANGED <<ptr, fate>>
        /\ pc[t] # "cleanup" /\ pc'[t] \notin {"cleanup", "exited"}
        /\ pc[t] \in Storing <=> pc'[t] \in Storing
        /\ pc[t] \in Storing => my'[t] = my[t]
        /\ pc'[t] = "dispose copies" => \A o \in my'[t].copies : o[2] = my'[t].var
    BY <1>3, QuietStep
  <2>2. gone \subseteq gone'
    BY GoneGrows
  <2>3. \A v \in Vars : value[v] # Invalid => value'[v] = value[v]
    BY IdsStay
  <2>4. PointsRight' /\ InHand' /\ LiveIsHeld' /\ CopiesRight'
    BY <1>1, <2>1, <2>2, <2>3, NoObjectMoves
  <2>5. QED
    BY <1>2, <2>4 DEF Objectwise
<1>4. CASE ObjectStep(t)
  <2>1. PointsRight' /\ InHand' /\ LiveIsHeld'
    BY <1>1, <1>4, DisposeKeeps, CleanupKeeps, StoreKeeps, DisposeAllKeeps, DisposeCopiesKeeps DEF ObjectStep
  <2>2. pc'[t] # "dispose copies"
    BY <1>4 DEF ObjectStep, Dispose, Cleanup, Store, DisposeAll, DisposeCopies, Go, Return, TypeOK, PcOK
  <2>3. CopiesRight'
    BY <1>1, <2>2 DEF Elsewhere, CopiesRight, Objectwise
  <2>4. QED
    BY <1>2, <2>1, <2>3 DEF Objectwise
<1>5. QED
  BY <1>3, <1>4

-----------------------------------------------------------------------------
\* Deletions.

\* An object comes to life only in reset, for the variable that is called.
LEMMA FateMoves ==
  ASSUME TypeOK, Calls, IdsGiven, Objectwise, NEW t \in Threads, Start(t) \/ Progress(t), NEW o \in Objects
  PROVE  fate'[o] = "live" => fate[o] = "live" \/ (pc[t] = "cleanup" /\ o[1] = t /\ o[2] = my[t].var)
<1> fate \in [Objects -> Fates] /\ PcOK
  BY DEF TypeOK, OthersOK
<1>1. CASE Dispose(t)
  <2>1. fate' = Deleted(Pointee(t, Id(t)))
    BY <1>1 DEF Dispose
  <2>2. QED
    BY <2>1, DeletedFates
<1>2. CASE Cleanup(t)
  <2>1. pc[t] = "cleanup" /\ (UNCHANGED fate \/ \E f \in Fresh(t, my[t].var) : fate' = [fate EXCEPT ![f] = "live"])
    BY <1>2 DEF Cleanup
  <2>2. ASSUME NEW f \in Fresh(t, my[t].var), fate' = [fate EXCEPT ![f] = "live"]
        PROVE  fate'[o] = fate[o] \/ (fate'[o] = "live" /\ o[1] = t /\ o[2] = my[t].var)
    BY <2>2 DEF Fresh
  <2>3. QED
    BY <2>1, <2>2
<1>3. CASE DisposeAll(t)
  BY <1>3, DisposeAllTakes
<1>4. CASE DisposeCopies(t)
  <2>1. fate' = Deleted(my[t].copies) /\ \A c \in my[t].copies : c[2] \in gone
    BY <1>4, DisposeCopiesTakes DEF DisposeCopies
  <2>2. QED
    BY <2>1, DeletedFates
<1>5. CASE UNCHANGED fate
  BY <1>5
<1>6. CASE PushBack(t)
  BY <1>6 DEF PushBack
<1>7. QED
  BY <1>1, <1>2, <1>3, <1>4, <1>5, <1>6 DEF Start, Progress, Begin, Destroy, Unlink, GetOrAllocate, Allocate,
     ReserveHead, Copy, Swap, Found, AlreadyLinked, Store, LockAll, Visit, Release, CopyElements

\* destroy is where destroying begins.
LEMMA DestroyBegins ==
  ASSUME TypeOK, NEW t \in Threads, Start(t) \/ Progress(t), pc'[t] = "destroy"
  PROVE  \E v \in Vars : Destroy(t, v)
<1> PcOK
  BY DEF TypeOK
<1>1. ASSUME NEW v \in Vars, NEW o \in Ops, Begin(t, v, o) PROVE FALSE
  <2>1. pc'[t] = IF value[v] = Invalid THEN "get or allocate" ELSE WithId(t, o, value[v])
    BY <1>1 DEF Begin, Go, PcOK
  <2>2. value[v] \in Nat /\ OthersOK
    BY DEF TypeOK, OthersOK
  <2>3. QED
    BY <2>1, <2>2, WithIdIn
<1>2. ~GetOrAllocate(t) /\ ~ReserveHead(t)
  BY WithIdIn DEF GetOrAllocate, ReserveHead, Go, PcOK, WithId
<1>3. ~Allocate(t) /\ ~LockAll(t) /\ ~CopyElements(t) /\ ~Visit(t)
  BY DEF Allocate, LockAll, CopyElements, Visit, Go, PcOK
<1>4. ~Swap(t) /\ ~Dispose(t) /\ ~Unlink(t) /\ ~Found(t) /\ ~Release(t) /\ ~DisposeCopies(t)
  BY DEF Swap, Dispose, Unlink, Found, Release, DisposeCopies, Go, Return, PcOK
<1>5. ~Cleanup(t)
  BY DEF Cleanup, Go, Return, PcOK
<1>6. ~Copy(t) /\ ~AlreadyLinked(t) /\ ~Store(t) /\ ~DisposeAll(t)
  BY DEF Copy, AlreadyLinked, Store, DisposeAll, Go, Return, PcOK
<1>7. ~PushBack(t)
  <2>1. PushBack(t) => Go(t, "link", IF Id(t) < cap[Head] THEN "store" ELSE "bad address")
    BY DEF PushBack
  <2>2. QED
    BY <2>1 DEF Go, PcOK
<1>8. QED
  BY <1>1, <1>2, <1>3, <1>4, <1>5, <1>6, <1>7 DEF Start, Progress

\* What the beginning of destroy does.
LEMMA DestroyTakes ==
  ASSUME TypeOK, NEW t \in Threads, NEW v, Destroy(t, v)
  PROVE  /\ pc[t] = "idle" /\ v \notin gone /\ Alone(t, v) /\ gone' = gone \cup {v}
         /\ UNCHANGED <<mutex, value, cap, next, prev, ptr, fate, owed>>
         /\ \/ value[v] = Invalid /\ UNCHANGED <<pc, my>>
            \/ /\ value[v] # Invalid
               /\ pc'[t] = "destroy" /\ my'[t].var = v /\ my'[t].ref = cap[Head] /\ my'[t].at = Head
<1>1. ASSUME value[v] # Invalid
      PROVE  pc'[t] = "destroy" /\ my'[t].var = v /\ my'[t].ref = cap[Head] /\ my'[t].at = Head
  <2>1. Go(t, "idle", "destroy") /\ my' = [my EXCEPT ![t] = [Locals("destroy", v) EXCEPT !.ref = cap[Head]]]
    BY <1>1 DEF Destroy
  <2>2. pc'[t] = "destroy" /\ MyOK
    BY <2>1 DEF Go, TypeOK, PcOK
  <2>3. my' = [my EXCEPT ![t] = [Locals("destroy", v) EXCEPT !.ref = cap[Head]]]
    BY <2>1
  <2>4. my'[t].var = v /\ my'[t].ref = cap[Head] /\ my'[t].at = Head
    <3>1. my'[t] = [Locals("destroy", v) EXCEPT !.ref = cap[Head]]
      BY <2>2, <2>3 DEF MyOK
    <3>2. QED
      BY <3>1 DEF Locals
  <2>5. QED
    BY <2>2, <2>4
<1>2. QED
  BY <1>1 DEF Destroy, Go, TypeOK, PcOK, ids, mem

\* How an object that was live is deleted.
LEMMA FateLoss ==
  ASSUME TypeOK, Calls, IdsGiven, Objectwise, NEW t \in Threads, Start(t) \/ Progress(t), NEW o \in Objects,
         fate[o] = "live", fate'[o] # "live"
  PROVE  \/ pc[t] = "element" /\ o[2] = my[t].var
         \/ o[1] = t /\ DisposeAll(t)
         \/ pc[t] = "dispose copies" /\ o[2] = my[t].var
<1> fate \in [Objects -> Fates] /\ PcOK
  BY DEF TypeOK, OthersOK
<1>1. CASE Dispose(t)
  <2>1. pc[t] = "element" /\ fate' = Deleted(Pointee(t, Id(t)))
    BY <1>1 DEF Dispose, Go
  <2>2. Id(t) \in Ids /\ my[t].var \in Vars /\ Id(t) = value[my[t].var]
    BY <2>1, CallHas, StepSets DEF Id
  <2>3. o \in Pointee(t, Id(t))
    BY <2>1, DeletedFates
  <2>4. value[o[2]] = Id(t) /\ o[2] \in Vars
    BY <2>2, <2>3 DEF Pointee, Objectwise, PointsRight, Objects
  <2>5. QED
    BY <2>1, <2>2, <2>4, SameId
<1>2. CASE Cleanup(t)
  <2>1. UNCHANGED fate \/ \E f \in Fresh(t, my[t].var) : fate' = [fate EXCEPT ![f] = "live"]
    BY <1>2 DEF Cleanup
  <2>2. QED
    BY <2>1
<1>3. CASE DisposeAll(t)
  <2>1. fate'[o] = "live" <=> fate[o] = "live" /\ o[1] # t
    BY <1>3, DisposeAllTakes
  <2>2. QED
    BY <1>3, <2>1
<1>4. CASE DisposeCopies(t)
  <2>1. pc[t] = "dispose copies" /\ o \in my[t].copies
    BY <1>4, DisposeCopiesTakes
  <2>2. o[2] = my[t].var
    BY <2>1 DEF Objectwise, CopiesRight
  <2>3. QED
    BY <2>1, <2>2
<1>5. CASE UNCHANGED fate
  BY <1>5
<1>6. CASE PushBack(t)
  BY <1>6 DEF PushBack
<1>7. QED
  BY <1>1, <1>2, <1>3, <1>4, <1>5, <1>6 DEF Start, Progress, Begin, Destroy, Unlink, GetOrAllocate, Allocate,
     ReserveHead, Copy, Swap, Found, AlreadyLinked, Store, LockAll, Visit, Release, CopyElements

\* A step deletes an object a second time only if destroy has copied it and its
\* thread has exited.
LEMMA TwiceMoves ==
  ASSUME TypeOK, Calls, IdsGiven, Objectwise, CopiesAlive, NEW t \in Threads, Start(t) \/ Progress(t), NEW o \in Objects,
         fate'[o] = "twice"
  PROVE  fate[o] = "twice" \/ (o[2] \in gone /\ pc'[o[1]] = "exited")
<1> fate \in [Objects -> Fates] /\ PcOK
  BY DEF TypeOK, OthersOK
<1>1. CASE Dispose(t)
  <2>1. pc[t] = "element" /\ fate' = Deleted(Pointee(t, Id(t)))
    BY <1>1 DEF Dispose, Go
  <2>2. Id(t) \in Ids /\ my[t].var \in Vars /\ Id(t) = value[my[t].var] /\ my[t].var \notin gone
    BY <2>1, CallHas, StepSets DEF Id, Calls
  <2>3. CASE o \in Pointee(t, Id(t))
    <3>1. ptr[t][Id(t)] = o /\ ptr[t][Id(t)] # Null
      BY <2>3 DEF Pointee
    <3>2. /\ value[o[2]] = Id(t) /\ o[2] \in Vars
          /\ fate[o] = "live" \/ o[2] \in gone
      BY <2>1, <2>2, <3>1 DEF Objectwise, PointsRight, Objects
    <3>3. fate[o] = "live"
      BY <2>2, <3>2, SameId
    <3>4. QED
      BY <2>1, <2>3, <3>3, DeletedFates
  <2>4. QED
    BY <2>1, <2>3, DeletedFates
<1>2. CASE Cleanup(t)
  <2>1. UNCHANGED fate \/ \E f \in Fresh(t, my[t].var) : fate' = [fate EXCEPT ![f] = "live"]
    BY <1>2 DEF Cleanup
  <2>2. QED
    BY <2>1
<1>3. CASE DisposeAll(t)
  BY <1>3, DisposeAllTakes
<1>4. CASE DisposeCopies(t)
  <2>1. /\ pc[t] = "dispose copies" /\ fate' = Deleted(my[t].copies) /\ \A c \in my[t].copies : c[2] \in gone
        /\ \A u \in Threads \ {t} : pc'[u] = pc[u]
    BY <1>4, DisposeCopiesTakes, MyOKKept DEF DisposeCopies, Elsewhere
  <2>2. fate[o] = "twice" \/ (o \in my[t].copies /\ fate[o] # "live")
    <3> DEFINE p == my[t].copies
    <3>1. fate' = Deleted(p)
      BY <2>1
    <3> HIDE DEF p
    <3>2. fate[o] = "twice" \/ (o \in p /\ fate[o] # "live")
      BY <3>1, DeletedFates
    <3>3. QED
      BY <3>2 DEF p
  <2>3. CASE o \in my[t].copies /\ fate[o] # "live"
    <3>1. pc[o[1]] = "exited" /\ o[1] \in Threads
      BY <2>1, <2>3 DEF CopiesAlive, Objects
    <3>2. QED
      BY <2>1, <2>3, <3>1
  <2>4. QED
    BY <2>2, <2>3
<1>5. CASE UNCHANGED fate
  BY <1>5
<1>6. CASE PushBack(t)
  BY <1>6 DEF PushBack
<1>7. QED
  BY <1>1, <1>2, <1>3, <1>4, <1>5, <1>6 DEF Start, Progress, Begin, Destroy, Unlink, GetOrAllocate, Allocate,
     ReserveHead, Copy, Swap, Found, AlreadyLinked, Store, LockAll, Visit, Release, CopyElements

\* A thread that has exited takes no step.
LEMMA ExitedStays ==
  ASSUME TypeOK, Calls, IdsGiven, NEW t \in Threads, Start(t) \/ Progress(t), NEW u \in Threads, pc[u] = "exited"
  PROVE  pc'[u] = "exited"
<1> PcOK
  BY DEF TypeOK
<1>1. Start(t) => pc[t] = "idle"
  BY DEF Start, Begin, Destroy, Unlink, Go
<1>2. GetOrAllocate(t) \/ Allocate(t) \/ ReserveHead(t) \/ Copy(t) \/ Swap(t) \/ Found(t) \/ Dispose(t) => pc[t] # "exited"
  BY DEF GetOrAllocate, Allocate, ReserveHead, Copy, Swap, Found, Dispose, Go, Return
<1>3. Cleanup(t) \/ AlreadyLinked(t) \/ PushBack(t) \/ Store(t) \/ LockAll(t) \/ Visit(t) \/ Release(t) => pc[t] # "exited"
  BY DEF Cleanup, AlreadyLinked, PushBack, Store, LockAll, Visit, Release, Go, Return
<1>4. DisposeAll(t) \/ CopyElements(t) \/ DisposeCopies(t) => pc[t] # "exited"
  BY DEF DisposeAll, CopyElements, DisposeCopies, Go, Return
<1>5. u # t
  BY <1>1, <1>2, <1>3, <1>4 DEF Progress
<1>6. QED
  BY <1>5, MyOKKept DEF Elsewhere

\* Where destroying comes from.
LEMMA CopyingBegins ==
  ASSUME TypeOK, NEW t \in Threads, Start(t) \/ Progress(t), pc'[t] = "dispose copies"
  PROVE  CopyElements(t)
<1> PcOK
  BY DEF TypeOK
<1>1. ASSUME NEW v \in Vars, NEW o \in Ops, Begin(t, v, o) PROVE FALSE
  <2>1. pc'[t] = IF value[v] = Invalid THEN "get or allocate" ELSE WithId(t, o, value[v])
    BY <1>1 DEF Begin, Go, PcOK
  <2>2. value[v] \in Nat /\ OthersOK
    BY DEF TypeOK, OthersOK
  <2>3. QED
    BY <2>1, <2>2, WithIdIn
<1>2. ASSUME NEW v \in Vars, Destroy(t, v) PROVE FALSE
  BY <1>2 DEF Destroy, Go, PcOK
<1>3. ~GetOrAllocate(t) /\ ~ReserveHead(t)
  BY WithIdIn DEF GetOrAllocate, ReserveHead, Go, PcOK, WithId
<1>4. ~Allocate(t) /\ ~LockAll(t) /\ ~Visit(t)
  BY DEF Allocate, LockAll, Visit, Go, PcOK
<1>5. ~Swap(t) /\ ~Dispose(t) /\ ~Unlink(t) /\ ~Found(t) /\ ~Release(t) /\ ~DisposeCopies(t)
  BY DEF Swap, Dispose, Unlink, Found, Release, DisposeCopies, Go, Return, PcOK
<1>6. ~Cleanup(t)
  BY DEF Cleanup, Go, Return, PcOK
<1>7. ~Copy(t) /\ ~AlreadyLinked(t) /\ ~Store(t) /\ ~DisposeAll(t)
  BY DEF Copy, AlreadyLinked, Store, DisposeAll, Go, Return, PcOK
<1>8. ~PushBack(t)
  <2>1. PushBack(t) => Go(t, "link", IF Id(t) < cap[Head] THEN "store" ELSE "bad address")
    BY DEF PushBack
  <2>2. QED
    BY <2>1 DEF Go, PcOK
<1>9. QED
  BY <1>1, <1>2, <1>3, <1>4, <1>5, <1>6, <1>7, <1>8 DEF Start, Progress

\* What the elements of a variable that is destroyed point to is live until it is copied.
LEMMA ElementsAliveKept ==
  ASSUME TypeOK, Calls, IdsGiven, Objectwise, CopiesAlive, Running', NEW t \in Threads, Start(t) \/ Progress(t),
         NEW x \in Threads, pc'[x] = "destroy", NEW u \in Threads, (ptr[u][Id(x)] # Null)'
  PROVE  (fate[ptr[u][Id(x)]] = "live")'
<1>1. Elsewhere(t)
  BY MyOKKept
<1>2. CASE x = t
  <2>1. PICK v \in Vars : Destroy(t, v)
    BY <1>2, DestroyBegins
  <2>2. /\ pc[t] = "idle" /\ v \notin gone /\ Alone(t, v) /\ UNCHANGED <<value, ptr, fate>>
        /\ value[v] # Invalid /\ my'[t].var = v
    BY <1>2, <2>1, DestroyTakes
  <2>3. PICK i : i = value[v]
    OBVIOUS
  <2>4. i \in Ids /\ i \in Nat
    BY <2>2, <2>3, FewIds DEF TypeOK
  <2>5. Id(x)' = i
    BY <1>2, <2>2, <2>3 DEF Id
  <2>6. ptr[u][i] # Null
    BY <2>2, <2>5
  <2>7. PICK o \in Objects : o = ptr[u][i] /\ o[2] \in Vars
    BY <2>4, <2>6, PointsTo
  <2>8. value[o[2]] = i /\ (fate[o] = "live" \/ o[2] \in gone \/ (pc[u] = "cleanup" /\ Id(u) = i))
    BY <2>4, <2>6, <2>7 DEF Objectwise, PointsRight
  <2>9. o[2] = v
    BY <2>3, <2>4, <2>7, <2>8, SameId
  <2>10. ~(pc[u] = "cleanup" /\ Id(u) = i)
    <3>1. CASE u = t
      BY <2>2, <3>1
    <3>2. CASE u # t
      <4>1. my[u].var # v
        BY <2>2, <3>2 DEF Alone, InCall
      <4>2. pc[u] = "cleanup" => my[u].var \in Vars /\ Id(u) = value[my[u].var]
        BY CallHas, StepSets DEF Id
      <4>3. QED
        BY <2>3, <2>4, <4>1, <4>2, SameId
    <3>3. QED
      BY <3>1, <3>2
  <2>11. QED
    BY <2>2, <2>5, <2>7, <2>8, <2>9, <2>10
<1>3. CASE x # t
  <2>1. pc[x] = "destroy" /\ my'[x] = my[x]
    BY <1>1, <1>3 DEF Elsewhere
  <2>2. PICK v \in Vars, i \in Ids : v = my[x].var /\ i = value[v] /\ i = Id(x)
    BY <2>1, CallHas, StepSets DEF Id
  <2>3. v \in gone /\ Alone(x, v) /\ i # Invalid
    BY <2>1, <2>2, StepSets, IdsArePositive DEF Calls
  <2>4. my[t].var # v
    BY <1>3, <2>3 DEF Alone, InCall
  <2>5. Id(x)' = i
    BY <2>1, <2>2, <2>3, IdsStay DEF Id
  <2>6. ptr'[u][i] # Null
    BY <2>5
  <2>7. ~(Store(t) /\ i = Id(t))
    <3>1. Store(t) => pc[t] = "store"
      BY DEF Store, Return, Go
    <3>2. pc[t] = "store" => my[t].var \in Vars /\ Id(t) = value[my[t].var]
      BY CallHas, StepSets DEF Id
    <3>3. QED
      BY <2>2, <2>4, <3>1, <3>2, SameId
  <2>8. ptr'[u][i] = ptr[u][i]
    BY <2>6, <2>7, PointerMoves
  <2>9. PICK o \in Objects : o = ptr[u][i] /\ o[2] \in Vars
    BY <2>6, <2>8, PointsTo
  <2>10. fate[o] = "live" /\ value[o[2]] = i /\ o[1] = u
    <3>1. ptr[u][i] # Null
      BY <2>6, <2>8
    <3>2. value[o[2]] = i /\ o[1] = u
      BY <2>9, <3>1 DEF Objectwise, PointsRight
    <3>3. fate[o] = "live"
      BY <2>1, <2>2, <2>9, <3>1 DEF CopiesAlive
    <3>4. QED
      BY <3>2, <3>3
  <2>11. o[2] = v
    BY <2>2, <2>9, <2>10, SameId
  <2>12. ~(o[1] = t /\ DisposeAll(t))
    <3>1. DisposeAll(t) => ptr'[t] = [j \in Ids |-> Null]
      BY DisposeAllTakes
    <3>2. QED
      BY <2>6, <2>10, <3>1
  <2>13. fate'[o] = "live"
    BY <2>4, <2>10, <2>11, <2>12, FateLoss
  <2>14. QED
    BY <2>5, <2>8, <2>9, <2>13
<1>4. QED
  BY <1>2, <1>3

\* What destroy has copied is live until destroy deletes it, but for what belongs to
\* threads that exit meanwhile.
LEMMA CopiesAliveKept ==
  ASSUME TypeOK, Calls, IdsGiven, Objectwise, CopiesAlive, Running', NEW t \in Threads, Start(t) \/ Progress(t)
  PROVE  CopiesAlive'
<1>1. Elsewhere(t)
  BY MyOKKept
<1>2. ASSUME NEW x \in Threads, pc'[x] = "dispose copies", NEW o \in my'[x].copies
      PROVE  fate'[o] = "live" \/ pc'[o[1]] = "exited"
  <2>1. CASE x = t
    <3>1. CopyElements(t)
      BY <1>2, <2>1, CopyingBegins
    <3>2. /\ pc[t] = "destroy" /\ UNCHANGED fate
          /\ my'[t].copies = UNION {Pointee(u, Id(t)) : u \in Removed(Id(t))}
      BY <3>1, CopyElementsTakes
    <3>3. PICK u \in Threads : o \in Pointee(u, Id(t))
      BY <1>2, <2>1, <3>2 DEF Removed
    <3>4. QED
      BY <3>2, <3>3 DEF CopiesAlive, Pointee
  <2>2. CASE x # t
    <3>1. pc[x] = "dispose copies" /\ my'[x] = my[x]
      BY <1>1, <1>2, <2>2 DEF Elsewhere
    <3>2. o \in Objects /\ o[1] \in Threads /\ o \in my[x].copies
      <4>1. o \in my[x].copies /\ my[x].copies \subseteq Objects
        BY <1>2, <3>1 DEF TypeOK, MyOK
      <4>2. QED
        BY <4>1 DEF Objects
    <3>3. o[2] = my[x].var /\ (fate[o] = "live" \/ pc[o[1]] = "exited")
      BY <3>1, <3>2 DEF CopiesAlive, Objectwise, CopiesRight
    <3>4. my[t].var # my[x].var
      BY <2>2, <3>1, StepSets DEF Calls, Alone, InCall
    <3>5. CASE pc[o[1]] = "exited"
      BY <3>2, <3>5, ExitedStays
    <3>6. CASE fate[o] = "live"
      <4>1. fate'[o] = "live" \/ (o[1] = t /\ DisposeAll(t))
        BY <3>2, <3>3, <3>4, <3>6, FateLoss
      <4>2. DisposeAll(t) => pc'[t] = "exited"
        BY DisposeAllTakes
      <4>3. QED
        BY <4>1, <4>2
    <3>7. QED
      BY <3>3, <3>5, <3>6
  <2>3. QED
    BY <2>1, <2>2
<1>3. \A x \in Threads : pc'[x] = "destroy" =>
        \A u \in Threads : (ptr[u][Id(x)] # Null)' => (fate[ptr[u][Id(x)]] = "live")'
  BY ElementsAliveKept
<1>4. QED
  BY <1>2, <1>3 DEF CopiesAlive

\* An object is deleted a second time only after its variable was destroyed and its thread
\* has exited.
LEMMA DeletedOnceKept ==
  ASSUME TypeOK, Calls, IdsGiven, Objectwise, CopiesAlive, DeletedOnce, NEW t \in Threads, Start(t) \/ Progress(t)
  PROVE  DeletedOnce'
<1>1. gone \subseteq gone'
  BY GoneGrows
<1>2. \A u \in Threads : pc[u] = "exited" => pc'[u] = "exited"
  BY ExitedStays
<1>3. SUFFICES ASSUME NEW o \in Objects, fate'[o] = "twice" PROVE o[2] \in gone' /\ pc'[o[1]] = "exited"
  BY DEF DeletedOnce
<1>4. o[1] \in Threads
  BY <1>3 DEF Objects
<1>5. QED
  BY <1>1, <1>2, <1>3, <1>4, TwiceMoves DEF DeletedOnce

\* Nothing of a thread that has exited comes to life again.
LEMMA ExitLeavesNothingKept ==
  ASSUME TypeOK, Calls, IdsGiven, Objectwise, ExitLeavesNothing, NEW t \in Threads, Start(t) \/ Progress(t)
  PROVE  ExitLeavesNothing'
<1>1. Elsewhere(t)
  BY MyOKKept
<1> SUFFICES ASSUME NEW o \in Objects, pc'[o[1]] = "exited" PROVE fate'[o] # "live"
  BY DEF ExitLeavesNothing
<1>2. CASE o[1] = t
  <2>1. DisposeAll(t)
    BY <1>2, StepTo
  <2>2. QED
    BY <1>2, <2>1, DisposeAllTakes
<1>3. CASE o[1] # t
  <2>1. pc[o[1]] = "exited"
    BY <1>1, <1>3 DEF Elsewhere, Objects
  <2>2. QED
    BY <1>3, <2>1, FateMoves DEF ExitLeavesNothing
<1>4. QED
  BY <1>2, <1>3

\* What destroy has left of a variable only gets less.
LEMMA LeftShrinks ==
  ASSUME TypeOK, Calls, IdsGiven, Objectwise, NEW t \in Threads, Start(t) \/ Progress(t), NEW v \in Vars, Emptied(v)
  PROVE  Left(v)' \subseteq Left(v)
<1>1. Elsewhere(t)
  BY MyOKKept
<1> SUFFICES ASSUME NEW o \in Left(v)' PROVE o \in Left(v)
  OBVIOUS
<1>2. /\ o \in Objects /\ o[2] = v /\ fate'[o] = "live" /\ pc'[o[1]] # "dispose all" /\ o[1] \in Threads
      /\ \A u \in Threads : my'[u].var = v => o \notin my'[u].copies
  BY DEF Left, InCall, Objects
<1>3. fate[o] = "live"
  <2>1. ~(pc[t] = "cleanup" /\ my[t].var = v)
    BY DEF Emptied, InCall
  <2>2. QED
    BY <1>2, <2>1, FateMoves
<1>4. pc[o[1]] # "dispose all"
  <2>1. CASE o[1] = t
    BY <1>2, <2>1, StepTo, DisposeAllTakes
  <2>2. CASE o[1] # t
    BY <1>1, <1>2, <2>2 DEF Elsewhere
  <2>3. QED
    BY <2>1, <2>2
<1>5. ASSUME NEW u \in Threads, my[u].var = v PROVE o \notin my[u].copies
  <2>1. CASE u = t
    <3>1. DisposeCopies(t)
      BY <1>5, <2>1, DisposingStep DEF Emptied, InCall
    <3>2. QED
      BY <1>2, <2>1, <3>1, DisposeCopiesTakes
  <2>2. CASE u # t
    BY <1>1, <1>2, <1>5, <2>2 DEF Elsewhere
  <2>3. QED
    BY <2>1, <2>2
<1>6. QED
  BY <1>2, <1>3, <1>4, <1>5 DEF Left, InCall

\* A variable that nobody has used has no objects.
LEMMA UnusedHasNone ==
  ASSUME TypeOK, Calls, Objectwise, NEW o \in Objects, value[o[2]] = Invalid
  PROVE  fate[o] # "live"
<1> SUFFICES ASSUME fate[o] = "live" PROVE FALSE
  OBVIOUS
<1>1. o[1] \in Threads /\ (value[o[2]] \in Ids \/ (pc[o[1]] \in Storing /\ my[o[1]].obj = o))
  BY DEF Objectwise, LiveIsHeld, Objects
<1>2. pc[o[1]] \in Storing /\ my[o[1]].obj = o
  BY <1>1, IdsArePositive
<1>3. o[2] = my[o[1]].var
  BY <1>1, <1>2 DEF Objectwise, InHand
<1>4. Id(o[1]) # Invalid
  BY <1>1, <1>2 DEF Calls, WithAnId, InElement
<1>5. QED
  BY <1>3, <1>4 DEF Id

\* When destroy has copied the elements, what it has left is in one element.
LEMMA LeftIsLast ==
  ASSUME TypeOK, Calls, IdsGiven, Objectwise, NEW t \in Threads, CopyElements(t), Running',
         NEW v \in Vars, v = my[t].var, NEW o \in Left(v)'
  PROVE  o = ptr[prev[Head][Id(t)]][Id(t)]
<1> DEFINE i == Id(t)
<1>1. /\ pc[t] = "destroy" /\ pc'[t] = "dispose copies" /\ UNCHANGED <<value, gone, ptr, fate>>
      /\ i \in Ids /\ v \in gone /\ my'[t].var = v
      /\ my'[t].copies = UNION {Pointee(u, i) : u \in Removed(i)}
  BY CopyElementsTakes
<1>2. Elsewhere(t)
  BY MyOKKept DEF Progress
<1>3. o \in Objects /\ o[2] = v /\ fate'[o] = "live" /\ pc'[o[1]] # "dispose all" /\ o \notin my'[t].copies
  BY <1>1 DEF Left, InCall
<1>4. o \in Objects /\ o[2] = v /\ fate[o] = "live" /\ pc'[o[1]] # "dispose all" /\ o \notin my'[t].copies
      /\ o[1] \in Threads
  BY <1>1, <1>3 DEF Objects
<1>5. pc[o[1]] # "dispose all"
  BY <1>1, <1>2, <1>4 DEF Elsewhere
<1>6. value[v] = i
  BY DEF Id
<1> HIDE DEF i
<1>7. ptr[o[1]][i] = o
  <2>1. ~(pc[o[1]] \in Storing /\ my[o[1]].obj = o)
    <3>1. ASSUME pc[o[1]] \in Storing, my[o[1]].obj = o PROVE FALSE
      <4>1. my[o[1]].var = v
        BY <1>4, <3>1 DEF Objectwise, InHand
      <4>2. pc[o[1]] \in Destroying
        BY <1>1, <1>4, <4>1 DEF Calls
      <4>3. QED
        BY <3>1, <4>2 DEF Storing, Destroying
    <3>2. QED
      BY <3>1
  <2>2. QED
    BY <1>4, <1>6, <2>1 DEF Objectwise, LiveIsHeld
<1>8. o # Null
  BY <1>4, ThreadLocalAssumption DEF Objects
<1>9. ~Emptied(v)
  BY <1>1 DEF Emptied, InCall
<1>10. Linked(o[1], i)
  BY <1>1, <1>4, <1>5, <1>7, <1>8, <1>9 DEF Objectwise, StoredIsLinked
<1>11. o[1] \notin Removed(i)
  <2>1. o \in Pointee(o[1], i)
    BY <1>7, <1>8 DEF Pointee
  <2>2. o \notin UNION {Pointee(u, i) : u \in Removed(i)}
    BY <1>1, <1>4
  <2>3. QED
    BY <2>1, <2>2
<1>12. prev[Head][i] = o[1]
  BY <1>4, <1>10, <1>11 DEF Removed
<1>13. QED
  BY <1>7, <1>12 DEF i

\* What destroy has left of a variable is one object at most.
LEMMA OneLeftKept ==
  ASSUME TypeOK, Calls, IdsGiven, Objectwise, OneLeft, Running, NEW t \in Threads, Start(t) \/ Progress(t)
  PROVE  OneLeft'
<1>1. Elsewhere(t)
  BY MyOKKept
<1> SUFFICES ASSUME NEW v \in Vars, Emptied(v)', NEW o1 \in Left(v)', NEW o2 \in Left(v)' PROVE o1 = o2
  BY DEF OneLeft
<1>2. CASE Emptied(v)
  <2>1. Left(v)' \subseteq Left(v)
    BY <1>2, LeftShrinks
  <2>2. o1 \in Left(v) /\ o2 \in Left(v)
    BY <2>1
  <2>3. QED
    BY <1>2, <2>2 DEF OneLeft
<1>3. CASE v \notin gone
  <2>1. PICK w \in Vars : Destroy(t, w) /\ w = v
    <3>1. v \in gone'
      BY DEF Emptied
    <3>2. PICK w \in Vars : Destroy(t, w)
      BY <1>3, <3>1, GoneGrows
    <3>3. w = v
      BY <1>3, <3>1, <3>2 DEF Destroy
    <3>4. QED
      BY <3>2, <3>3
  <2>2. value[v] = Invalid
    <3>1. ASSUME value[v] # Invalid PROVE FALSE
      <4>1. Go(t, "idle", "destroy") /\ my' = [my EXCEPT ![t] = [Locals("destroy", v) EXCEPT !.ref = cap[Head]]]
        BY <2>1, <3>1 DEF Destroy
      <4>2. pc'[t] = "destroy" /\ my'[t].var = v
        BY <4>1, SetRef DEF Go, TypeOK, PcOK
      <4>3. QED
        BY <4>2 DEF Emptied, InCall
    <3>2. QED
      BY <3>1
  <2>3. o1 \in Objects /\ o1[2] = v /\ fate'[o1] = "live"
    BY DEF Left
  <2>4. fate' = fate
    BY <2>1 DEF Destroy
  <2>5. QED
    BY <2>2, <2>3, <2>4, UnusedHasNone
<1>4. CASE v \in gone /\ ~Emptied(v)
  <2>1. PICK u \in Threads : my[u].var = v /\ pc[u] # "dispose copies"
    BY <1>4 DEF Emptied, InCall
  <2>2. pc[u] = "destroy"
    BY <1>4, <2>1 DEF Calls, Destroying
  <2>3. u = t
    BY <1>1, <2>1, <2>2 DEF Elsewhere, Emptied, InCall
  <2>4. CopyElements(t)
    BY <2>2, <2>3, DisposingStep
  <2>5. my'[t].var = v
    BY <2>1, <2>3, <2>4, SetCopies DEF CopyElements, TypeOK
  <2>6. pc'[t] = "dispose copies"
    BY <2>5 DEF Emptied, InCall
  <2>7. Running'
    BY <1>1, <2>6 DEF Running, Elsewhere, Crashed
  <2>8. QED
    BY <2>1, <2>3, <2>4, <2>7, LeftIsLast
<1>5. QED
  BY <1>2, <1>3, <1>4

\* The invariant holds at first, ...
LEMMA InitAInv ==
  ASSUME Init
  PROVE  AInv
<1> DEFINE l == Locals("none", Null)
<1>1. /\ l = [f \in Fields |-> l[f]] /\ l.var = Null /\ l.copies = {}
      /\ l.saved.next = NoNodes /\ l.saved.prev = NoNodes
  BY LocalsAre
<1>2. my = [t \in Threads |-> l]
  BY DEF Init
<1> HIDE DEF l
<1>3. pc = [t \in Threads |-> "idle"]
  BY DEF Init
<1>4. /\ nextId = 1 /\ value = [v \in Vars |-> Invalid] /\ cap = [e \in Entries |-> 0]
      /\ next = [e \in Entries |-> NoNodes] /\ prev = next /\ ptr = [t \in Threads |-> NoNodes]
      /\ gone = {} /\ fate = [o \in Objects |-> "unborn"]
  BY DEF Init
<1>5. TypeOK
  <2>1. PcOK
    BY <1>3 DEF PcOK, Outside
  <2>2. MyOK
    BY <1>1, <1>2, NoNodesLinks DEF MyOK
  <2>3. LinksOK
    BY <1>4, NoNodesLinks DEF LinksOK
  <2>4. PtrOK
    BY <1>4 DEF PtrOK, NoNodes, Pointers
  <2>5. OthersOK
    BY <1>4 DEF OthersOK, Fates, Invalid
  <2>6. QED
    BY <2>1, <2>2, <2>3, <2>4, <2>5 DEF TypeOK
<1>6. Calls
  <2>1. \A t \in Threads : pc[t] \in Outside /\ my[t].var = Null
    BY <1>1, <1>2, <1>3, StepSets
  <2>2. QED
    BY <1>4, <2>1, StepSets DEF Calls
<1>7. IdsGiven
  <2>1. {v \in Vars : value[v] # Invalid} = {}
    BY <1>4
  <2>2. Cardinality({v \in Vars : value[v] # Invalid}) = 0
    BY <2>1, FS_EmptySet
  <2>3. QED
    BY <1>4, <2>2 DEF IdsGiven, Invalid
<1>8. /\ \A t \in Threads, i \in Ids : ptr[t][i] = Null
      /\ \A t \in Threads : pc[t] = "idle"
      /\ \A o \in Objects : fate[o] = "unborn"
  BY <1>3, <1>4 DEF NoNodes
<1>9. PointsRight /\ LiveIsHeld /\ CopiesRight /\ StoredIsLinked
  BY <1>8 DEF PointsRight, LiveIsHeld, CopiesRight, StoredIsLinked
<1>10. InHand
  BY <1>8 DEF InHand, Storing
<1>11. OneLeft /\ DeletedOnce /\ ExitLeavesNothing
  BY <1>4, <1>8 DEF OneLeft, Emptied, DeletedOnce, ExitLeavesNothing
<1>12. CopiesAlive
  BY <1>8 DEF CopiesAlive
<1>13. QED
  BY <1>5, <1>6, <1>7, <1>9, <1>10, <1>11, <1>12 DEF AInv, Objectwise

\* ... and is kept by every step, crashes included.
LEMMA NextAInv ==
  ASSUME AInv, [Next]_vars
  PROVE  AInv'
<1>1. CASE Next
  <2>1. PICK t \in Threads : Start(t) \/ Progress(t)
    BY <1>1 DEF Next
  <2>2. Running /\ TypeOK /\ Calls /\ IdsGiven /\ Objectwise /\ CopiesAlive /\ OneLeft /\ DeletedOnce
        /\ ExitLeavesNothing
    BY <1>1 DEF AInv, Next, Running
  <2>3. OneLeft' /\ DeletedOnce' /\ ExitLeavesNothing'
    BY <2>1, <2>2, OneLeftKept, DeletedOnceKept, ExitLeavesNothingKept
  <2>4. ASSUME Running' PROVE TypeOK' /\ Calls' /\ IdsGiven' /\ Objectwise' /\ CopiesAlive'
    <3>1. TypeOK'
      BY <2>1, <2>2, TypeOKKept DEF Objectwise
    <3>2. Calls' /\ IdsGiven'
      BY <2>1, <2>2, <2>4, CallsKept, IdsGivenKept
    <3>3. Objectwise'
      BY <2>1, <2>2, <2>4, ObjectwiseKept
    <3>4. CopiesAlive'
      BY <2>1, <2>2, <2>4, CopiesAliveKept
    <3>5. QED
      BY <3>1, <3>2, <3>3, <3>4
  <2>5. QED
    BY <2>3, <2>4 DEF AInv
<1>2. CASE UNCHANGED vars
  <2>1. UNCHANGED <<nextId, value, cap, next, prev, ptr, pc, my, gone, fate>>
    BY <1>2 DEF vars, ids, mem
  <2>2. Running' <=> Running
    BY <2>1 DEF Running
  <2>3. TypeOK' <=> TypeOK
    BY <2>1 DEF TypeOK, PcOK, MyOK, LinksOK, PtrOK, OthersOK
  <2>4. (Calls' <=> Calls) /\ (IdsGiven' <=> IdsGiven)
    BY <2>1 DEF Calls, IdsGiven, Id, Alone, InCall
  <2>5. Objectwise' <=> Objectwise
    <3>1. (PointsRight' <=> PointsRight) /\ (InHand' <=> InHand)
      BY <2>1 DEF PointsRight, InHand, Id
    <3>2. (LiveIsHeld' <=> LiveIsHeld) /\ (CopiesRight' <=> CopiesRight)
      BY <2>1 DEF LiveIsHeld, CopiesRight
    <3>3. StoredIsLinked' <=> StoredIsLinked
      BY <2>1 DEF StoredIsLinked, Linked, Emptied, InCall, Id
    <3>4. QED
      BY <3>1, <3>2, <3>3 DEF Objectwise
  <2>6. /\ (OneLeft' <=> OneLeft) /\ (DeletedOnce' <=> DeletedOnce) /\ (ExitLeavesNothing' <=> ExitLeavesNothing)
        /\ (CopiesAlive' <=> CopiesAlive)
    BY <2>1 DEF OneLeft, Emptied, Left, InCall, DeletedOnce, ExitLeavesNothing, CopiesAlive, Id
  <2>7. QED
    BY <2>2, <2>3, <2>4, <2>5, <2>6 DEF AInv
<1>3. QED
  BY <1>1, <1>2

\* For any threads, variables and numbers of objects, whoever calls what when:
\* the types, the calls, the ids and the objects are as AInv says until the program crashes,
\* and what it says of deletions still holds then.
THEOREM Invariance == Spec => []AInv
<1>1. Init => AInv
  BY InitAInv
<1>2. AInv /\ [Next]_vars => AInv'
  BY NextAInv
<1>3. QED
  BY <1>1, <1>2, PTL DEF Spec

\* No object is deleted twice unless its variable was destroyed while its thread still had
\* it, and that thread has exited: reset, cleanup, an exit and destroy each delete once.
THEOREM NoDoubleDelete == Spec => []DeletedOnce
<1>1. AInv => DeletedOnce
  BY DEF AInv
<1>2. QED
  BY <1>1, Invariance, PTL

\* A thread that has exited has left no live object: onThreadExit disposes of all.
THEOREM ExitDeletesAll == Spec => []ExitLeavesNothing
<1>1. AInv => ExitLeavesNothing
  BY DEF AInv
<1>2. QED
  BY <1>1, Invariance, PTL

\* A set whose elements are equal has one at most.
LEMMA AtMostOne ==
  ASSUME NEW S, \A x, y \in S : x = y
  PROVE  Cardinality(S) <= 1
<1>1. CASE S = {}
  BY <1>1, FS_EmptySet
<1>2. CASE S # {}
  <2>1. PICK x \in S : TRUE
    BY <1>2
  <2>2. S = {x}
    BY <2>1
  <2>3. QED
    BY <2>2, FS_Singleton
<1>3. QED
  BY <1>1, <1>2

\* When destroy of a variable is over, one of its objects at most is still live, but for
\* those of threads that are exiting: pop_front's empty() keeps the last node from it.
THEOREM DestroyLeavesAtMostOne == Spec => []DestroyLeavesOne
<1>1. ASSUME AInv PROVE DestroyLeavesOne
  <2> SUFFICES ASSUME NEW v \in gone, \A t \in Threads : ~InCall(t, v)
      PROVE  Cardinality({o \in Objects : o[2] = v /\ fate[o] = "live" /\ pc[o[1]] # "dispose all"}) <= 1
    BY DEF DestroyLeavesOne
  <2> DEFINE S == {o \in Objects : o[2] = v /\ fate[o] = "live" /\ pc[o[1]] # "dispose all"}
  <2>1. S \subseteq Left(v) /\ Emptied(v)
    BY DEF Left, Emptied
  <2>2. \A x, y \in S : x = y
    <3>1. CASE S = {}
      BY <3>1
    <3>2. CASE v \in Vars
      BY <1>1, <2>1, <3>2 DEF AInv, OneLeft
    <3>3. CASE S # {}
      BY <3>2, <3>3 DEF Objects
    <3>4. QED
      BY <3>1, <3>3
  <2> HIDE DEF S
  <2>3. QED
    BY <2>2, AtMostOne DEF S
<1>2. QED
  BY <1>1, Invariance, PTL

-----------------------------------------------------------------------------
\* Rings.

\* A ring whose links are left alone is one.
LEMMA RingSame ==
  ASSUME NEW N, NEW n, NEW p, IsRing(N, n, p), NEW n2, NEW p2, \A e \in N : n2[e] = n[e] /\ p2[e] = p[e]
  PROVE  IsRing(N, n2, p2)
<1>1. \A e \in N : n2[e] \in N /\ p2[e] \in N /\ p2[n2[e]] = e /\ n2[p2[e]] = e
  BY DEF IsRing
<1>2. ASSUME NEW S \in SUBSET N, Head \in S, \A e \in S : n2[e] \in S PROVE S = N
  <2>1. \A e \in S : n[e] \in S
    BY <1>2
  <2>2. QED
    BY <1>2, <2>1 DEF IsRing
<1>3. QED
  BY <1>1, <1>2 DEF IsRing

\* A head linked to itself is a ring.
LEMMA RingOne ==
  ASSUME NEW n, NEW p, n[Head] = Head, p[Head] = Head
  PROVE  IsRing({Head}, n, p)
BY DEF IsRing

\* destroy leaves the head and the last node.
LEMMA RingLast ==
  ASSUME NEW n, NEW p, NEW l, n[Head] = l, n[l] = Head, p[l] = Head, p[Head] = l
  PROVE  IsRing({Head, l}, n, p)
<1>1. ASSUME NEW S \in SUBSET {Head, l}, Head \in S, \A e \in S : n[e] \in S PROVE S = {Head, l}
  <2>1. l \in S
    BY <1>1
  <2>2. QED
    BY <1>1, <2>1
<1>2. QED
  BY <1>1 DEF IsRing

\* A node pushed to the back.
LEMMA RingInsert ==
  ASSUME NEW N, NEW n, NEW p, IsRing(N, n, p), NEW t, t \notin N, NEW l, l = p[Head], NEW n2, NEW p2,
         n2[t] = Head, n2[l] = t, \A e \in N \ {l} : n2[e] = n[e],
         p2[t] = l, p2[Head] = t, \A e \in N \ {Head} : p2[e] = p[e]
  PROVE  IsRing(N \cup {t}, n2, p2)
<1>1. /\ Head \in N /\ l \in N /\ n[l] = Head /\ t # Head /\ t # l
      /\ \A e \in N : n[e] \in N /\ p[e] \in N /\ p[n[e]] = e /\ n[p[e]] = e
  BY DEF IsRing
<1>2. ASSUME NEW e \in N PROVE n2[e] \in N \cup {t} /\ p2[n2[e]] = e
  <2>1. CASE e = l
    BY <1>1, <2>1
  <2>2. CASE e # l
    <3>1. n2[e] = n[e] /\ n[e] \in N /\ n[e] # Head
      BY <1>1, <2>2
    <3>2. QED
      BY <1>1, <3>1
  <2>3. QED
    BY <2>1, <2>2
<1>3. ASSUME NEW e \in N PROVE p2[e] \in N \cup {t} /\ n2[p2[e]] = e
  <2>1. CASE e = Head
    BY <1>1, <2>1
  <2>2. CASE e # Head
    <3>1. p2[e] = p[e] /\ p[e] \in N /\ p[e] # l
      BY <1>1, <2>2
    <3>2. QED
      BY <1>1, <3>1
  <2>3. QED
    BY <2>1, <2>2
<1>4. ASSUME NEW S \in SUBSET (N \cup {t}), Head \in S, \A e \in S : n2[e] \in S PROVE S = N \cup {t}
  <2> DEFINE R == S \ {t}
  <2>1. ASSUME NEW e \in R PROVE n[e] \in R
    <3>1. CASE e = l
      BY <1>1, <1>4, <3>1
    <3>2. CASE e # l
      <4>1. e \in N /\ n[e] \in N /\ n2[e] = n[e] /\ n2[e] \in S
        BY <1>1, <1>4, <3>2
      <4>2. QED
        BY <4>1
    <3>3. QED
      BY <3>1, <3>2
  <2>2. R \in SUBSET N /\ Head \in R
    BY <1>1, <1>4
  <2> HIDE DEF R
  <2>3. R = N
    BY <2>1, <2>2 DEF IsRing
  <2>4. N \subseteq S
    BY <2>3 DEF R
  <2>5. t \in S
    BY <1>1, <1>4, <2>4
  <2>6. QED
    BY <2>4, <2>5
<1>5. \A e \in N \cup {t} : n2[e] \in N \cup {t} /\ p2[e] \in N \cup {t} /\ p2[n2[e]] = e /\ n2[p2[e]] = e
  BY <1>1, <1>2, <1>3
<1>6. QED
  BY <1>1, <1>4, <1>5 DEF IsRing

\* A node taken out.
LEMMA RingRemove ==
  ASSUME NEW N, NEW n, NEW p, IsRing(N, n, p), NEW t \in N, t # Head, NEW n2, NEW p2,
         n2[p[t]] = n[t], \A e \in N \ {t, p[t]} : n2[e] = n[e],
         p2[n[t]] = p[t], \A e \in N \ {t, n[t]} : p2[e] = p[e]
  PROVE  IsRing(N \ {t}, n2, p2)
<1> DEFINE a == p[t]
           z == n[t]
           M == N \ {t}
<1>1. /\ Head \in N /\ a \in N /\ z \in N
      /\ \A e \in N : n[e] \in N /\ p[e] \in N /\ p[n[e]] = e /\ n[p[e]] = e
  BY DEF IsRing
<1>2. a # t /\ z # t
  <2>1. ASSUME \A e \in M : n[e] # t PROVE FALSE
    <3>1. \A e \in M : n[e] \in M
      BY <1>1, <2>1
    <3>2. M \in SUBSET N /\ Head \in M /\ t \notin M
      BY <1>1
    <3> HIDE DEF M
    <3>3. QED
      BY <3>1, <3>2 DEF IsRing
  <2>2. PICK e \in M : n[e] = t
    BY <2>1
  <2>3. a = e
    BY <1>1, <2>2
  <2>4. z # t
    BY <1>1, <2>2, <2>3
  <2>5. QED
    BY <2>2, <2>3, <2>4
<1> HIDE DEF a, z
<1>3. n2[a] = z /\ p2[z] = a /\ n[a] = t /\ p[z] = t
      /\ (\A e \in M \ {a} : n2[e] = n[e]) /\ (\A e \in M \ {z} : p2[e] = p[e])
  BY <1>1 DEF a, z
<1>4. ASSUME NEW e \in M PROVE n2[e] \in M /\ p2[n2[e]] = e
  <2>1. CASE e = a
    BY <1>1, <1>2, <1>3, <2>1
  <2>2. CASE e # a
    <3>1. n2[e] = n[e] /\ n[e] \in N /\ n[e] # t /\ n[e] # z
      <4>1. n[e] # t
        BY <1>1, <2>2 DEF a
      <4>2. n[e] # z
        BY <1>1, <1>3
      <4>3. QED
        BY <1>1, <1>3, <2>2, <4>1, <4>2
    <3>2. QED
      BY <1>1, <1>3, <3>1
  <2>3. QED
    BY <2>1, <2>2
<1>5. ASSUME NEW e \in M PROVE p2[e] \in M /\ n2[p2[e]] = e
  <2>1. CASE e = z
    BY <1>1, <1>2, <1>3, <2>1
  <2>2. CASE e # z
    <3>1. p2[e] = p[e] /\ p[e] \in N /\ p[e] # t /\ p[e] # a
      <4>1. p[e] # t
        BY <1>1, <2>2 DEF z
      <4>2. p[e] # a
        BY <1>1, <1>3
      <4>3. QED
        BY <1>1, <1>3, <2>2, <4>1, <4>2
    <3>2. QED
      BY <1>1, <1>3, <3>1
  <2>3. QED
    BY <2>1, <2>2
<1>6. ASSUME NEW S \in SUBSET M, Head \in S, \A e \in S : n2[e] \in S PROVE S = M
  <2>1. CASE a \in S
    <3> DEFINE R == S \cup {t}
    <3>1. ASSUME NEW e \in R PROVE n[e] \in R
      <4>1. CASE e = t
        BY <1>3, <1>6, <2>1, <4>1 DEF z
      <4>2. CASE e = a
        BY <1>3, <4>2
      <4>3. CASE e # t /\ e # a
        BY <1>3, <1>6, <4>3
      <4>4. QED
        BY <4>1, <4>2, <4>3
    <3>2. R \in SUBSET N /\ Head \in R
      BY <1>6
    <3> HIDE DEF R
    <3>3. R = N
      BY <3>1, <3>2 DEF IsRing
    <3>4. QED
      BY <1>6, <3>3 DEF R
  <2>2. CASE a \notin S
    <3>1. \A e \in S : n[e] \in S
      BY <1>3, <1>6, <2>2
    <3>2. S \in SUBSET N /\ t \notin S
      BY <1>6
    <3>3. S = N
      BY <1>6, <3>1, <3>2 DEF IsRing
    <3>4. QED
      BY <3>2, <3>3
  <2>3. QED
    BY <2>1, <2>2
<1>7. Head \in M /\ \A e \in M : n2[e] \in M /\ p2[e] \in M /\ p2[n2[e]] = e /\ n2[p2[e]] = e
  BY <1>1, <1>4, <1>5
<1> HIDE DEF M
<1>8. IsRing(M, n2, p2)
  BY <1>6, <1>7 DEF IsRing
<1>9. QED
  BY <1>8 DEF M

-----------------------------------------------------------------------------
\* Steps of calls under the contract.

\* A call goes to its array when that is too short for the id, and to its element when it is not.
LEMMA WithIdCases ==
  ASSUME NEW t \in Threads, NEW o, NEW i \in Nat, OthersOK
  PROVE  /\ WithId(t, o, i) \in {"lock", "copy", "element"}
         /\ WithId(t, o, i) = "copy" => i >= cap[t]
         /\ WithId(t, o, i) = "element" => i < cap[t]
BY DEF WithId, OthersOK, Entries

\* What the beginning of a call does.
LEMMA BeginTakes ==
  ASSUME TypeOK, NEW t \in Threads, NEW v, NEW o, Begin(t, v, o)
  PROVE  /\ pc[t] = "idle" /\ v \notin gone
         /\ pc'[t] = IF value[v] = Invalid THEN "get or allocate" ELSE WithId(t, o, value[v])
         /\ my'[t].op = o /\ my'[t].var = v /\ my'[t].at = Head
         /\ UNCHANGED <<mutex, value, cap, next, prev, ptr, gone, fate, owed>>
<1>1. my' = [my EXCEPT ![t] = Locals(o, v)]
  BY DEF Begin
<1>2. my'[t].op = o /\ my'[t].var = v /\ my'[t].at = Head
  BY <1>1, SetLocals, ZenonT(60) DEF TypeOK
<1>3. QED
  BY <1>2 DEF Begin, Go, TypeOK, PcOK, ids, mem

\* The steps of a call once its variable's list has a head.
ReadyCall == WithAnId \ {"reserve head"}

\* A call's first steps, and the others.
LEMMA CallMoves ==
  ASSUME TypeOK, NEW t \in Threads, Start(t) \/ Progress(t)
  PROVE  \/ \E v \in Vars, o \in Ops : Begin(t, v, o)
         \/ \E v \in Vars : Destroy(t, v)
         \/ GetOrAllocate(t) \/ Allocate(t) \/ ReserveHead(t)
         \/ pc'[t] \in Outside /\ pc[t] # "reserve head"
         \/ /\ pc[t] \in ReadyCall /\ my'[t].var = my[t].var
            /\ \/ pc'[t] \in ReadyCall
               \/ pc'[t] = "bad address" /\ (PushBack(t) \/ LockAll(t) \/ CopyElements(t))
<1> PcOK /\ MyOK
  BY DEF TypeOK
<1>1. /\ {"lock", "copy", "element", "swap", "cleanup", "link", "store",
          "visit", "release", "destroy", "dispose copies"} \subseteq ReadyCall
      /\ {"idle", "dispose all", "exited"} \subseteq Outside
  BY StepSets DEF ReadyCall
<1>2. CASE Unlink(t) \/ DisposeAll(t)
  BY <1>2, <1>1 DEF Unlink, DisposeAll, Go, PcOK
<1>3. CASE Found(t) \/ Store(t) \/ Release(t) \/ DisposeCopies(t)
  BY <1>3, <1>1 DEF Found, Store, Release, DisposeCopies, Return, Go, PcOK
<1>4. CASE Copy(t)
  <2>1. my'[t].var = my[t].var
    BY <1>4, SetSaved DEF Copy
  <2>2. QED
    BY <1>4, <1>1, <2>1 DEF Copy, Go, PcOK
<1>5. CASE Swap(t) \/ Dispose(t) \/ AlreadyLinked(t)
  BY <1>5, <1>1 DEF Swap, Dispose, AlreadyLinked, Go, PcOK
<1>6. CASE Cleanup(t)
  <2>1. Return(t, "cleanup") \/ (Go(t, "cleanup", "link") /\ \E o : my' = [my EXCEPT ![t].obj = o])
    BY <1>6 DEF Cleanup
  <2>2. CASE Return(t, "cleanup")
    BY <1>1, <2>2 DEF Return, Go, PcOK
  <2>3. CASE Go(t, "cleanup", "link") /\ \E o : my' = [my EXCEPT ![t].obj = o]
    BY <1>1, <2>3, SetObj DEF Go, PcOK
  <2>4. QED
    BY <2>1, <2>2, <2>3
<1>7. CASE PushBack(t)
  <2>1. Go(t, "link", IF Id(t) < cap[Head] THEN "store" ELSE "bad address") /\ UNCHANGED my
    BY <1>7 DEF PushBack
  <2>2. pc[t] = "link" /\ pc'[t] \in {"store", "bad address"}
    BY <2>1 DEF Go, PcOK
  <2>3. QED
    BY <1>7, <1>1, <2>1, <2>2
<1>8. CASE LockAll(t)
  BY <1>8, <1>1 DEF LockAll, Go, PcOK
<1>9. CASE Visit(t)
  <2>1. my'[t].var = my[t].var
    BY <1>9, SetAt DEF Visit
  <2>2. QED
    BY <1>9, <1>1, <2>1 DEF Visit, Go, PcOK
<1>10. CASE CopyElements(t)
  <2>1. my'[t].var = my[t].var
    BY <1>10, SetCopies DEF CopyElements
  <2>2. QED
    BY <1>10, <1>1, <2>1 DEF CopyElements, Go, PcOK
<1>11. QED
  BY <1>2, <1>3, <1>4, <1>5, <1>6, <1>7, <1>8, <1>9, <1>10 DEF Start, Progress

\* How the arrays grow: the list heads' is the larger for it.
LEMMA HeadsMove ==
  ASSUME TypeOK, Calls, IdsGiven, NEW t \in Threads, Start(t) \/ Progress(t)
  PROVE  \/ cap'[Head] = cap[Head]
         \/ ReserveHead(t) /\ Id(t) \in Ids /\ Id(t) >= cap[Head] /\ cap'[Head] = NewCapacity(Id(t)) /\ cap'[Head] > cap[Head]
<1>1. cap \in [Entries -> Nat] /\ Head \in Entries /\ Head # t /\ Head \notin Threads
  BY ThreadLocalAssumption DEF TypeOK, OthersOK, Entries
<1>2. CASE ReserveHead(t)
  <2>1. pc[t] = "reserve head" /\ cap' = [cap EXCEPT ![Head] = IF Id(t) < @ THEN @ ELSE NewCapacity(Id(t))]
    BY <1>2 DEF ReserveHead, Go
  <2>2. Id(t) \in Ids /\ Id(t) \in Nat
    BY <2>1, CallHas, StepSets
  <2>3. NewCapacity(Id(t)) \in Nat /\ Id(t) < NewCapacity(Id(t))
    BY <2>2, CapacityGrows
  <2>4. cap'[Head] = IF Id(t) < cap[Head] THEN cap[Head] ELSE NewCapacity(Id(t))
    BY <1>1, <2>1
  <2>5. QED
    BY <1>2, <1>1, <2>2, <2>3, <2>4
<1>3. CASE Swap(t) \/ DisposeAll(t)
  <2>1. \E c : cap' = [cap EXCEPT ![t] = c]
    BY <1>3 DEF Swap, DisposeAll
  <2>2. QED
    BY <1>1, <2>1
<1>4. CASE UNCHANGED cap
  BY <1>4
<1>5. CASE PushBack(t)
  BY <1>5 DEF PushBack
<1>6. QED
  BY <1>2, <1>3, <1>4, <1>5 DEF Start, Progress, Begin, Destroy, Unlink, GetOrAllocate, Allocate, Copy, Found, Dispose,
     Cleanup, AlreadyLinked, Store, LockAll, Visit, Release, CopyElements, DisposeCopies, mem

\* A variable whose list has a head keeps it.
LEMMA ReadyStays ==
  ASSUME TypeOK, Calls, IdsGiven, Running', NEW t \in Threads, Start(t) \/ Progress(t), NEW v \in Vars, Ready(v)
  PROVE  Ready(v)'
<1>1. value'[v] = value[v] /\ value[v] \in Nat /\ cap[Head] \in Nat
  BY IdsStay DEF Ready, TypeOK, OthersOK, Entries
<1>2. cap'[Head] >= cap[Head] /\ cap'[Head] \in Nat
  <2>1. CASE cap'[Head] = cap[Head]
    BY <1>1, <2>1
  <2>2. CASE cap'[Head] = NewCapacity(Id(t)) /\ Id(t) \in Ids /\ cap'[Head] > cap[Head]
    <3>1. cap'[Head] \in Nat
      BY <2>2, CapacityGrows DEF Ids
    <3>2. QED
      BY <1>1, <2>2, <3>1
  <2>3. QED
    BY <2>1, <2>2, HeadsMove
<1>3. QED
  BY <1>1, <1>2 DEF Ready

\* What reserveHeadUnlocked does: the list heads' array has a head for the id after it.
LEMMA ReserveHeadTakes ==
  ASSUME TypeOK, Calls, IdsGiven, NEW t \in Threads, ReserveHead(t)
  PROVE  /\ pc[t] = "reserve head" /\ pc'[t] = WithId(t, my[t].op, Id(t)) /\ Id(t) \in Ids /\ mutex = NoThread
         /\ UNCHANGED <<mutex, value, ptr, my, gone, fate, owed>>
         /\ cap' = [cap EXCEPT ![Head] = IF Id(t) < @ THEN @ ELSE NewCapacity(Id(t))]
         /\ Id(t) < cap'[Head]
<1>1. /\ pc[t] = "reserve head" /\ pc'[t] = WithId(t, my[t].op, Id(t)) /\ mutex = NoThread
      /\ UNCHANGED <<mutex, value, ptr, my, gone, fate, owed>>
      /\ cap' = [cap EXCEPT ![Head] = IF Id(t) < @ THEN @ ELSE NewCapacity(Id(t))]
  BY DEF ReserveHead, Go, TypeOK, PcOK, ids
<1>2. Id(t) \in Ids /\ Id(t) \in Nat
  BY <1>1, CallHas, StepSets
<1>3. cap'[Head] = IF Id(t) < cap[Head] THEN cap[Head] ELSE NewCapacity(Id(t))
  BY <1>1 DEF TypeOK, OthersOK, Entries
<1>4. QED
  BY <1>1, <1>2, <1>3, CapacityGrows

\* Only allocate's assertion fails, and only a call that has its id goes astray.
LEMMA CrashMoves ==
  ASSUME TypeOK, NEW t \in Threads, Start(t) \/ Progress(t), pc'[t] \in Crashed, pc[t] \notin Crashed
  PROVE  \/ Allocate(t) /\ pc'[t] = "assertion failed"
         \/ /\ pc[t] \in ReadyCall /\ my'[t].var = my[t].var
            /\ pc'[t] = "bad address" /\ (PushBack(t) \/ LockAll(t) \/ CopyElements(t))
<1> PcOK
  BY DEF TypeOK
<1>1. ReadyCall \cap Crashed = {} /\ Outside \cap Crashed = {}
      /\ {"lock", "copy", "element", "get or allocate", "allocate", "reserve head", "link", "destroy"} \cap Crashed = {}
  BY DEF ReadyCall, WithAnId, InElement, Storing, Accessing, Destroying, Outside, Crashed
<1>2. ASSUME NEW v \in Vars, NEW o \in Ops, Begin(t, v, o) PROVE pc'[t] \notin Crashed
  <2>1. pc'[t] = IF value[v] = Invalid THEN "get or allocate" ELSE WithId(t, o, value[v])
    BY <1>2, BeginTakes, ZenonT(60)
  <2>2. value[v] \in Nat /\ OthersOK
    BY DEF TypeOK, OthersOK
  <2>3. QED
    BY <1>1, <2>1, <2>2, WithIdCases
<1>3. ASSUME NEW v \in Vars, Destroy(t, v) PROVE pc'[t] \notin Crashed
  BY <1>3, <1>1, DestroyTakes
<1>4. ~GetOrAllocate(t) /\ ~ReserveHead(t)
  BY <1>1 DEF GetOrAllocate, ReserveHead, Go, PcOK, WithId
<1>5. CASE Allocate(t)
  <2>1. pc'[t] = IF Id(t) = Invalid THEN "reserve head" ELSE "assertion failed"
    BY <1>5 DEF Allocate, Go, PcOK
  <2>2. QED
    BY <1>1, <1>5, <2>1
<1>6. QED
  BY <1>1, <1>2, <1>3, <1>4, <1>5, CallMoves

\* A call makes the head of its list before it does anything else with its id.
LEMMA HeadComesKept ==
  ASSUME TypeOK, Calls, IdsGiven, HeadComes, Running', NEW t \in Threads, Start(t) \/ Progress(t)
  PROVE  HeadComes'
<1>1. Elsewhere(t) /\ TypeOK /\ PcOK
  BY MyOKKept DEF TypeOK
<1>2. {"get or allocate", "allocate", "reserve head", "idle"} \cap ReadyCall = {}
  BY DEF ReadyCall, WithAnId, InElement, Storing, Accessing, Destroying
<1> SUFFICES ASSUME NEW v \in Vars, value'[v] # Invalid
             PROVE  Ready(v)' \/ \E u \in Threads : my'[u].var = v /\ pc'[u] = "reserve head"
  BY DEF HeadComes, InCall
<1>3. CASE value[v] = Invalid
  <2>1. Allocate(t)
    BY <1>3, ValueMoves DEF ids
  <2>2. /\ pc'[t] = "reserve head" /\ my' = my
        /\ value' = [value EXCEPT ![my[t].var] = nextId]
    BY <1>1, <2>1, AllocateTakes DEF Allocate
  <2>3. my[t].var = v
    BY <1>3, <2>2 DEF TypeOK, OthersOK
  <2>4. QED
    BY <2>2, <2>3
<1>4. CASE Ready(v)
  BY <1>4, ReadyStays
<1>5. ASSUME NEW u \in Threads, my[u].var = v, pc[u] = "reserve head"
      PROVE  Ready(v)' \/ \E x \in Threads : my'[x].var = v /\ pc'[x] = "reserve head"
  <2>1. CASE u # t
    BY <1>1, <1>5, <2>1 DEF Elsewhere
  <2>2. CASE u = t
    <3>1. ReserveHead(t)
      <4>1. ASSUME NEW w, NEW o, Begin(t, w, o) PROVE FALSE
        BY <1>1, <1>5, <2>2, <4>1, BeginTakes
      <4>2. ASSUME NEW w, Destroy(t, w) PROVE FALSE
        BY <1>1, <1>5, <2>2, <4>2, DestroyTakes
      <4>3. ~GetOrAllocate(t) /\ ~Allocate(t)
        BY <1>5, <2>2 DEF GetOrAllocate, Allocate, Go
      <4>4. QED
        BY <1>1, <1>2, <1>5, <2>2, <4>1, <4>2, <4>3, CallMoves
    <3>2. Id(t) < cap'[Head] /\ value' = value /\ Id(t) \in Ids
      BY <1>1, <3>1, ReserveHeadTakes
    <3>3. QED
      BY <1>5, <2>2, <3>2, IdsArePositive DEF Ready, Id
  <2>3. QED
    BY <2>1, <2>2
<1>6. QED
  BY <1>3, <1>4, <1>5 DEF HeadComes, InCall

\* Before a call goes astray its variable has got an id but no head, or destroy's
\* reference is out of date.
LEMMA AstrayFrom ==
  ASSUME TypeOK, Calls, IdsGiven, HeadComes, NEW t \in Threads, Start(t) \/ Progress(t), pc[t] \notin Crashed,
         pc'[t] = "bad address"
  PROVE  \/ \E u \in Threads : pc'[u] = "reserve head" /\ my'[u].var = my'[t].var
         \/ my'[t].var \in gone' /\ my'[t].ref # cap'[Head]
<1>1. Elsewhere(t) /\ PcOK /\ MyOK
  BY MyOKKept DEF TypeOK
<1>2. /\ pc[t] \in ReadyCall /\ my'[t].var = my[t].var
      /\ PushBack(t) \/ LockAll(t) \/ CopyElements(t)
  BY CrashMoves DEF Crashed
<1>3. PICK v \in Vars : v = my[t].var /\ value[v] # Invalid /\ value[v] = Id(t)
  <2>1. pc[t] \in WithAnId
    BY <1>2 DEF ReadyCall
  <2>2. my[t].var \in Vars /\ Id(t) # Invalid
    BY <2>1, CallHas DEF Calls
  <2>3. QED
    BY <2>2 DEF Id
<1>4. CASE ~(Id(t) < cap[Head])
  <2>1. PICK u \in Threads : my[u].var = v /\ pc[u] = "reserve head"
    BY <1>3, <1>4 DEF HeadComes, Ready, InCall
  <2>2. u # t
    BY <1>2, <2>1 DEF ReadyCall
  <2>3. pc'[u] = pc[u] /\ my'[u] = my[u]
    BY <1>1, <2>2 DEF Elsewhere
  <2>4. QED
    BY <1>2, <1>3, <2>1, <2>3
<1>5. CASE CopyElements(t)
  <2>1. /\ pc[t] = "destroy" /\ pc'[t] = IF my[t].ref = cap[Head] THEN "dispose copies" ELSE "bad address"
        /\ UNCHANGED <<cap, gone>>
    BY <1>1, <1>5 DEF CopyElements, Go, PcOK
  <2>2. my'[t].ref = my[t].ref
    BY <1>1, <1>5, SetCopies DEF CopyElements
  <2>3. my[t].var \in gone
    BY <2>1, StepSets DEF Calls
  <2>4. QED
    BY <1>2, <2>1, <2>2, <2>3
<1>6. CASE PushBack(t)
  <2>1. pc'[t] = IF Id(t) < cap[Head] THEN "store" ELSE "bad address"
    BY <1>1, <1>6 DEF PushBack, Go, PcOK
  <2>2. QED
    BY <1>4, <2>1
<1>7. CASE LockAll(t)
  <2>1. pc'[t] = IF Id(t) < cap[Head] THEN "visit" ELSE "bad address"
    BY <1>1, <1>7 DEF LockAll, Go, PcOK
  <2>2. QED
    BY <1>4, <2>1
<1>8. QED
  BY <1>2, <1>5, <1>6, <1>7

\* The invariant of the ids and the heads is kept by every step, crashes included.
LEMMA NextHInv ==
  ASSUME AInv, HInv, [Next]_vars
  PROVE  HInv'
<1>1. CASE Next
  <2>1. PICK t \in Threads : Start(t) \/ Progress(t)
    BY <1>1 DEF Next
  <2>2. Running /\ TypeOK /\ Calls /\ IdsGiven /\ HeadComes
    BY <1>1 DEF AInv, HInv, Next
  <2>3. Running' => HeadComes'
    BY <2>1, <2>2, HeadComesKept
  <2>4. ASSUME NEW u \in Threads, pc'[u] = "bad address"
        PROVE  \/ \E x \in Threads : pc'[x] = "reserve head" /\ my'[x].var = my'[u].var
               \/ my'[u].var \in gone' /\ my'[u].ref # cap'[Head]
    <3>1. pc[u] \notin Crashed /\ pc[u] # "bad address"
      BY <2>2 DEF Running, Crashed
    <3>2. u = t
      BY <2>1, <2>2, <2>4, <3>1, MyOKKept DEF Elsewhere
    <3>3. QED
      BY <2>1, <2>2, <2>4, <3>1, <3>2, AstrayFrom
  <2>5. BadAddressExplained'
    BY <2>4 DEF BadAddressExplained, InCall
  <2>6. QED
    BY <2>3, <2>5 DEF HInv
<1>2. CASE UNCHANGED vars
  <2>1. UNCHANGED <<value, cap, pc, my, gone>>
    BY <1>2 DEF vars, ids, mem
  <2>2. (Running' <=> Running) /\ (HeadComes' <=> HeadComes)
    BY <2>1 DEF Running, HeadComes, Ready, InCall
  <2>3. BadAddressExplained' <=> BadAddressExplained
    BY <2>1 DEF BadAddressExplained, InCall
  <2>4. QED
    BY <2>2, <2>3 DEF HInv
<1>3. QED
  BY <1>1, <1>2

\* Whoever uses what when, for the first time or not, and however arrays grow: an id has
\* its list's head but while the call that gave it is on its way to make it.
LEMMA HeadsInvariance == Spec => []HInv
<1>1. Init => HInv
  BY DEF Init, HInv, HeadComes, BadAddressExplained
<1>2. AInv /\ HInv /\ [Next]_vars => HInv'
  BY NextHInv
<1>3. QED
  BY <1>1, <1>2, Invariance, PTL DEF Spec

\* A call goes to a list without a head, or to one that was freed, only while another
\* thread's first use has given the id and not made the head, or in destroy, when the
\* heads' array was replaced after the reference was taken: there is no third way.
THEOREM BadAddressesExplained == Spec => []BadAddressExplained
<1>1. HInv => BadAddressExplained
  BY DEF HInv
<1>2. QED
  BY <1>1, HeadsInvariance, PTL

-----------------------------------------------------------------------------
\* Steps and nodes.

\* What the steps that change nodes make of them. reserveHeadUnlocked makes heads that are
\* linked to themselves; ...
LEMMA ReserveHeadLinks ==
  ASSUME TypeOK, Calls, IdsGiven, NEW t \in Threads, ReserveHead(t), NEW e \in Entries, NEW j \in Ids
  PROVE  /\ next'[e][j] = IF e = Head /\ Id(t) >= cap[Head] /\ j >= cap[Head] THEN Head ELSE next[e][j]
         /\ prev'[e][j] = IF e = Head /\ Id(t) >= cap[Head] /\ j >= cap[Head] THEN Head ELSE prev[e][j]
<1> DEFINE new == IF Id(t) < cap[Head] THEN {} ELSE {i \in Ids : i >= cap[Head]}
           heads(links) == [i \in Ids |-> IF i \in new THEN Head ELSE links[i]]
<1>1. next' = [next EXCEPT ![Head] = heads(@)] /\ prev' = [prev EXCEPT ![Head] = heads(@)]
  BY DEF ReserveHead
<1>2. next \in [Entries -> Links] /\ prev \in [Entries -> Links] /\ cap[Head] \in Nat /\ j \in Nat
  BY FS_CardinalityType, ThreadLocalAssumption DEF TypeOK, LinksOK, OthersOK, Entries, Ids
<1>3. Id(t) \in Nat
  BY CallHas, StepSets DEF ReserveHead, Go
<1>4. j \in new <=> Id(t) >= cap[Head] /\ j >= cap[Head]
  BY <1>2, <1>3
<1> HIDE DEF new
<1>5. QED
  BY <1>1, <1>2, <1>4

\* Exit takes the thread's node out of each list; ...
LEMMA UnlinkLinks ==
  ASSUME NEW t \in Threads, Unlink(t), NEW e \in Entries, NEW j \in Ids
  PROVE  /\ next'[e][j] = IF ~Linked(t, j) THEN next[e][j]
                          ELSE IF e = t THEN Null ELSE IF e = prev[t][j] THEN next[t][j] ELSE next[e][j]
         /\ prev'[e][j] = IF ~Linked(t, j) THEN prev[e][j]
                          ELSE IF e = t THEN Null ELSE IF e = next[t][j] THEN prev[t][j] ELSE prev[e][j]
<1>1. ASSUME NEW L, NEW M
      PROVE  Erased(L, M, t, Ids)[e][j] = IF ~Linked(t, j) THEN L[e][j]
                          ELSE IF e = t THEN Null ELSE IF e = M[t][j] THEN L[t][j] ELSE L[e][j]
  <2>1. Erased(L, M, t, Ids)[e][j] =
          CASE j \in Ids /\ Linked(t, j) /\ e = t                      -> Null
            [] j \in Ids /\ Linked(t, j) /\ e # t /\ e = M[t][j]       -> L[t][j]
            [] OTHER                                                   -> L[e][j]
    BY DEF Erased
  <2>2. QED
    BY <2>1
<1>2. next' = Erased(next, prev, t, Ids) /\ prev' = Erased(prev, next, t, Ids)
  BY DEF Unlink
<1>3. QED
  BY <1>1, <1>2

\* ... destroy takes all nodes but the last out of its own; ...
LEMMA CopyElementsLinks ==
  ASSUME TypeOK, NEW t \in Threads, CopyElements(t), NEW i \in Ids, i = Id(t), NEW e \in Entries, NEW j \in Ids
  PROVE  /\ next'[e][j] = IF j # i THEN next[e][j]
                          ELSE IF e \in Removed(i) THEN Null ELSE IF e = Head THEN prev[Head][i] ELSE next[e][i]
         /\ prev'[e][j] = IF j # i THEN prev[e][j]
                          ELSE IF e \in Removed(i) THEN Null ELSE IF e = prev[Head][i] THEN Head ELSE prev[e][i]
<1>1. next[e] \in Links /\ prev[e] \in Links
  BY DEF TypeOK, LinksOK
<1>2. next'[e] = [next[e] EXCEPT ![i] = IF e \in Removed(i) THEN Null ELSE IF e = Head THEN prev[Head][i] ELSE @]
  BY DEF CopyElements
<1>3. prev'[e] = [prev[e] EXCEPT ![i] = IF e \in Removed(i) THEN Null ELSE IF e = prev[Head][i] THEN Head ELSE @]
  BY DEF CopyElements
<1>4. QED
  BY <1>1, <1>2, <1>3 DEF Links

\* ... pushBack puts the thread's node, which was in no list, at the end; ...
LEMMA PushBackTakes ==
  ASSUME TypeOK, Calls, IdsGiven, Rings, Running', NEW t \in Threads, PushBack(t)
  PROVE  \E i \in Ids :
           /\ i = Id(t) /\ i < cap[Head] /\ pc[t] = "link" /\ pc'[t] = "store" /\ mutex = NoThread
           /\ t \notin Nodes(i) /\ prev[Head][i] \in Nodes(i) /\ prev[Head][i] # t
           /\ UNCHANGED <<mutex, value, cap, ptr, my, gone, fate, owed>>
           /\ \A e \in Entries, j \in Ids :
                /\ next'[e][j] = IF j = i /\ e = prev[Head][i] THEN t ELSE IF j = i /\ e = t THEN Head ELSE next[e][j]
                /\ prev'[e][j] = IF j = i /\ e = Head THEN t ELSE IF j = i /\ e = t THEN prev[Head][i] ELSE prev[e][j]
<1>1. Go(t, "link", IF Id(t) < cap[Head] THEN "store" ELSE "bad address")
  BY DEF PushBack
<1>2. pc[t] = "link" /\ pc'[t] = IF Id(t) < cap[Head] THEN "store" ELSE "bad address"
  BY <1>1 DEF Go, TypeOK, PcOK
<1>3. Id(t) < cap[Head] /\ pc'[t] = "store"
  BY <1>2 DEF Running, Crashed
<1>4. PICK i \in Ids : i = Id(t)
  BY <1>2, CallHas, StepSets
<1>5. /\ t \in Entries /\ Head \in Entries /\ next[t][i] = Null /\ mutex = NoThread
      /\ UNCHANGED <<mutex, value, cap, ptr, my, gone, fate, owed>>
      /\ next' = [next EXCEPT ![t][i] = Head, ![prev[Head][i]][i] = t]
      /\ prev' = [prev EXCEPT ![t][i] = prev[Head][i], ![Head][i] = t]
  BY <1>3, <1>4 DEF PushBack, Linked, Entries, ids
<1>6. t \notin Nodes(i)
  BY <1>5 DEF Nodes
<1> DEFINE l == prev[Head][i]
<1>7. l \in Nodes(i)
  <2>1. IsRing(Nodes(i), Column(next, i), Column(prev, i))
    BY <1>3, <1>4 DEF Rings, Ring
  <2>2. Column(prev, i)[Head] \in Nodes(i)
    BY <2>1 DEF IsRing
  <2>3. QED
    BY <1>5, <2>2 DEF Column
<1>8. l \in Entries /\ l # t
  BY <1>6, <1>7 DEF Nodes
<1> DEFINE N == [next EXCEPT ![t][i] = Head]
           P == [prev EXCEPT ![t][i] = l]
<1>9. l \in Entries \cup {Null} /\ next \in [Entries -> Links] /\ prev \in [Entries -> Links]
  BY <1>8 DEF TypeOK, LinksOK
<1> HIDE DEF l
<1>10. N \in [Entries -> Links] /\ P \in [Entries -> Links]
  BY <1>5, <1>9, NodeLink
<1>11. ASSUME NEW e \in Entries, NEW j \in Ids
       PROVE  /\ N[e][j] = IF e = t /\ j = i THEN Head ELSE next[e][j]
              /\ P[e][j] = IF e = t /\ j = i THEN l ELSE prev[e][j]
  BY <1>5, <1>9 DEF Links
<1>12. next' = [N EXCEPT ![l][i] = t] /\ prev' = [P EXCEPT ![Head][i] = t]
  BY <1>5 DEF l
<1> HIDE DEF N, P
<1>13. ASSUME NEW e \in Entries, NEW j \in Ids
       PROVE  /\ next'[e][j] = IF e = l /\ j = i THEN t ELSE N[e][j]
              /\ prev'[e][j] = IF e = Head /\ j = i THEN t ELSE P[e][j]
  BY <1>5, <1>8, <1>10, <1>12 DEF Links
<1>14. \A e \in Entries, j \in Ids :
         /\ next'[e][j] = IF j = i /\ e = l THEN t ELSE IF j = i /\ e = t THEN Head ELSE next[e][j]
         /\ prev'[e][j] = IF j = i /\ e = Head THEN t ELSE IF j = i /\ e = t THEN l ELSE prev[e][j]
  BY <1>11, <1>13
<1>15. QED
  BY <1>2, <1>3, <1>4, <1>5, <1>6, <1>7, <1>8, <1>14 DEF l

\* ... and swap changes no node, for the array it replaces had none.
LEMMA SwapTakes ==
  ASSUME TypeOK, Arrays, NEW t \in Threads, Swap(t)
  PROVE  /\ pc[t] = "swap" /\ pc'[t] = "element" /\ next' = next /\ cap' = [cap EXCEPT ![t] = NewCapacity(Id(t))]
         /\ \A e \in Entries : e # t => prev'[e] = prev[e]
         /\ next[t] = NoNodes /\ UNCHANGED <<mutex, value, ptr, my, gone, fate, owed>>
<1>1. /\ pc[t] = "swap" /\ pc'[t] = "element" /\ cap' = [cap EXCEPT ![t] = NewCapacity(Id(t))]
      /\ next' = [next EXCEPT ![t] = my[t].saved.next] /\ prev' = [prev EXCEPT ![t] = my[t].saved.prev]
      /\ UNCHANGED <<mutex, value, ptr, my, gone, fate, owed>>
  BY DEF Swap, Go, TypeOK, PcOK, ids
<1>2. my[t].saved.next = NoNodes /\ next[t] = NoNodes
  BY <1>1 DEF Arrays
<1>3. QED
  BY <1>1, <1>2 DEF TypeOK, LinksOK, Entries

\* The other steps change no node.
LEMMA LinksMove ==
  ASSUME NEW t \in Threads, Start(t) \/ Progress(t)
  PROVE  UNCHANGED <<next, prev>> \/ ReserveHead(t) \/ Swap(t) \/ PushBack(t) \/ Unlink(t) \/ CopyElements(t)
BY DEF Start, Progress, Begin, Destroy, GetOrAllocate, Allocate, Copy, Found, Dispose, Cleanup, AlreadyLinked, Store,
       LockAll, Visit, Release, DisposeAll, DisposeCopies, mem

\* A node is linked by pushBack only.
LEMMA NewLinks ==
  ASSUME TypeOK, Calls, IdsGiven, Arrays, Rings, Running', NEW t \in Threads, Start(t) \/ Progress(t),
         NEW u \in Threads, NEW i \in Ids, next'[u][i] # Null
  PROVE  next[u][i] # Null \/ (PushBack(t) /\ u = t /\ i = Id(t) /\ i < cap[Head])
<1>1. u \in Entries /\ u # Head /\ Head \in Entries /\ t \in Entries
  BY ThreadLocalAssumption DEF Entries
<1>2. CASE UNCHANGED <<next, prev>>
  BY <1>2
<1>3. CASE ReserveHead(t)
  BY <1>3, <1>1, ReserveHeadLinks
<1>4. CASE Swap(t)
  BY <1>4, SwapTakes
<1>5. CASE PushBack(t)
  <2>1. PICK j \in Ids :
           /\ j = Id(t) /\ j < cap[Head] /\ prev[Head][j] \in Nodes(j)
           /\ next'[u][i] = IF i = j /\ u = prev[Head][j] THEN t ELSE IF i = j /\ u = t THEN Head ELSE next[u][i]
    BY <1>5, <1>1, PushBackTakes
  <2>2. QED
    BY <1>5, <2>1 DEF Nodes
<1>6. CASE Unlink(t)
  <2>1. next'[u][i] = IF ~Linked(t, i) THEN next[u][i]
                      ELSE IF u = t THEN Null ELSE IF u = prev[t][i] THEN next[t][i] ELSE next[u][i]
    BY <1>6, <1>1, UnlinkLinks
  <2>2. CASE Linked(t, i) /\ u = prev[t][i]
    <3>1. i < cap[Head] /\ t \in Nodes(i)
      BY <1>1, <2>2 DEF Arrays, Linked, Nodes
    <3>2. IsRing(Nodes(i), Column(next, i), Column(prev, i))
      BY <3>1 DEF Rings, Ring
    <3>3. Column(prev, i)[t] \in Nodes(i)
      BY <3>1, <3>2 DEF IsRing
    <3>4. u \in Nodes(i)
      BY <1>1, <2>2, <3>3 DEF Column
    <3>5. QED
      BY <3>4 DEF Nodes
  <2>3. QED
    BY <2>1, <2>2
<1>7. CASE CopyElements(t)
  <2>1. PICK j \in Ids : j = Id(t)
    BY <1>7, CallHas, StepSets DEF CopyElements, Go
  <2>2. QED
    BY <1>7, <1>1, <2>1, CopyElementsLinks
<1>8. QED
  BY <1>2, <1>3, <1>4, <1>5, <1>6, <1>7, LinksMove

-----------------------------------------------------------------------------
\* The arrays.

\* A thread's array is replaced in reserve and freed at its exit.
LEMMA ArrayMoves ==
  ASSUME TypeOK, NEW t \in Threads, Start(t) \/ Progress(t), NEW u \in Threads
  PROVE  \/ cap'[u] = cap[u]
         \/ Swap(t) /\ u = t /\ cap'[u] = NewCapacity(Id(t))
         \/ DisposeAll(t) /\ u = t /\ cap'[u] = 0
<1>1. cap \in [Entries -> Nat] /\ u # Head /\ u \in Entries /\ t \in Entries
  BY ThreadLocalAssumption DEF TypeOK, OthersOK, Entries
<1>2. CASE ReserveHead(t)
  <2>1. \E c : cap' = [cap EXCEPT ![Head] = c]
    BY <1>2 DEF ReserveHead
  <2>2. QED
    BY <1>1, <2>1
<1>3. CASE Swap(t)
  <2>1. cap' = [cap EXCEPT ![t] = NewCapacity(Id(t))]
    BY <1>3 DEF Swap
  <2>2. QED
    BY <1>3, <1>1, <2>1
<1>4. CASE DisposeAll(t)
  <2>1. cap' = [cap EXCEPT ![t] = 0]
    BY <1>4 DEF DisposeAll
  <2>2. QED
    BY <1>4, <1>1, <2>1
<1>5. CASE UNCHANGED cap
  BY <1>5
<1>6. CASE PushBack(t)
  BY <1>6 DEF PushBack
<1>7. QED
  BY <1>2, <1>3, <1>4, <1>5, <1>6 DEF Start, Progress, Begin, Destroy, Unlink, GetOrAllocate, Allocate, Copy, Found,
     Dispose, Cleanup, AlreadyLinked, Store, LockAll, Visit, Release, CopyElements, DisposeCopies, mem

\* How a call comes where an array matters.
LEMMA ArrivesAt ==
  ASSUME TypeOK, Calls, IdsGiven, Running', NEW t \in Threads, Start(t) \/ Progress(t)
  PROVE  /\ pc'[t] = "destroy" => my'[t].ref = cap[Head] /\ cap' = cap
         /\ pc'[t] = "copy" => cap[t] <= Cardinality(Vars)
         /\ pc'[t] = "swap" => Copy(t) /\ pc[t] = "copy" /\ my'[t].saved.next = next[t]
         /\ pc'[t] \in InElement => cap[t] # 0 \/ pc[t] \in InElement \/ Swap(t)
         /\ pc'[t] \in {"dispose all", "exited"} => Unlink(t) \/ DisposeAll(t)
<1> PcOK /\ MyOK /\ OthersOK /\ cap[t] \in Nat /\ Cardinality(Vars) \in Nat
  BY FewIds DEF TypeOK, OthersOK, Entries
<1>1. {"destroy", "copy", "swap", "dispose all", "exited", "idle", "get or allocate", "allocate", "reserve head",
       "lock", "visit", "release", "dispose copies"} \cap InElement = {}
  BY DEF InElement, Storing
<1>2. pc'[t] \notin Crashed
  BY DEF Running
<1> USE DEF Crashed
<1>3. ASSUME NEW o, NEW i \in 0..Cardinality(Vars), pc'[t] = WithId(t, o, i)
      PROVE  /\ pc'[t] \notin {"destroy", "swap", "dispose all", "exited"}
             /\ pc'[t] = "copy" => cap[t] <= Cardinality(Vars)
             /\ pc'[t] \in InElement => cap[t] # 0
  <2>1. i \in Nat
    BY <1>3
  <2>2. /\ WithId(t, o, i) \in {"lock", "copy", "element"}
        /\ WithId(t, o, i) = "copy" => i >= cap[t]
        /\ WithId(t, o, i) = "element" => i < cap[t]
    BY <2>1, WithIdCases
  <2>3. "lock" \notin InElement /\ "copy" \notin InElement
    BY <1>1
  <2>4. i >= cap[t] => cap[t] <= Cardinality(Vars)
    BY <1>3
  <2>5. i < cap[t] => cap[t] # 0
    BY <2>1
  <2> DEFINE w == WithId(t, o, i)
  <2>6. /\ pc'[t] = w /\ w \in {"lock", "copy", "element"}
        /\ w = "copy" => i >= cap[t]
        /\ w = "element" => i < cap[t]
    BY <1>3, <2>2
  <2> HIDE DEF w
  <2>7. QED
    BY <2>3, <2>4, <2>5, <2>6
<1>4. ASSUME NEW v \in Vars, NEW o \in Ops, Begin(t, v, o)
      PROVE  pc'[t] = "get or allocate" \/ \E i \in 0..Cardinality(Vars) : pc'[t] = WithId(t, o, i)
  BY <1>4, BeginTakes, FewIds, ZenonT(60)
<1>5. ASSUME NEW v \in Vars, Destroy(t, v)
      PROVE  pc'[t] = "idle" \/ (pc'[t] = "destroy" /\ my'[t].ref = cap[Head] /\ cap' = cap)
  BY <1>5, DestroyTakes
<1>6. CASE GetOrAllocate(t)
  <2>1. pc[t] = "get or allocate" /\ pc'[t] = IF Id(t) = Invalid THEN "allocate" ELSE WithId(t, my[t].op, Id(t))
    BY <1>6 DEF GetOrAllocate, Go, PcOK
  <2>2. Id(t) \in 0..Cardinality(Vars)
    BY <2>1, CallHas DEF Asking
  <2>3. QED
    BY <1>3, <1>1, <2>1, <2>2
<1>7. CASE ReserveHead(t)
  <2>1. pc[t] = "reserve head" /\ pc'[t] = WithId(t, my[t].op, Id(t))
    BY <1>7 DEF ReserveHead, Go, PcOK
  <2>2. Id(t) \in 0..Cardinality(Vars)
    BY <2>1, CallHas, StepSets
  <2>3. QED
    BY <1>3, <1>1, <2>1, <2>2
<1>8. CASE Copy(t)
  <2>1. my' = [my EXCEPT ![t].saved = [next |-> next[t], prev |-> prev[t]]]
    BY <1>8 DEF Copy
  <2>2. my'[t].saved = [next |-> next[t], prev |-> prev[t]]
    BY <2>1, SetSaved
  <2>3. pc[t] = "copy" /\ pc'[t] = "swap"
    BY <1>8 DEF Copy, Go, PcOK
  <2>4. "swap" \notin InElement
    BY <1>1
  <2>5. QED
    BY <1>8, <2>2, <2>3, <2>4
<1>9. CASE Unlink(t) \/ DisposeAll(t)
  BY <1>9, <1>1 DEF Unlink, DisposeAll, Go, PcOK
<1>10. CASE Swap(t) \/ Allocate(t) \/ LockAll(t) \/ Visit(t) \/ CopyElements(t)
  BY <1>10, <1>1, <1>2 DEF Swap, Allocate, LockAll, Visit, CopyElements, Go, PcOK
<1>11. CASE Found(t) \/ Store(t) \/ Release(t) \/ DisposeCopies(t)
  BY <1>11, <1>1 DEF Found, Store, Release, DisposeCopies, Return, Go, PcOK
<1>12. CASE Dispose(t) \/ Cleanup(t) \/ AlreadyLinked(t)
  <2>1. pc[t] \in InElement /\ pc'[t] \in {"cleanup", "link", "idle", "store"}
    BY <1>12 DEF Dispose, Cleanup, AlreadyLinked, Return, Go, PcOK, InElement, Storing
  <2>2. QED
    BY <2>1
<1>13. CASE PushBack(t)
  <2>1. Go(t, "link", IF Id(t) < cap[Head] THEN "store" ELSE "bad address")
    BY <1>13 DEF PushBack
  <2>2. pc[t] \in InElement /\ pc'[t] = "store"
    BY <1>2, <2>1 DEF Go, PcOK, InElement, Storing
  <2>3. QED
    BY <2>2
<1>14. ASSUME NEW v \in Vars, NEW o \in Ops, Begin(t, v, o)
       PROVE  /\ pc'[t] \notin {"destroy", "swap", "dispose all", "exited"}
              /\ pc'[t] = "copy" => cap[t] <= Cardinality(Vars)
              /\ pc'[t] \in InElement => cap[t] # 0
  BY <1>3, <1>4, <1>14, <1>1
<1>15. QED
  BY <1>5, <1>6, <1>7, <1>8, <1>9, <1>10, <1>11, <1>12, <1>13, <1>14, <1>1 DEF Start, Progress

\* An array that links nothing has no nodes.
LEMMA NoLinks ==
  ASSUME NEW l \in Links, \A i \in Ids : l[i] = Null
  PROVE  l = NoNodes
BY DEF Links, NoNodes

\* The arrays are as long as they will ever need to be from the first, so none is copied.
LEMMA ArraysKept ==
  ASSUME Few, TypeOK, Calls, IdsGiven, HeadFound, Arrays, Rings, TypeOK', Running', NEW t \in Threads, Start(t) \/ Progress(t)
  PROVE  Arrays'
<1> DEFINE C == Cardinality(Vars)
<1>1. Elsewhere(t)
  BY MyOKKept
<1>2. C \in Nat /\ cap \in [Entries -> Nat] /\ Head \in Entries /\ Threads \subseteq Entries
  BY FewIds DEF TypeOK, OthersOK, Entries
<1>3. ASSUME NEW i \in Ids PROVE NewCapacity(i) > C
  <2>1. i \in Nat /\ i >= 1
    BY <1>2 DEF Ids
  <2>2. NewCapacity(i) \in Nat
    BY <2>1, CapacityGrows
  <2>3. QED
    BY <1>2, <2>1, <2>2, CapacityIsMonotone DEF Few
<1>4. ASSUME NEW e \in Entries PROVE cap'[e] = 0 \/ cap'[e] > C
  <2>1. cap[e] = 0 \/ cap[e] > C
    BY DEF Arrays
  <2>2. CASE e = Head
    BY <1>3, <2>1, <2>2, HeadsMove
  <2>3. CASE e \in Threads
    <3>1. CASE Swap(t) /\ e = t /\ cap'[e] = NewCapacity(Id(t))
      <4>1. Id(t) \in Ids
        BY <3>1, CallHas, StepSets DEF Swap, Go
      <4>2. QED
        BY <1>3, <3>1, <4>1
    <3>2. QED
      BY <2>1, <2>3, <3>1, ArrayMoves
  <2>4. QED
    BY <2>2, <2>3 DEF Entries
<1>5. ASSUME cap[Head] # 0 PROVE cap'[Head] = cap[Head]
  <2>1. cap[Head] > C /\ cap[Head] \in Nat
    BY <1>2, <1>5 DEF Arrays
  <2>2. ASSUME ReserveHead(t), Id(t) \in Ids, Id(t) >= cap[Head] PROVE FALSE
    <3>1. Id(t) \in 0..C
      BY <2>2, CallHas, StepSets DEF ReserveHead, Go
    <3>2. QED
      BY <1>2, <2>1, <2>2, <3>1
  <2>3. QED
    BY <2>2, HeadsMove
<1>6. \A i \in Nat : i < cap[Head] => i < cap'[Head]
  BY <1>2, <1>5
<1>7. ASSUME NEW u \in Threads, pc'[u] = "destroy" PROVE my'[u].ref = cap'[Head]
  <2>1. CASE u = t
    BY <1>7, <2>1, ArrivesAt
  <2>2. CASE u # t
    <3>1. pc[u] = "destroy" /\ my'[u] = my[u]
      BY <1>1, <1>7, <2>2 DEF Elsewhere
    <3>2. my[u].ref = cap[Head] /\ Ready(my[u].var)
      BY <3>1 DEF Arrays, HeadFound
    <3>3. Id(u) \in Nat /\ Id(u) < cap[Head]
      BY <3>1, <3>2, CallHas, StepSets DEF Ready, Id
    <3>4. cap[Head] # 0
      BY <3>3
    <3>5. QED
      BY <1>5, <3>1, <3>2, <3>4
  <2>3. QED
    BY <2>1, <2>2
<1>8. ASSUME NEW u \in Threads, cap[u] = 0 \/ pc[u] \in {"dispose all", "exited"}, ~(PushBack(t) /\ u = t)
      PROVE next'[u] = NoNodes
  <2>1. next[u] = NoNodes
    BY <1>8 DEF Arrays
  <2>2. \A i \in Ids : next'[u][i] = Null
    BY <1>8, <2>1, NewLinks DEF NoNodes
  <2>3. next'[u] \in Links
    BY <1>2 DEF TypeOK, LinksOK
  <2>4. QED
    BY <2>2, <2>3, NoLinks
<1>9. ASSUME PushBack(t) PROVE cap'[t] = cap[t] /\ cap[t] # 0 /\ pc'[t] = "store"
  <2>1. pc[t] = "link" /\ pc'[t] = "store" /\ cap' = cap
    BY <1>9, PushBackTakes
  <2>2. QED
    BY <2>1 DEF Arrays, InElement, Storing
<1>10. ASSUME NEW u \in Threads, cap'[u] = 0 PROVE next'[u] = NoNodes
  <2>1. cap[u] = 0 \/ (DisposeAll(t) /\ u = t)
    <3>1. CASE Swap(t) /\ u = t /\ cap'[u] = NewCapacity(Id(t))
      <4>1. Id(t) \in Ids
        BY <3>1, CallHas, StepSets DEF Swap, Go
      <4>2. QED
        BY <1>2, <1>3, <1>10, <3>1, <4>1
    <3>2. QED
      BY <1>10, <3>1, ArrayMoves
  <2>2. ~(PushBack(t) /\ u = t)
    BY <1>9, <1>10, <2>1 DEF DisposeAll, PushBack, Go
  <2>3. DisposeAll(t) => pc[t] = "dispose all"
    BY DEF DisposeAll, Go
  <2>4. QED
    BY <1>8, <2>1, <2>2, <2>3
<1>11. ASSUME NEW u \in Threads, pc'[u] \in {"copy", "swap"} PROVE cap'[u] = 0
  <2>1. CASE u # t
    <3>1. pc[u] \in {"copy", "swap"}
      BY <1>1, <1>11, <2>1 DEF Elsewhere
    <3>2. cap[u] = 0
      BY <3>1 DEF Arrays
    <3>3. QED
      BY <2>1, <3>2, ArrayMoves
  <2>2. CASE u = t
    <3>1. cap[t] <= C \/ pc[t] = "copy"
      BY <1>11, <2>2, ArrivesAt
    <3>2. cap[t] = 0
      <4>1. cap[t] \in Nat /\ (cap[t] = 0 \/ cap[t] > C)
        BY <1>2 DEF Arrays
      <4>2. pc[t] = "copy" => cap[t] = 0
        BY DEF Arrays
      <4>3. QED
        BY <1>2, <3>1, <4>1, <4>2
    <3>3. ~Swap(t)
      BY <1>11, <2>2 DEF Swap, Go, TypeOK, PcOK
    <3>4. QED
      BY <2>2, <3>2, <3>3, ArrayMoves
  <2>3. QED
    BY <2>1, <2>2
<1>12. ASSUME NEW u \in Threads, pc'[u] = "swap" PROVE my'[u].saved.next = NoNodes
  <2>1. CASE u # t
    BY <1>1, <1>12, <2>1 DEF Elsewhere, Arrays
  <2>2. CASE u = t
    <3>1. my'[t].saved.next = next[t] /\ pc[t] = "copy"
      BY <1>12, <2>2, ArrivesAt
    <3>2. QED
      BY <2>2, <3>1 DEF Arrays
  <2>3. QED
    BY <2>1, <2>2
<1>13. ASSUME NEW u \in Threads, pc'[u] \in InElement PROVE cap'[u] # 0
  <2>1. CASE u # t
    BY <1>1, <1>13, <2>1, ArrayMoves DEF Elsewhere, Arrays
  <2>2. CASE u = t /\ Swap(t)
    <3>1. Id(t) \in Ids
      BY <2>2, CallHas, StepSets DEF Swap, Go
    <3>2. cap'[t] = NewCapacity(Id(t))
      BY <2>2 DEF Swap, TypeOK, OthersOK, Entries
    <3>3. QED
      BY <1>2, <1>3, <2>2, <3>1, <3>2
  <2>3. CASE u = t /\ ~Swap(t)
    <3>1. cap[t] # 0
      BY <1>13, <2>3, ArrivesAt DEF Arrays
    <3>2. ~DisposeAll(t)
      BY <1>13, <2>3 DEF DisposeAll, Go, TypeOK, PcOK, InElement, Storing
    <3>3. QED
      BY <2>3, <3>1, <3>2, ArrayMoves
  <2>4. QED
    BY <2>1, <2>2, <2>3
<1>14. ASSUME NEW u \in Threads, pc'[u] \in {"dispose all", "exited"} PROVE next'[u] = NoNodes
  <2>1. CASE u # t
    BY <1>1, <1>8, <1>14, <2>1 DEF Elsewhere
  <2>2. CASE u = t /\ DisposeAll(t)
    <3>1. pc[t] = "dispose all" /\ ~PushBack(t)
      BY <1>9, <1>14, <2>2 DEF DisposeAll, Go
    <3>2. QED
      BY <1>8, <2>2, <3>1
  <2>3. CASE u = t /\ Unlink(t)
    <3>1. \A i \in Ids : next'[t][i] = Null
      BY <1>2, <2>3, UnlinkLinks DEF Linked
    <3>2. next'[t] \in Links
      BY <1>2 DEF TypeOK, LinksOK
    <3>3. QED
      BY <2>3, <3>1, <3>2, NoLinks
  <2>4. QED
    BY <1>14, <2>1, <2>2, <2>3, ArrivesAt
<1>15. ASSUME NEW u \in Threads, NEW i \in Ids, next'[u][i] # Null PROVE i <= C /\ i < cap'[Head]
  <2>1. CASE next[u][i] # Null
    <3>1. i <= C /\ i < cap[Head]
      BY <2>1 DEF Arrays, Linked
    <3>2. i \in Nat
      BY <1>2 DEF Ids
    <3>3. QED
      BY <1>6, <3>1, <3>2
  <2>2. CASE PushBack(t) /\ i = Id(t) /\ i < cap[Head]
    <3>1. Id(t) \in 0..C
      <4>1. pc[t] = "link"
        BY <2>2, PushBackTakes
      <4>2. QED
        BY <4>1, CallHas, StepSets
    <3>2. QED
      BY <1>2, <1>6, <2>2, <3>1
  <2>3. QED
    BY <1>15, <2>1, <2>2, NewLinks
<1>16. QED
  BY <1>4, <1>7, <1>10, <1>11, <1>12, <1>13, <1>14, <1>15 DEF Arrays, Linked

-----------------------------------------------------------------------------
\* The lists.

\* The head is an entry of no thread.
LEMMA EntriesAre == Null \notin Entries /\ Head \in Entries /\ Head \notin Threads /\ Threads \subseteq Entries
BY ThreadLocalAssumption DEF Entries

\* A list whose nodes a step leaves alone.
LEMMA RingStays ==
  ASSUME NEW i \in Ids, Ring(i), \A e \in Entries : next'[e][i] = next[e][i],
         \A e \in Nodes(i) : prev'[e][i] = prev[e][i]
  PROVE  Ring(i)'
<1> DEFINE N == Nodes(i)
           n == Column(next, i)
           p == Column(prev, i)
           n2 == Column(next', i)
           p2 == Column(prev', i)
<1>1. IsRing(N, n, p)
  BY DEF Ring
<1>2. N' = N /\ N \subseteq Entries
  BY DEF Nodes
<1>3. \A e \in N : n2[e] = n[e] /\ p2[e] = p[e]
  BY <1>2 DEF Column
<1> HIDE DEF N, n, p, n2, p2
<1>4. IsRing(N, n2, p2)
  BY <1>1, <1>3, RingSame
<1>5. QED
  BY <1>2, <1>4 DEF Ring, N, n2, p2, Column

\* What a ring says of each of its nodes.
LEMMA RingInv ==
  ASSUME NEW i \in Ids, Ring(i)
  PROVE  /\ Head \in Nodes(i) /\ Nodes(i) \subseteq Entries
         /\ \A e \in Nodes(i) : /\ next[e][i] \in Nodes(i) /\ prev[e][i] \in Nodes(i)
                                /\ prev[next[e][i]][i] = e /\ next[prev[e][i]][i] = e
<1> DEFINE N == Nodes(i)
           n == Column(next, i)
           p == Column(prev, i)
<1>1. IsRing(N, n, p)
  BY DEF Ring
<1>2. N \subseteq Entries /\ \A e \in N : n[e] = next[e][i] /\ p[e] = prev[e][i]
  BY DEF Nodes, Column
<1> HIDE DEF N, n, p
<1>3. /\ Head \in N
      /\ \A e \in N : n[e] \in N /\ p[e] \in N /\ p[n[e]] = e /\ n[p[e]] = e
  BY <1>1 DEF IsRing
<1>4. \A e \in N : /\ next[e][i] \in N /\ prev[e][i] \in N
                   /\ prev[next[e][i]][i] = e /\ next[prev[e][i]][i] = e
  BY <1>2, <1>3
<1>5. QED
  BY <1>2, <1>3, <1>4 DEF N

\* pushBack makes the list a longer ring, ...
LEMMA PushBackRing ==
  ASSUME TypeOK, Calls, IdsGiven, Rings, Running', NEW t \in Threads, PushBack(t), NEW i \in Ids, Ring(i)
  PROVE  Ring(i)'
<1>1. PICK j \in Ids :
           /\ t \notin Nodes(j) /\ prev[Head][j] \in Nodes(j) /\ prev[Head][j] # t
           /\ \A e \in Entries, k \in Ids :
                /\ next'[e][k] = IF k = j /\ e = prev[Head][j] THEN t ELSE IF k = j /\ e = t THEN Head ELSE next[e][k]
                /\ prev'[e][k] = IF k = j /\ e = Head THEN t ELSE IF k = j /\ e = t THEN prev[Head][j] ELSE prev[e][k]
  BY PushBackTakes
<1>2. CASE i # j
  <2>1. \A e \in Entries : next'[e][i] = next[e][i] /\ prev'[e][i] = prev[e][i]
    BY <1>1, <1>2
  <2>2. QED
    BY <2>1, RingInv, RingStays
<1>3. CASE i = j
  <2> DEFINE N == Nodes(i)
             n == Column(next, i)
             p == Column(prev, i)
             n2 == Column(next', i)
             p2 == Column(prev', i)
             l == p[Head]
  <2>1. /\ Head \in N /\ N \subseteq Entries /\ t \in Entries /\ t # Head /\ Head \in Entries
        /\ \A e \in Entries : n[e] = next[e][i] /\ p[e] = prev[e][i] /\ n2[e] = next'[e][i] /\ p2[e] = prev'[e][i]
    BY RingInv, EntriesAre DEF Column
  <2>2. l = prev[Head][i]
    BY <2>1
  <2>3. IsRing(N, n, p)
    BY DEF Ring
  <2>4. t \notin N /\ l \in N /\ l # t
    BY <1>1, <1>3, <2>2
  <2>5. \A e \in Entries :
                /\ next'[e][i] = IF e = l THEN t ELSE IF e = t THEN Head ELSE next[e][i]
                /\ prev'[e][i] = IF e = Head THEN t ELSE IF e = t THEN l ELSE prev[e][i]
    BY <1>1, <1>3, <2>2
  <2>6. Nodes(i)' = N \cup {t}
    <3>1. \A e \in Entries : next'[e][i] # Null <=> e \in N \/ e = t
      BY <2>1, <2>4, <2>5, EntriesAre DEF Nodes
    <3>2. QED
      BY <2>1, <3>1 DEF Nodes
  <2> HIDE DEF N, n, p, n2, p2, l
  <2>7. /\ n2[t] = Head /\ n2[l] = t /\ \A e \in N \ {l} : n2[e] = n[e]
        /\ p2[t] = l /\ p2[Head] = t /\ \A e \in N \ {Head} : p2[e] = p[e]
    BY <2>1, <2>4, <2>5
  <2>8. l = p[Head]
    BY DEF l
  <2>9. IsRing(N \cup {t}, n2, p2)
    BY <2>3, <2>4, <2>7, <2>8, RingInsert
  <2>10. QED
    BY <2>6, <2>9 DEF Ring, n2, p2, Column
<1>4. QED
  BY <1>2, <1>3

\* ... exit a shorter one, ...
LEMMA UnlinkRing ==
  ASSUME TypeOK, NEW t \in Threads, Unlink(t), NEW i \in Ids, Ring(i)
  PROVE  Ring(i)'
<1> DEFINE N == Nodes(i)
           n == Column(next, i)
           p == Column(prev, i)
           n2 == Column(next', i)
           p2 == Column(prev', i)
<1>1. /\ Head \in N /\ N \subseteq Entries /\ t \in Entries /\ t # Head /\ Head \in Entries
      /\ \A e \in N : next[e][i] \in N /\ prev[e][i] \in N
      /\ \A e \in Entries : n[e] = next[e][i] /\ p[e] = prev[e][i] /\ n2[e] = next'[e][i] /\ p2[e] = prev'[e][i]
  BY RingInv, EntriesAre DEF Column
<1>2. CASE ~Linked(t, i)
  <2>1. \A e \in Entries : next'[e][i] = next[e][i] /\ prev'[e][i] = prev[e][i]
    BY <1>2, UnlinkLinks
  <2>2. QED
    BY <1>1, <2>1, RingStays
<1>3. CASE Linked(t, i)
  <2>1. t \in N
    BY <1>1, <1>3 DEF Linked, Nodes
  <2>2. \A e \in Entries :
          /\ next'[e][i] = IF e = t THEN Null ELSE IF e = p[t] THEN n[t] ELSE next[e][i]
          /\ prev'[e][i] = IF e = t THEN Null ELSE IF e = n[t] THEN p[t] ELSE prev[e][i]
    BY <1>1, <1>3, UnlinkLinks
  <2>3. IsRing(N, n, p)
    BY DEF Ring
  <2>4. n[t] \in N /\ p[t] \in N /\ p[n[t]] = t /\ n[p[t]] = t
    BY <2>1, <2>3 DEF IsRing
  <2>5. p[t] # t /\ n[t] # t
    <3>1. n[t] # t
      <4>1. ASSUME n[t] = t PROVE FALSE
        <5> DEFINE M == N \ {t}
        <5>1. \A e \in M : n[e] \in M
          <6>1. \A e \in N : n[e] \in N /\ p[n[e]] = e
            BY <2>3 DEF IsRing
          <6>2. QED
            BY <4>1, <6>1
        <5>2. M \in SUBSET N /\ Head \in M /\ t \notin M
          BY <1>1
        <5> HIDE DEF M, n, p, N
        <5>3. QED
          BY <2>1, <2>3, <5>1, <5>2 DEF IsRing
      <4>2. QED
        BY <4>1
    <3>2. QED
      BY <2>4, <3>1
  <2>6. Nodes(i)' = N \ {t}
    <3>1. \A e \in Entries : next'[e][i] # Null <=> e \in N /\ e # t
      BY <1>1, <2>2, <2>4, <2>5, EntriesAre DEF Nodes
    <3>2. QED
      BY <1>1, <3>1 DEF Nodes
  <2> HIDE DEF N, n, p, n2, p2
  <2>7. /\ n2[p[t]] = n[t] /\ \A e \in N \ {t, p[t]} : n2[e] = n[e]
        /\ p2[n[t]] = p[t] /\ \A e \in N \ {t, n[t]} : p2[e] = p[e]
    BY <1>1, <2>2, <2>4, <2>5
  <2>8. IsRing(N \ {t}, n2, p2)
    <3>1. t # Head
      BY <1>1
    <3>2. QED
      BY <2>1, <2>3, <2>7, <3>1, RingRemove
  <2>9. QED
    BY <2>6, <2>8 DEF Ring, n2, p2, Column
<1>4. QED
  BY <1>2, <1>3

\* ... destroy one of a single node, ...
LEMMA CopyElementsRing ==
  ASSUME TypeOK, Calls, IdsGiven, NEW t \in Threads, CopyElements(t), NEW i \in Ids, Ring(i)
  PROVE  Ring(i)'
<1>1. PICK j \in Ids : j = Id(t)
  BY CallHas, StepSets DEF CopyElements, Go
<1>2. CASE i # j
  <2>1. \A e \in Entries : next'[e][i] = next[e][i] /\ prev'[e][i] = prev[e][i]
    BY <1>1, <1>2, CopyElementsLinks
  <2>2. QED
    BY <2>1, RingInv, RingStays
<1>3. CASE i = j
  <2> DEFINE l == prev[Head][i]
             n2 == Column(next', i)
             p2 == Column(prev', i)
  <2>1. l \in Nodes(i) /\ l \in Entries /\ l # Null /\ next[l][i] = Head /\ next[l][i] # Null
    BY RingInv, EntriesAre
  <2>2. \A e \in Entries :
          /\ next'[e][i] = IF e \in Removed(i) THEN Null ELSE IF e = Head THEN l ELSE next[e][i]
          /\ prev'[e][i] = IF e \in Removed(i) THEN Null ELSE IF e = l THEN Head ELSE prev[e][i]
    BY <1>1, <1>3, CopyElementsLinks
  <2>3. \A e \in Entries : e \in Removed(i) <=> e # Head /\ e # l /\ next[e][i] # Null
    BY EntriesAre DEF Removed, Linked, Entries
  <2> HIDE DEF l
  <2>4. Nodes(i)' = {Head, l}
    <3>1. \A e \in Entries : next'[e][i] # Null <=> e = Head \/ e = l
      BY <2>1, <2>2, <2>3
    <3>2. QED
      BY <2>1, <3>1, EntriesAre DEF Nodes
  <2>5. next'[Head][i] = l /\ next'[l][i] = Head /\ prev'[l][i] = Head /\ prev'[Head][i] = l
    <3>1. Head \notin Removed(i) /\ l \notin Removed(i)
      BY <2>1, <2>3, EntriesAre
    <3>2. next'[Head][i] = l /\ prev'[l][i] = Head
      BY <2>1, <2>2, <3>1, EntriesAre
    <3>3. next'[l][i] = Head
      BY <2>1, <2>2, <3>1
    <3>4. prev'[Head][i] = l
      BY <2>2, <3>1, EntriesAre DEF l
    <3>5. QED
      BY <3>2, <3>3, <3>4
  <2>6. n2[Head] = l /\ n2[l] = Head /\ p2[l] = Head /\ p2[Head] = l
    BY <2>1, <2>5, EntriesAre DEF Column
  <2> HIDE DEF n2, p2
  <2>7. IsRing({Head, l}, n2, p2)
    BY <2>6, RingLast
  <2>8. QED
    BY <2>4, <2>7 DEF Ring, n2, p2, Column
<1>4. QED
  BY <1>2, <1>3

\* ... and reserve makes new heads, each a ring.
LEMMA ReserveHeadRing ==
  ASSUME Few, TypeOK, Calls, IdsGiven, Arrays, Rings, NEW t \in Threads, ReserveHead(t), NEW i \in Ids, i < cap'[Head]
  PROVE  Ring(i)'
<1>1. CASE cap'[Head] = cap[Head]
  <2>1. Ring(i)
    BY <1>1 DEF Rings
  <2>2. Id(t) < cap[Head]
    BY <1>1, ReserveHeadTakes
  <2>3. \A e \in Entries : next'[e][i] = next[e][i] /\ prev'[e][i] = prev[e][i]
    <3>1. Id(t) \in Nat /\ cap[Head] \in Nat
      BY CallHas, StepSets, EntriesAre DEF ReserveHead, Go, TypeOK, OthersOK
    <3>2. QED
      BY <2>2, <3>1, ReserveHeadLinks
  <2>4. QED
    BY <2>1, <2>3, RingInv, RingStays
<1>2. CASE cap'[Head] # cap[Head]
  <2> DEFINE C == Cardinality(Vars)
             n2 == Column(next', i)
             p2 == Column(prev', i)
  <2>1. Id(t) >= cap[Head] /\ Id(t) \in 0..C /\ C \in Nat /\ i \in Nat /\ cap[Head] \in Nat
    <3>1. C \in Nat
      BY FewIds DEF TypeOK
    <3>2. Id(t) >= cap[Head] /\ cap[Head] \in Nat
      BY <1>2, EntriesAre, HeadsMove DEF TypeOK, OthersOK, Progress
    <3>3. Id(t) \in 0..C
      BY CallHas, StepSets DEF ReserveHead, Go
    <3>4. i \in Nat
      BY <3>1 DEF Ids
    <3>5. QED
      BY <3>1, <3>2, <3>3, <3>4
  <2>2. cap[Head] = 0
    <3>1. cap[Head] = 0 \/ cap[Head] > C
      BY EntriesAre DEF Arrays
    <3>2. QED
      BY <2>1, <3>1
  <2>3. \A e \in Entries : next'[e][i] = IF e = Head THEN Head ELSE next[e][i]
    BY <2>1, <2>2, ReserveHeadLinks
  <2>4. \A u \in Threads : next[u][i] = Null
    <3>1. \A u \in Threads : Linked(u, i) => i < cap[Head]
      BY DEF Arrays
    <3>2. QED
      BY <2>1, <2>2, <3>1 DEF Linked
  <2>5. Nodes(i)' = {Head}
    BY <2>3, <2>4, EntriesAre DEF Nodes, Entries
  <2>6. n2[Head] = Head /\ p2[Head] = Head
    <3>1. prev'[Head][i] = Head
      BY <2>1, <2>2, ReserveHeadLinks, EntriesAre
    <3>2. QED
      BY <2>3, <3>1, EntriesAre DEF Column
  <2> HIDE DEF n2, p2
  <2>7. IsRing({Head}, n2, p2)
    BY <2>6, RingOne
  <2>8. QED
    BY <2>5, <2>7 DEF Ring, n2, p2, Column
<1>3. QED
  BY <1>1, <1>2

\* Each list stays one ring.
LEMMA RingsKept ==
  ASSUME Few, TypeOK, Calls, IdsGiven, Arrays, Rings, Running', NEW t \in Threads, Start(t) \/ Progress(t)
  PROVE  Rings'
<1> SUFFICES ASSUME NEW i \in Ids, i < cap'[Head] PROVE Ring(i)'
  BY DEF Rings
<1>1. CASE ReserveHead(t)
  BY <1>1, ReserveHeadRing
<1>2. CASE ~ReserveHead(t)
  <2>1. Ring(i)
    BY <1>2, HeadsMove DEF Rings
  <2>2. CASE UNCHANGED <<next, prev>>
    BY <2>1, <2>2, RingInv, RingStays
  <2>3. CASE Swap(t)
    <3>1. next' = next /\ next[t] = NoNodes /\ \A e \in Entries : e # t => prev'[e] = prev[e]
      BY <2>3, SwapTakes
    <3>2. t \notin Nodes(i) /\ Nodes(i) \subseteq Entries
      BY <3>1 DEF Nodes, NoNodes
    <3>3. QED
      BY <2>1, <3>1, <3>2, RingStays
  <2>4. QED
    BY <1>2, <2>1, <2>2, <2>3, LinksMove, PushBackRing, UnlinkRing, CopyElementsRing
<1>3. QED
  BY <1>1, <1>2

-----------------------------------------------------------------------------
\* Accessors.

\* An accessor that has the mutex.
InSection == {"visit", "release"}

\* What taking the mutex does for an accessor: it is owed every thread with an object.
LEMMA LockAllTakes ==
  ASSUME TypeOK, Calls, IdsGiven, Running', owed \in [Threads -> SUBSET Threads], NEW t \in Threads, LockAll(t)
  PROVE  /\ pc[t] = "lock" /\ pc'[t] = "visit" /\ mutex = NoThread /\ mutex' = t
         /\ Id(t) \in Ids /\ Id(t) < cap[Head] /\ UNCHANGED <<my, value, next>>
         /\ owed' \in [Threads -> SUBSET Threads] /\ owed'[t] = {u \in Threads : Linked(u, Id(t)) /\ ptr[u][Id(t)] # Null}
         /\ \A u \in Threads \ {t} : owed'[u] = owed[u]
<1>1. pc[t] = "lock" /\ pc'[t] = IF Id(t) < cap[Head] THEN "visit" ELSE "bad address"
  BY DEF LockAll, Go, TypeOK, PcOK
<1>2. Id(t) < cap[Head] /\ pc'[t] = "visit"
  BY <1>1 DEF Running, Crashed
<1>3. Id(t) \in Ids
  BY <1>1, CallHas, StepSets
<1>4. /\ mutex = NoThread /\ mutex' = t /\ UNCHANGED <<my, value, next>>
      /\ owed' = [owed EXCEPT ![t] = {u \in Threads : Linked(u, Id(t)) /\ ptr[u][Id(t)] # Null}]
  BY DEF LockAll, ids, mem
<1>5. QED
  BY <1>1, <1>2, <1>3, <1>4

\* What a step of the iterator does.
LEMMA VisitTakes ==
  ASSUME TypeOK, Calls, IdsGiven, owed \in [Threads -> SUBSET Threads], NEW t \in Threads, Visit(t)
  PROVE  LET e == next[my[t].at][Id(t)] IN
         /\ pc[t] = "visit" /\ pc'[t] = IF e = Head THEN "release" ELSE "visit"
         /\ Id(t) \in Ids /\ UNCHANGED <<mutex, value, next>> /\ my'[t].var = my[t].var /\ my'[t].at = e
         /\ owed' \in [Threads -> SUBSET Threads] /\ owed'[t] = owed[t] \ {e}
         /\ \A u \in Threads \ {t} : owed'[u] = owed[u]
<1> DEFINE e == next[my[t].at][Id(t)]
<1>1. pc[t] = "visit" /\ pc'[t] = IF e = Head THEN "release" ELSE "visit"
  BY DEF Visit, Go, TypeOK, PcOK
<1>2. Id(t) \in Ids
  BY <1>1, CallHas, StepSets
<1>3. /\ UNCHANGED <<mutex, value, next>> /\ my' = [my EXCEPT ![t].at = e]
      /\ owed' = [owed EXCEPT ![t] = @ \ {e}]
  BY DEF Visit, ids, mem
<1> HIDE DEF e
<1>4. my'[t].var = my[t].var /\ my'[t].at = e
  BY <1>3, SetAt DEF TypeOK
<1>5. QED
  BY <1>1, <1>2, <1>3, <1>4 DEF e

\* What an accessor is owed only gets less.
LEMMA OwedMoves ==
  ASSUME TypeOK, Calls, IdsGiven, Running', owed \in [Threads -> SUBSET Threads], NEW t \in Threads, Start(t) \/ Progress(t)
  PROVE  /\ owed' \in [Threads -> SUBSET Threads]
         /\ \A u \in Threads : owed'[u] \subseteq owed[u] \/ (LockAll(t) /\ u = t)
<1>1. CASE LockAll(t)
  BY <1>1, LockAllTakes
<1>2. CASE Visit(t)
  <2>1. \E e : owed' = [owed EXCEPT ![t] = @ \ {e}]
    BY <1>2 DEF Visit
  <2>2. QED
    BY <2>1
<1>3. CASE Dispose(t)
  <2>1. owed' = [u \in Threads |-> IF InCall(u, my[t].var) THEN owed[u] \ {t} ELSE owed[u]]
    BY <1>3 DEF Dispose
  <2>2. QED
    BY <2>1
<1>4. CASE UNCHANGED owed
  BY <1>4
<1>5. CASE PushBack(t)
  BY <1>5 DEF PushBack
<1>6. CASE Cleanup(t)
  BY <1>6 DEF Cleanup
<1>7. QED
  BY <1>1, <1>2, <1>3, <1>4, <1>5, <1>6 DEF Start, Progress, Begin, Destroy, Unlink, GetOrAllocate, Allocate, ReserveHead,
     Copy, Swap, Found, AlreadyLinked, Store, Release, DisposeAll, CopyElements, DisposeCopies

\* Only accessors hold the mutex over a step.
LEMMA MutexMoves ==
  ASSUME NEW t \in Threads, Start(t) \/ Progress(t)
  PROVE  mutex' = mutex \/ LockAll(t) \/ Release(t)
<1>1. CASE PushBack(t)
  BY <1>1 DEF PushBack
<1>2. CASE Cleanup(t)
  BY <1>2 DEF Cleanup
<1>3. QED
  BY <1>1, <1>2 DEF Start, Progress, Begin, Destroy, Unlink, GetOrAllocate, Allocate, ReserveHead, Dispose, Visit,
     Copy, Swap, Found, AlreadyLinked, Store, DisposeAll, CopyElements, DisposeCopies

\* Only the accessor that holds the mutex has an iterator under way.
LEMMA IteratorMoves ==
  ASSUME TypeOK, Calls, IdsGiven, NEW t \in Threads, Start(t) \/ Progress(t)
  PROVE  /\ pc'[t] \in InSection => LockAll(t) \/ Visit(t)
         /\ pc'[t] = "release" => Visit(t)
         /\ pc'[t] \notin InSection => my'[t].at = Head \/ (pc[t] \notin InSection /\ my'[t].at = my[t].at)
<1> PcOK /\ MyOK
  BY DEF TypeOK
<1> USE DEF InSection
<1>1. ASSUME NEW v \in Vars, NEW o \in Ops, Begin(t, v, o)
      PROVE  my'[t].at = Head /\ pc'[t] \notin InSection
  <2>1. pc'[t] = (IF value[v] = Invalid THEN "get or allocate" ELSE WithId(t, o, value[v])) /\ my'[t].at = Head
    BY <1>1, BeginTakes, ZenonT(60)
  <2>2. QED
    BY <2>1 DEF WithId
<1>2. ASSUME NEW v \in Vars, Destroy(t, v)
      PROVE  pc'[t] \notin InSection /\ (my'[t].at = Head \/ (pc[t] \notin InSection /\ my'[t].at = my[t].at))
  BY <1>2, DestroyTakes
<1>3. CASE GetOrAllocate(t) \/ ReserveHead(t)
  BY <1>3 DEF GetOrAllocate, ReserveHead, Go, PcOK, WithId
<1>4. CASE Copy(t)
  <2>1. my'[t].at = my[t].at
    BY <1>4, SetSaved DEF Copy
  <2>2. QED
    BY <1>4, <2>1 DEF Copy, Go, PcOK
<1>5. CASE Allocate(t) \/ Swap(t) \/ Dispose(t) \/ AlreadyLinked(t) \/ Unlink(t) \/ DisposeAll(t)
  BY <1>5 DEF Allocate, Swap, Dispose, AlreadyLinked, Unlink, DisposeAll, Go, PcOK
<1>6. ASSUME NEW a, Return(t, a) PROVE my'[t].at = Head /\ pc'[t] = "idle"
  <2>1. my' = [my EXCEPT ![t] = Locals("none", Null)]
    BY <1>6 DEF Return
  <2>2. my'[t].at = Head
    BY <2>1, SetLocals
  <2>3. QED
    BY <1>6, <2>2 DEF Return, Go, PcOK
<1>7. CASE Found(t) \/ Store(t) \/ Release(t) \/ DisposeCopies(t)
  BY <1>6, <1>7 DEF Found, Store, Release, DisposeCopies
<1>8. CASE Cleanup(t)
  <2>1. Return(t, "cleanup") \/ (Go(t, "cleanup", "link") /\ \E o : my' = [my EXCEPT ![t].obj = o])
    BY <1>8 DEF Cleanup
  <2>2. CASE Go(t, "cleanup", "link") /\ \E o : my' = [my EXCEPT ![t].obj = o]
    <3>1. my'[t].at = my[t].at
      BY <2>2, SetObj
    <3>2. QED
      BY <2>2, <3>1 DEF Go, PcOK
  <2>3. QED
    BY <1>6, <2>1, <2>2
<1>9. CASE PushBack(t)
  <2>1. Go(t, "link", IF Id(t) < cap[Head] THEN "store" ELSE "bad address") /\ UNCHANGED my
    BY <1>9 DEF PushBack
  <2>2. pc[t] = "link" /\ pc'[t] \notin InSection
    BY <2>1 DEF Go, PcOK
  <2>3. QED
    BY <2>1, <2>2
<1>10. CASE CopyElements(t)
  <2>1. my'[t].at = my[t].at
    BY <1>10, SetCopies DEF CopyElements
  <2>2. QED
    BY <1>10, <2>1 DEF CopyElements, Go, PcOK
<1>11. CASE LockAll(t)
  <2>1. pc[t] = "lock" /\ UNCHANGED my /\ pc'[t] # "release"
    BY <1>11 DEF LockAll, Go, PcOK
  <2>2. QED
    BY <1>11, <2>1
<1>12. CASE Visit(t)
  <2>1. pc'[t] \in InSection
    BY <1>12 DEF Visit, Go, PcOK
  <2>2. QED
    BY <1>12, <2>1
<1>13. QED
  BY <1>1, <1>2, <1>3, <1>4, <1>5, <1>7, <1>8, <1>9, <1>10, <1>11, <1>12 DEF Start, Progress

\* While an accessor has the mutex, no node moves.
LEMMA SectionIsAlone ==
  ASSUME TypeOK, Arrays, NEW t \in Threads, Start(t) \/ Progress(t), NEW u \in Threads \ {t}, mutex = u,
         pc[t] = "release" => mutex = t
  PROVE  next' = next /\ mutex' = mutex /\ ~LockAll(t)
<1>1. mutex # NoThread
  BY ThreadLocalAssumption
<1>2. ~ReserveHead(t) /\ ~PushBack(t) /\ ~Unlink(t) /\ ~CopyElements(t) /\ ~LockAll(t)
  BY <1>1 DEF ReserveHead, PushBack, Unlink, CopyElements, LockAll
<1>3. ~Release(t)
  BY DEF Release, Return, Go
<1>4. Swap(t) => next' = next
  BY SwapTakes
<1>5. QED
  BY <1>2, <1>3, <1>4, LinksMove, MutexMoves

\* An accessor's iterator stays in the list, and what it still owes lies ahead of it.
LEMMA AccessKept ==
  ASSUME TypeOK, Calls, IdsGiven, HeadFound, Arrays, Rings, Access, AccessorVisitsAll, Running',
         NEW t \in Threads, Start(t) \/ Progress(t)
  PROVE  Access' /\ AccessorVisitsAll'
<1>1. Elsewhere(t)
  BY MyOKKept
<1> USE DEF InSection
<1>2. /\ owed \in [Threads -> SUBSET Threads]
      /\ \A u \in Threads :
           /\ pc[u] \in InSection => mutex = u
           /\ pc[u] \notin InSection => my[u].at = Head
           /\ pc[u] = "visit" => my[u].at \in Nodes(Id(u)) /\ Ahead(u)
  BY DEF Access
<1>3. /\ owed' \in [Threads -> SUBSET Threads]
      /\ \A u \in Threads : owed'[u] \subseteq owed[u] \/ (LockAll(t) /\ u = t)
  BY <1>2, OwedMoves
<1>4. ASSUME NEW u \in Threads \ {t}
      PROVE  /\ pc'[u] \in InSection => mutex' = u
             /\ pc'[u] \notin InSection => my'[u].at = Head
             /\ pc'[u] = "visit" => my'[u].at \in Nodes(Id(u))' /\ Ahead(u)'
             /\ pc'[u] = "release" => owed'[u] = {}
  <2>1. pc'[u] = pc[u] /\ my'[u] = my[u] /\ owed'[u] \subseteq owed[u]
    BY <1>1, <1>3 DEF Elsewhere
  <2>2. ASSUME pc[u] \in InSection PROVE mutex' = u /\ next' = next
    <3>1. mutex = u
      BY <1>2, <2>2
    <3>2. pc[t] = "release" => mutex = t
      BY <1>2
    <3>3. QED
      BY <3>1, <3>2, SectionIsAlone
  <2>3. ASSUME pc[u] = "visit" PROVE my'[u].at \in Nodes(Id(u))' /\ Ahead(u)'
    <3>1. PICK i \in Ids : i = Id(u)
      BY <2>3, CallHas, StepSets
    <3>2. Id(u)' = i
      <4>1. my[u].var \in Vars /\ value[my[u].var] # Invalid
        BY <2>3, <3>1, CallHas, StepSets, IdsArePositive DEF Id
      <4>2. QED
        BY <2>1, <3>1, <4>1, IdsStay DEF Id
    <3>3. next' = next
      BY <2>2, <2>3
    <3>4. my[u].at \in Nodes(i) /\ Ahead(u)
      BY <1>2, <2>3, <3>1
    <3>5. ASSUME NEW S \in SUBSET Nodes(i), next[my[u].at][i] \in S, \A e \in S \ {Head} : next[e][i] \in S
          PROVE  owed'[u] \subseteq S
      <4>1. owed[u] \subseteq S
        BY <3>1, <3>4, <3>5 DEF Ahead
      <4>2. QED
        BY <2>1, <4>1
    <3>6. Ahead(u)'
      BY <2>1, <3>2, <3>3, <3>5 DEF Ahead, Nodes
    <3>7. my'[u].at \in Nodes(Id(u))'
      BY <2>1, <3>2, <3>3, <3>4 DEF Nodes
    <3>8. QED
      BY <3>6, <3>7
  <2>4. pc[u] = "release" => owed'[u] = {}
    BY <2>1 DEF AccessorVisitsAll
  <2>5. QED
    BY <1>2, <2>1, <2>2, <2>3, <2>4
<1>5. CASE LockAll(t)
  <2>1. /\ pc[t] = "lock" /\ pc'[t] = "visit" /\ mutex' = t
        /\ Id(t) \in Ids /\ Id(t) < cap[Head] /\ UNCHANGED <<my, value, next>>
        /\ owed'[t] = {u \in Threads : Linked(u, Id(t)) /\ ptr[u][Id(t)] # Null}
    BY <1>2, <1>5, LockAllTakes
  <2>2. PICK i \in Ids : i = Id(t)
    BY <2>1
  <2>3. my[t].at = Head /\ Ring(i) /\ Id(t)' = i
    BY <1>2, <2>1, <2>2 DEF Rings, Id
  <2>4. Head \in Nodes(i) /\ owed'[t] \subseteq Nodes(i) \ {Head}
    BY <2>1, <2>2, <2>3, RingInv, EntriesAre DEF Linked, Nodes
  <2>5. ASSUME NEW S \in SUBSET Nodes(i), next[Head][i] \in S, \A e \in S \ {Head} : next[e][i] \in S
        PROVE  owed'[t] \subseteq S
    <3> DEFINE R == S \cup {Head}
               N == Nodes(i)
               n == Column(next, i)
               p == Column(prev, i)
    <3>1. R \in SUBSET N /\ Head \in R /\ N \subseteq Entries
      BY <2>4 DEF Nodes
    <3>2. \A e \in R : n[e] \in R
      BY <2>5, <3>1 DEF Column
    <3>3. IsRing(N, n, p)
      BY <2>3 DEF Ring
    <3> HIDE DEF R, N, n, p
    <3>4. R = N
      BY <3>1, <3>2, <3>3 DEF IsRing
    <3>5. QED
      BY <2>4, <3>4 DEF R, N
  <2>6. Ahead(t)'
    BY <2>1, <2>3, <2>5 DEF Ahead, Nodes
  <2>7. my'[t].at \in Nodes(Id(t))'
    BY <2>1, <2>3, <2>4 DEF Nodes
  <2>8. QED
    BY <1>3, <1>4, <2>1, <2>6, <2>7 DEF Access, AccessorVisitsAll
<1>6. CASE Visit(t)
  <2> DEFINE e == next[my[t].at][Id(t)]
  <2>1. /\ pc[t] = "visit" /\ pc'[t] = IF e = Head THEN "release" ELSE "visit"
        /\ Id(t) \in Ids /\ UNCHANGED <<mutex, value, next>> /\ my'[t].var = my[t].var /\ my'[t].at = e
        /\ owed'[t] = owed[t] \ {e}
    BY <1>2, <1>6, VisitTakes
  <2>2. PICK i \in Ids : i = Id(t)
    BY <2>1
  <2>3. my[t].at \in Nodes(i) /\ Ahead(t) /\ mutex = t
    BY <1>2, <2>1, <2>2
  <2>4. Ring(i) /\ Id(t)' = i
    <3>1. Ready(my[t].var)
      BY <2>1 DEF HeadFound
    <3>2. QED
      BY <2>1, <2>2, <3>1 DEF Ready, Rings, Id
  <2>5. e \in Nodes(i) /\ Head \in Nodes(i)
    BY <2>2, <2>3, <2>4, RingInv
  <2>6. \A S \in SUBSET Nodes(i) : e \in S /\ (\A x \in S \ {Head} : next[x][i] \in S) => owed[t] \subseteq S
    BY <2>2, <2>3 DEF Ahead
  <2> HIDE DEF e
  <2>7. ASSUME e = Head PROVE owed'[t] = {}
    <3>1. owed[t] \subseteq {Head}
      BY <2>5, <2>6, <2>7
    <3>2. Head \notin owed[t]
      BY <1>2, EntriesAre
    <3>3. QED
      BY <2>1, <3>1, <3>2
  <2>8. ASSUME NEW S \in SUBSET Nodes(i), next[e][i] \in S, \A x \in S \ {Head} : next[x][i] \in S
        PROVE  owed'[t] \subseteq S
    <3>1. owed[t] \subseteq S \cup {e}
      <4>1. S \cup {e} \in SUBSET Nodes(i) /\ \A x \in (S \cup {e}) \ {Head} : next[x][i] \in S \cup {e}
        BY <2>5, <2>8
      <4>2. QED
        BY <2>6, <4>1
    <3>2. QED
      BY <2>1, <3>1
  <2>9. Ahead(t)'
    BY <2>1, <2>4, <2>8 DEF Ahead, Nodes
  <2>10. my'[t].at \in Nodes(Id(t))'
    BY <2>1, <2>4, <2>5 DEF Nodes
  <2>11. mutex' = t /\ pc'[t] \in InSection
    BY <2>1, <2>3
  <2>12. QED
    BY <1>3, <1>4, <2>1, <2>7, <2>9, <2>10, <2>11 DEF Access, AccessorVisitsAll
<1>7. CASE ~LockAll(t) /\ ~Visit(t)
  <2>1. pc'[t] \notin InSection
    BY <1>7, IteratorMoves
  <2>2. my'[t].at = Head
    BY <1>2, <2>1, IteratorMoves
  <2>3. QED
    BY <1>3, <1>4, <2>1, <2>2 DEF Access, AccessorVisitsAll
<1>8. QED
  BY <1>5, <1>6, <1>7

-----------------------------------------------------------------------------
\* The second invariant.

\* destroy, with nobody else in the variable, finds its head, and so does who has locked the list.
LEMMA HeadFoundKept ==
  ASSUME TypeOK, Calls, IdsGiven, HeadComes, HeadFound, owed \in [Threads -> SUBSET Threads],
         Running', NEW t \in Threads, Start(t) \/ Progress(t)
  PROVE  HeadFound'
<1>1. Elsewhere(t) /\ MyOK' /\ TypeOK /\ PcOK
  BY MyOKKept DEF TypeOK
<1>2. ASSUME NEW u \in Threads, pc'[u] \in {"visit", "destroy"}
      PROVE  \E v \in Vars : v = my'[u].var /\ Ready(v)
  <2>1. ASSUME pc[u] \in {"visit", "destroy"}, my'[u].var = my[u].var
        PROVE  \E v \in Vars : v = my'[u].var /\ Ready(v)
    <3>1. my[u].var \in Vars
      BY <2>1, CallHas, StepSets
    <3>2. QED
      BY <2>1, <3>1 DEF HeadFound
  <2>2. CASE u # t
    BY <1>1, <1>2, <2>1, <2>2 DEF Elsewhere
  <2>3. CASE u = t
    <3>1. CASE LockAll(t)
      <4>1. Id(t) \in Ids /\ Id(t) < cap[Head] /\ my' = my /\ pc[t] = "lock"
        BY <1>1, <3>1, LockAllTakes
      <4>2. my[t].var \in Vars
        BY <4>1, CallHas, StepSets
      <4>3. QED
        BY <2>3, <4>1, <4>2, IdsArePositive DEF Ready, Id
    <3>2. CASE Visit(t)
      BY <1>1, <2>1, <2>3, <3>2, VisitTakes
    <3>3. ASSUME NEW v \in Vars, Destroy(t, v), pc'[t] = "destroy"
          PROVE  v = my'[t].var /\ Ready(v)
      <4>1. pc[t] = "idle" /\ Alone(t, v) /\ value[v] # Invalid /\ my'[t].var = v
        BY <1>1, <3>3, DestroyTakes
      <4>2. ~ \E x \in Threads : InCall(x, v) /\ pc[x] = "reserve head"
        BY <4>1 DEF Alone
      <4>3. QED
        BY <4>1, <4>2 DEF HeadComes
    <3>4. QED
      BY <1>1, <1>2, <2>3, <3>1, <3>2, <3>3, IteratorMoves, DestroyBegins DEF InSection
  <2>4. QED
    BY <2>2, <2>3
<1>3. ASSUME NEW u \in Threads, pc'[u] \in {"visit", "destroy"} PROVE Ready(my[u].var)'
  <2>1. PICK v \in Vars : v = my'[u].var /\ Ready(v)
    BY <1>2, <1>3
  <2>2. Ready(v)'
    BY <2>1, ReadyStays
  <2>3. QED
    BY <2>1, <2>2 DEF Ready
<1>4. QED
  BY <1>3 DEF HeadFound

\* The second invariant holds at first, ...
LEMMA InitBInv ==
  ASSUME Init
  PROVE  BInv
<1>1. my = [t \in Threads |-> Locals("none", Null)] /\ pc = [t \in Threads |-> "idle"]
  BY DEF Init
<1>2. \A t \in Threads : pc[t] = "idle" /\ my[t].var = Null /\ my[t].at = Head
  BY <1>1, LocalsAre
<1>3. /\ value = [v \in Vars |-> Invalid] /\ cap = [e \in Entries |-> 0]
      /\ next = [e \in Entries |-> NoNodes] /\ owed = [t \in Threads |-> {}]
  BY DEF Init
<1>4. AccessorVisitsAll /\ HeadFound
  BY <1>2 DEF AccessorVisitsAll, HeadFound
<1>6. Arrays
  BY <1>2, <1>3, EntriesAre DEF Arrays, Linked, NoNodes, InElement, Storing
<1>7. Rings
  <2>1. cap[Head] = 0 /\ \A i \in Ids : i \in Nat
    BY <1>3, EntriesAre, FS_CardinalityType, ThreadLocalAssumption DEF Ids
  <2>2. QED
    BY <2>1 DEF Rings
<1>8. Access
  BY <1>2, <1>3 DEF Access
<1>9. QED
  BY <1>4, <1>6, <1>7, <1>8 DEF BInv

\* A step that ends the program leaves the lists, their heads and the debts of those that are through.
LEMMA CrashKeeps ==
  ASSUME TypeOK, Arrays, NEW t \in Threads, Start(t) \/ Progress(t), pc'[t] \in Crashed, pc[t] \notin Crashed
  PROVE  UNCHANGED <<next, prev, cap>> /\ \A u \in Threads \ {t} : owed'[u] = owed[u]
<1> PcOK
  BY DEF TypeOK
<1>1. CASE Allocate(t)
  BY <1>1 DEF Allocate, mem
<1>2. CASE PushBack(t) /\ pc'[t] = "bad address"
  <2>1. pc'[t] = IF Id(t) < cap[Head] THEN "store" ELSE "bad address"
    BY <1>2 DEF PushBack, Go, PcOK
  <2>2. ~(Id(t) < cap[Head])
    BY <1>2, <2>1
  <2>3. QED
    BY <1>2, <2>2 DEF PushBack
<1>3. CASE LockAll(t)
  <2>1. UNCHANGED mem /\ owed' = [owed EXCEPT ![t] = {u \in Threads : Linked(u, Id(t)) /\ ptr[u][Id(t)] # Null}]
    BY <1>3 DEF LockAll
  <2>2. QED
    BY <2>1 DEF mem
<1>4. CASE CopyElements(t) /\ pc'[t] = "bad address"
  <2>1. pc[t] = "destroy" /\ pc'[t] = IF my[t].ref = cap[Head] THEN "dispose copies" ELSE "bad address"
    BY <1>4 DEF CopyElements, Go, PcOK
  <2>2. QED
    BY <1>4, <2>1 DEF Arrays
<1>5. QED
  BY <1>1, <1>2, <1>3, <1>4, CrashMoves

\* ... and is kept by every step.
LEMMA NextBInv ==
  ASSUME Few, AInv, HInv, BInv, [Next]_vars
  PROVE  BInv'
<1>1. CASE Next
  <2>1. PICK t \in Threads : Start(t) \/ Progress(t)
    BY <1>1 DEF Next
  <2>2. Running /\ TypeOK /\ Calls /\ IdsGiven /\ Objectwise /\ HeadComes
    BY <1>1 DEF AInv, HInv, Next
  <2>3. HeadFound /\ Arrays /\ Rings /\ Access /\ AccessorVisitsAll
    BY <2>2 DEF BInv
  <2>4. CASE Running'
    <3>1. TypeOK'
      BY <2>1, <2>2, TypeOKKept DEF Objectwise
    <3>2. HeadFound'
      BY <2>1, <2>2, <2>3, <2>4, HeadFoundKept DEF Access
    <3>3. Arrays'
      BY <2>1, <2>2, <2>3, <2>4, <3>1, ArraysKept
    <3>4. Rings'
      BY <2>1, <2>2, <2>3, <2>4, RingsKept
    <3>5. Access' /\ AccessorVisitsAll'
      BY <2>1, <2>2, <2>3, <2>4, AccessKept
    <3>6. QED
      BY <3>2, <3>3, <3>4, <3>5 DEF BInv
  <2>5. CASE ~Running'
    <3>1. Elsewhere(t) /\ pc[t] \notin Crashed
      BY <2>1, <2>2, MyOKKept DEF Running
    <3>2. pc'[t] \in Crashed
      BY <2>2, <2>5, <3>1 DEF Running, Elsewhere
    <3>3. UNCHANGED <<next, prev, cap>> /\ \A u \in Threads \ {t} : owed'[u] = owed[u]
      BY <2>1, <2>2, <2>3, <3>1, <3>2, CrashKeeps
    <3>4. Rings'
      BY <2>3, <3>3 DEF Rings, Ring, Nodes, Column
    <3>5. AccessorVisitsAll'
      BY <2>3, <3>1, <3>2, <3>3 DEF AccessorVisitsAll, Elsewhere, Crashed
    <3>6. QED
      BY <2>5, <3>4, <3>5 DEF BInv
  <2>6. QED
    BY <2>4, <2>5
<1>2. CASE UNCHANGED vars
  <2>1. UNCHANGED <<mutex, value, cap, next, prev, pc, my, owed>>
    BY <1>2 DEF vars, ids, mem
  <2>2. (AccessorVisitsAll' <=> AccessorVisitsAll) /\ (Running' <=> Running)
    BY <2>1 DEF AccessorVisitsAll, Running
  <2>3. HeadFound' <=> HeadFound
    BY <2>1 DEF HeadFound, Ready
  <2>4. Arrays' <=> Arrays
    BY <2>1 DEF Arrays, Linked
  <2>5. Rings' <=> Rings
    BY <2>1 DEF Rings, Ring, Nodes, Column
  <2>6. Access' <=> Access
    BY <2>1 DEF Access, Ahead, Nodes, Id
  <2>7. QED
    BY <2>2, <2>3, <2>4, <2>5, <2>6 DEF BInv
<1>3. QED
  BY <1>1, <1>2

\* When the first arrays are never outgrown, the lists are rings and accessors miss nothing.
THEOREM ArraysThatLast ==
  ASSUME Few
  PROVE  Spec => []BInv
<1>1. Init => BInv
  BY InitBInv
<1>2. AInv /\ HInv /\ BInv /\ [Next]_vars => BInv'
  BY NextBInv
<1>3. QED
  BY <1>1, <1>2, Invariance, HeadsInvariance, PTL DEF Spec

\* The invariants give what an accessor comes by.
LEMMA VisitsLive ==
  ASSUME AInv, BInv, Few
  PROVE  AccessorVisitsLive
<1>2. SUFFICES ASSUME Running PROVE AccessorVisitsLive
  BY DEF AccessorVisitsLive
<1>1. Arrays /\ Access
  BY <1>2 DEF BInv
<1>3. TypeOK /\ Calls /\ IdsGiven /\ Objectwise
  BY <1>2 DEF AInv
<1> SUFFICES ASSUME NEW t \in Threads, pc[t] = "visit", my[t].at # Head
             PROVE  LET u == my[t].at
                        i == Id(t)
                    IN  /\ i < cap[u] /\ Linked(u, i)
                        /\ ptr[u][i] = Null \/ fate[ptr[u][i]] = "live" \/ (pc[u] = "cleanup" /\ Id(u) = i)
  BY DEF AccessorVisitsLive
<1>4. PICK i \in Ids, u \in Threads : i = Id(t) /\ u = my[t].at /\ u \in Nodes(i)
  <2>1. Id(t) \in Ids
    BY <1>3, CallHas, StepSets
  <2>2. my[t].at \in Nodes(Id(t)) /\ my[t].at \in Threads
    BY <1>1 DEF Access, Nodes, Entries
  <2>3. QED
    BY <2>1, <2>2
<1>5. Linked(u, i)
  BY <1>4 DEF Linked, Nodes
<1>6. i < cap[u]
  <2>1. i <= Cardinality(Vars) /\ cap[u] # 0
    BY <1>1, <1>5 DEF Arrays, Linked, NoNodes
  <2>2. cap[u] > Cardinality(Vars) /\ cap[u] \in Nat /\ Cardinality(Vars) \in Nat
    BY <1>1, <1>3, <2>1, FewIds, EntriesAre DEF Arrays, TypeOK, OthersOK
  <2>3. i \in Nat
    BY <2>2 DEF Ids
  <2>4. QED
    BY <2>1, <2>2, <2>3
<1>7. ASSUME ptr[u][i] # Null PROVE fate[ptr[u][i]] = "live" \/ (pc[u] = "cleanup" /\ Id(u) = i)
  <2> DEFINE o == ptr[u][i]
  <2>1. /\ value[o[2]] = i
        /\ fate[o] = "live" \/ o[2] \in gone \/ (pc[u] = "cleanup" /\ Id(u) = i)
    BY <1>3, <1>7 DEF Objectwise, PointsRight
  <2>2. o[2] \in Vars
    BY <1>3, <1>7, PointsTo
  <2> HIDE DEF o
  <2>3. my[t].var \in Vars /\ value[my[t].var] = i
    BY <1>3, <1>4, CallHas, StepSets DEF Id
  <2>4. o[2] = my[t].var
    BY <1>3, <2>1, <2>2, <2>3, SameId
  <2>5. my[t].var \notin gone
    BY <1>3 DEF Calls, Destroying
  <2>6. QED
    BY <2>1, <2>4, <2>5 DEF o
<1>8. QED
  BY <1>4, <1>5, <1>6, <1>7

\* An accessor comes by live objects only, in arrays that are not freed, unless the object's
\* own thread is just then resetting it.
THEOREM VisitsOnlyLive ==
  ASSUME Few
  PROVE  Spec => []AccessorVisitsLive
<1>1. AInv /\ BInv => AccessorVisitsLive
  BY VisitsLive
<1>2. QED
  BY <1>1, Invariance, ArraysThatLast, PTL

-----------------------------------------------------------------------------
\* Lists from the head on.

\* Induction over the numbers, with a set of numbers: an operator cannot be passed
\* to a lemma here.
LEMMA NaturalInduction ==
  ASSUME NEW Q, 0 \in Q, \A n \in Nat : n \in Q => n + 1 \in Q
  PROVE  \A n \in Nat : n \in Q
<1> DEFINE Bad == {n \in Nat : n \notin Q}
           R == OpToRel(<, Nat)
<1>1. SUFFICES ASSUME Bad # {} PROVE FALSE
  OBVIOUS
<1>2. PICK n \in Bad : \A m \in Bad : <<m, n>> \notin R
  <2>1. Bad \subseteq Nat /\ IsWellFoundedOn(R, Nat)
    BY NatLessThanWellFounded
  <2> HIDE DEF Bad, R
  <2>2. QED
    BY <1>1, <2>1, WFMin
<1>3. n # 0 /\ n - 1 \in Nat /\ n - 1 < n /\ n = (n - 1) + 1
  <2> HIDE DEF R
  <2>1. n \in Nat /\ n \notin Q
    BY <1>2
  <2>2. n # 0
    BY <2>1
  <2>3. QED
    BY <2>1, <2>2
<1>4. n - 1 \notin Bad
  BY <1>2, <1>3 DEF OpToRel
<1>5. QED
  BY <1>2, <1>3, <1>4

\* f walks m steps along links, from the head.
Walk(f, links, i, m) == f = [n \in 0..m |-> IF n = 0 THEN Head ELSE links[f[n - 1]][i]]

\* The entries that f has come by in k steps.
Reached(f, k) == {f[j] : j \in 0..k}

\* There is a walk of any length.
LEMMA WalkExists ==
  ASSUME NEW links, NEW i
  PROVE  \A m \in Nat : \E f : Walk(f, links, i, m)
<1> DEFINE Q == {m \in Nat : \E f : Walk(f, links, i, m)}
<1>1. 0 \in Q
  <2> DEFINE g == [n \in 0..0 |-> Head]
  <2>1. g = [n \in 0..0 |-> IF n = 0 THEN Head ELSE links[g[n - 1]][i]]
    OBVIOUS
  <2> HIDE DEF g
  <2>2. Walk(g, links, i, 0)
    BY <2>1 DEF Walk
  <2>3. QED
    BY <2>2
<1>2. \A m \in Nat : m \in Q => m + 1 \in Q
  <2> SUFFICES ASSUME NEW m \in Nat, NEW f, Walk(f, links, i, m) PROVE \E g : Walk(g, links, i, m + 1)
    OBVIOUS
  <2> DEFINE g == [n \in 0..(m + 1) |-> IF n = m + 1 THEN links[f[m]][i] ELSE f[n]]
  <2>1. \A n \in 0..m : f[n] = IF n = 0 THEN Head ELSE links[f[n - 1]][i]
    BY DEF Walk
  <2>2. \A n \in 0..(m + 1) : g[n] = IF n = 0 THEN Head ELSE links[g[n - 1]][i]
    <3> SUFFICES ASSUME NEW n \in 0..(m + 1)
                 PROVE  g[n] = IF n = 0 THEN Head ELSE links[g[n - 1]][i]
      OBVIOUS
    <3>1. CASE n = m + 1
      <4>1. n # 0 /\ n - 1 = m /\ m \in 0..(m + 1) /\ m # m + 1
        BY <3>1
      <4>2. g[n] = links[f[m]][i] /\ g[m] = f[m]
        BY <3>1, <4>1
      <4> HIDE DEF g
      <4>3. QED
        BY <4>1, <4>2
    <3>2. CASE n # m + 1
      <4>1. n \in 0..m /\ (n # 0 => n - 1 \in 0..(m + 1) /\ n - 1 # m + 1)
        BY <3>2
      <4>2. g[n] = f[n] /\ (n # 0 => g[n - 1] = f[n - 1])
        BY <3>2, <4>1
      <4> HIDE DEF g
      <4>3. QED
        BY <2>1, <4>1, <4>2
    <3>3. QED
      BY <3>1, <3>2
  <2>3. g = [n \in 0..(m + 1) |-> g[n]]
    OBVIOUS
  <2> HIDE DEF g
  <2>4. Walk(g, links, i, m + 1)
    BY <2>2, <2>3 DEF Walk
  <2>5. QED
    BY <2>4
<1> HIDE DEF Q
<1>3. \A m \in Nat : m \in Q
  BY <1>1, <1>2, NaturalInduction
<1>4. QED
  BY <1>3 DEF Q

\* What the chain is, in terms of one walk.
LEMMA ChainIs ==
  ASSUME NEW i \in Ids, IsFiniteSet(Threads)
  PROVE  \E f : /\ f[0] = Head
                /\ \A n \in 1..Cardinality(Threads) : f[n] = next[f[n - 1]][i]
                /\ Chain(i) = {f[n] : n \in 0..Cardinality({t \in Threads : Linked(t, i)})}
<1> DEFINE m == Cardinality(Threads)
           f == CHOOSE g : g = [n \in 0..m |-> IF n = 0 THEN Head ELSE next[g[n - 1]][i]]
<1>1. m \in Nat
  BY FS_CardinalityType
<1>2. \E g : g = [n \in 0..m |-> IF n = 0 THEN Head ELSE next[g[n - 1]][i]]
  <2>1. \A k \in Nat : \E g : Walk(g, next, i, k)
    BY WalkExists
  <2>2. \E g : Walk(g, next, i, m)
    BY <1>1, <2>1
  <2>3. QED
    BY <2>2 DEF Walk
<1>3. f = [n \in 0..m |-> IF n = 0 THEN Head ELSE next[f[n - 1]][i]]
  BY <1>2
<1>4. Chain(i) = {f[n] : n \in 0..Cardinality({t \in Threads : Linked(t, i)})}
  BY DEF Chain
<1> HIDE DEF f, m
<1>5. f[0] = Head /\ \A n \in 1..m : f[n] = next[f[n - 1]][i]
  <2>1. \A n \in 0..m : f[n] = IF n = 0 THEN Head ELSE next[f[n - 1]][i]
    BY <1>3
  <2>2. 0 \in 0..m /\ \A n \in 1..m : n \in 0..m /\ n # 0
    BY <1>1
  <2>3. QED
    BY <2>1, <2>2
<1>6. QED
  BY <1>4, <1>5 DEF m

\* k steps along a ring reach all its nodes, or k + 1 of them.
LEMMA RingWalk ==
  ASSUME NEW N, IsFiniteSet(N), NEW n, NEW p, IsRing(N, n, p), NEW f,
         NEW m \in Nat, f[0] = Head,
         \A k \in 1..m : f[k - 1] \in N => f[k] = n[f[k - 1]]
  PROVE  \A k \in 0..m :
           Reached(f, k) \subseteq N /\ (Reached(f, k) = N \/ Cardinality(Reached(f, k)) = k + 1)
<1> DEFINE S(k) == {f[j] : j \in 0..k}
           P(k) == S(k) \subseteq N /\ (S(k) = N \/ Cardinality(S(k)) = k + 1)
           Q == {k \in Nat : k <= m => P(k)}
<1>1. 0 \in Q
  <2>1. S(0) = {Head}
    <3>1. 0..0 = {0}
      OBVIOUS
    <3>2. QED
      BY <3>1
  <2>2. Head \in N
    BY DEF IsRing
  <2> HIDE DEF S
  <2>3. QED
    BY <2>1, <2>2, FS_Singleton
<1>2. \A k \in Nat : k \in Q => k + 1 \in Q
  <2> SUFFICES ASSUME NEW k \in Nat, k + 1 <= m, P(k) PROVE P(k + 1)
    OBVIOUS
  <2> DEFINE x == f[k + 1]
  <2>1. S(k + 1) = S(k) \cup {x}
    <3>1. 0..(k + 1) = (0..k) \cup {k + 1}
      OBVIOUS
    <3>2. QED
      BY <3>1
  <2>2. \A j \in 0..k : n[f[j]] \in S(k) \cup {x}
    <3> SUFFICES ASSUME NEW j \in 0..k PROVE n[f[j]] \in S(k) \cup {x}
      OBVIOUS
    <3>1. j + 1 \in 1..m /\ (j + 1) - 1 = j /\ (j + 1 \in 0..k \/ j + 1 = k + 1)
      OBVIOUS
    <3>2. f[j] \in N
      OBVIOUS
    <3>3. f[j + 1] = n[f[j]]
      BY <3>1, <3>2
    <3>4. QED
      BY <3>1, <3>3
  <2>3. x \in N
    <3>1. k + 1 \in 1..m /\ (k + 1) - 1 = k /\ k \in 0..k
      OBVIOUS
    <3>2. f[k] \in N
      BY <3>1
    <3>3. x = n[f[k]]
      BY <3>1, <3>2
    <3>4. QED
      BY <3>2, <3>3 DEF IsRing
  <2>4. Head \in S(k)
    <3>1. 0 \in 0..k
      OBVIOUS
    <3>2. QED
      BY <3>1
  <2>5. \A e \in S(k) : n[e] \in S(k) \cup {x}
    BY <2>2
  <2> HIDE DEF S, x
  <2>6. CASE x \in S(k)
    <3>1. S(k) \cup {x} = S(k)
      BY <2>6
    <3>2. S(k) = N
      BY <2>4, <2>5, <3>1 DEF IsRing
    <3>3. QED
      BY <2>1, <3>1, <3>2
  <2>7. CASE x \notin S(k)
    <3>1. S(k) # N
      BY <2>3, <2>7
    <3>2. IsFiniteSet(S(k))
      BY FS_Subset
    <3>3. Cardinality(S(k) \cup {x}) = Cardinality(S(k)) + 1
      BY <2>7, <3>2, FS_AddElement
    <3>4. QED
      BY <2>1, <2>3, <3>1, <3>3
  <2>8. QED
    BY <2>6, <2>7
<1> HIDE DEF Q
<1>3. \A k \in Nat : k \in Q
  BY <1>1, <1>2, NaturalInduction
<1>4. \A k \in 0..m : P(k)
  <2> HIDE DEF P
  <2>1. QED
    BY <1>3 DEF Q
<1>5. QED
  BY <1>4 DEF Reached

\* A list that is a ring is whole.
LEMMA RingIsWhole ==
  ASSUME NEW i \in Ids, Ring(i)
  PROVE  LET nodes == {Head} \cup {t \in Threads : Linked(t, i)} IN
           Chain(i) = nodes /\ \A e \in nodes : next[e][i] \in nodes /\ prev[next[e][i]][i] = e
<1> DEFINE nodes == {Head} \cup {t \in Threads : Linked(t, i)}
           linked == {t \in Threads : Linked(t, i)}
           n == Column(next, i)
           p == Column(prev, i)
           m == Cardinality(linked)
<1>1. nodes = Nodes(i)
  <2>1. Head \in Nodes(i)
    BY DEF Ring, IsRing
  <2>2. \A e \in Nodes(i) : e = Head \/ e \in Threads
    BY DEF Nodes, Entries
  <2>3. \A t \in Threads : t \in Nodes(i) <=> Linked(t, i)
    BY DEF Nodes, Linked, Entries
  <2>4. QED
    BY <2>1, <2>2, <2>3
<1>2. IsRing(nodes, n, p) /\ nodes \subseteq Entries
  BY <1>1 DEF Ring, Nodes
<1>3. \A e \in nodes : n[e] = next[e][i] /\ p[e] = prev[e][i]
  BY <1>2 DEF Column
<1>4. /\ IsFiniteSet(nodes) /\ Cardinality(nodes) = m + 1
      /\ m \in Nat /\ m <= Cardinality(Threads) /\ Cardinality(Threads) \in Nat /\ IsFiniteSet(Threads)
  <2>1. IsFiniteSet(Threads) /\ Head \notin Threads
    BY ThreadLocalAssumption
  <2>2. IsFiniteSet(linked) /\ m <= Cardinality(Threads)
    <3>1. linked \subseteq Threads
      OBVIOUS
    <3> HIDE DEF linked
    <3>2. QED
      BY <2>1, <3>1, FS_Subset
  <2>3. Head \notin linked /\ nodes = linked \cup {Head}
    BY <2>1
  <2> HIDE DEF linked, nodes
  <2>4. QED
    BY <2>1, <2>2, <2>3, FS_AddElement, FS_CardinalityType
<1> HIDE DEF nodes, n, p
<1>5. PICK f : /\ f[0] = Head
               /\ \A k \in 1..Cardinality(Threads) : f[k] = next[f[k - 1]][i]
               /\ Chain(i) = {f[k] : k \in 0..m}
  BY <1>4, ChainIs
<1> HIDE DEF m
<1>6. Chain(i) = nodes
  <2>1. \A k \in 1..m : f[k - 1] \in nodes => f[k] = n[f[k - 1]]
    <3> SUFFICES ASSUME NEW k \in 1..m, f[k - 1] \in nodes PROVE f[k] = n[f[k - 1]]
      OBVIOUS
    <3>1. k \in 1..Cardinality(Threads)
      BY <1>4
    <3>2. QED
      BY <1>3, <1>5, <3>1
  <2>2. \A k \in 0..m : /\ Reached(f, k) \subseteq nodes
                       /\ (Reached(f, k) = nodes \/ Cardinality(Reached(f, k)) = k + 1)
    <3>1. m \in Nat /\ f[0] = Head /\ IsFiniteSet(nodes)
      BY <1>4, <1>5
    <3>2. QED
      BY <1>2, <2>1, <3>1, RingWalk
  <2>3. m \in 0..m
    BY <1>4
  <2>4. Chain(i) \subseteq nodes /\ (Chain(i) = nodes \/ Cardinality(Chain(i)) = m + 1)
    <3>1. Chain(i) = Reached(f, m)
      BY <1>5 DEF Reached
    <3>2. QED
      BY <2>2, <2>3, <3>1
  <2>5. QED
    BY <1>4, <2>4, FS_Subset
<1>7. QED
  BY <1>2, <1>3, <1>6 DEF nodes, IsRing

\* The rings of the invariant are what ListWhole asks for.
LEMMA WholeNow ==
  ASSUME BInv PROVE ListWhole
<1>1. Rings
  BY DEF BInv
<1>2. \A i \in Ids : i < cap[Head] =>
        LET nodes == {Head} \cup {t \in Threads : Linked(t, i)} IN
          Chain(i) = nodes /\ \A e \in nodes : next[e][i] \in nodes /\ prev[next[e][i]][i] = e
  BY <1>1, RingIsWhole DEF Rings
<1>3. QED
  BY <1>2 DEF ListWhole

\* From the head, next_ leads through every linked node and back, and prev_ the other way,
\* whatever threads come, exit or are removed by destroy.
THEOREM ListStaysWhole ==
  ASSUME Few
  PROVE  Spec => []ListWhole
<1>1. BInv => ListWhole
  BY WholeNow
<1>2. QED
  BY <1>1, ArraysThatLast, PTL

\* An accessor that is through has come by every object that was stored when it took the
\* mutex, but for those reset since.
THEOREM VisitsAll ==
  ASSUME Few
  PROVE  Spec => []AccessorVisitsAll
<1>1. BInv => AccessorVisitsAll
  BY DEF BInv
<1>2. QED
  BY <1>1, ArraysThatLast, PTL
=============================================================================
