------------------------------- MODULE SyncObjects -------------------------------
(***************************************************************************)
(* The ticket lock, the barrier and the bounded queue of                   *)
(* thermite-kernel/src/sync.rs in one specification, and, at the end, the  *)
(* log of atomic operations of thermite-kernel/src/atomic.rs with a next-  *)
(* state relation of its own.                                              *)
(*                                                                         *)
(* The three objects have no field in common and no operation touches two  *)
(* of them, and every property below is about one of them.  So a behaviour *)
(* follows one object, focus, and leaves the others in their initial       *)
(* state: the states of the objects are added and not multiplied.          *)
(*                                                                         *)
(* The barrier: arrived and generation are its fields.  A CPU arrives with *)
(* the generation it last learned (round); whoever sees the barrier full   *)
(* advances it and tells the others, who may hear of it late.  arrivals    *)
(* counts each CPU's successful arrivals.                                  *)
(*                                                                         *)
(* The queue: CPUs push, one consumer pops; queue, pushes and pops are its *)
(* fields.  Each producer numbers its values 1, 2, ...; taken[p] are p's   *)
(* values in the order the consumer got them.                              *)
(***************************************************************************)
EXTENDS TicketLock, FiniteSets, KernelMaps

CONSTANTS Cpus, Participants, MaxGeneration,   \* of the barrier
          Producers, Capacity, MaxPushes       \* of the queue

ASSUME SyncAssumption ==
    /\ Participants \subseteq Cpus /\ IsFiniteSet(Participants)
    /\ MaxGeneration \in Nat /\ Capacity \in Nat /\ MaxPushes \in Nat

VARIABLES arrived, generation, round, arrivals,  \* of the barrier
          queue, pushes, pops, taken,            \* of the queue
          focus                                  \* the object that is used

lockVars    == vars
barrierVars == <<arrived, generation, round, arrivals>>
queueVars   == <<queue, pushes, pops, taken>>
syncVars    == <<lockVars, barrierVars, queueVars, focus>>

(***************************************************************************)
(* Barrier.                                                                *)
(***************************************************************************)

(* Barrier::new *)
BarrierInit ==
    /\ arrived = {} /\ generation = 0
    /\ round = [c \in Cpus |-> 0]
    /\ arrivals = [c \in Cpus |-> 0]

(* Mutant: an arrival of an earlier round counts for this one. *)
ArriveOkAnyGeneration(cpu, g) == cpu \in Participants /\ cpu \notin arrived /\ g <= generation

(* Barrier::arrive succeeds; its errors change nothing. *)
ArriveOk(cpu, g) == g = generation /\ cpu \in Participants /\ cpu \notin arrived

Arrive(cpu) ==
    /\ ArriveOk(cpu, round[cpu])
    /\ arrived' = arrived \cup {cpu}
    /\ arrivals' = [arrivals EXCEPT ![cpu] = @ + 1]
    /\ UNCHANGED <<generation, round>>

(* Mutant: all CPUs are awaited, participants or not. *)
AdvanceOkAllCpus == Cardinality(arrived) = Cardinality(Cpus) /\ generation < MaxGeneration

(* Barrier::advance succeeds: as many CPUs arrived as take part. *)
AdvanceOk ==
    Cardinality(arrived) = Cardinality(Participants) /\ generation < MaxGeneration

Advance ==
    /\ AdvanceOk
    /\ generation' = generation + 1
    /\ arrived' = {}
    /\ UNCHANGED <<round, arrivals>>

(* A CPU hears of the generation that advance returned. *)
Learn(cpu) ==
    /\ round[cpu] < generation
    /\ round' = [round EXCEPT ![cpu] = generation]
    /\ UNCHANGED <<arrived, generation, arrivals>>

BarrierNext == Advance \/ \E cpu \in Cpus : Arrive(cpu) \/ Learn(cpu)

(***************************************************************************)
(* BoundedMpsc.                                                            *)
(***************************************************************************)

(* BoundedMpsc::new *)
QueueInit ==
    /\ queue = <<>> /\ pops = 0
    /\ pushes = [p \in Producers |-> 0]
    /\ taken = [p \in Producers |-> <<>>]

Full == Len(queue) = Capacity

(* Mutant: the value goes to the front of the queue. *)
EnqueuedInFront(entry) == <<entry>> \o queue

Enqueued(entry) == Append(queue, entry)

(* BoundedMpsc::push; QueueFull changes nothing. *)
Push(p) ==
    /\ pushes[p] < MaxPushes /\ ~Full
    /\ queue' = Enqueued(<<p, pushes[p] + 1>>)
    /\ pushes' = [pushes EXCEPT ![p] = @ + 1]
    /\ UNCHANGED <<pops, taken>>

Dequeued == Tail(queue)

(* BoundedMpsc::pop; QueueEmpty changes nothing. *)
Pop ==
    /\ queue # <<>>
    /\ LET v == Head(queue) IN taken' = [taken EXCEPT ![v[1]] = Append(@, v[2])]
    /\ queue' = Dequeued
    /\ pops' = pops + 1
    /\ UNCHANGED pushes

QueueNext == Pop \/ \E p \in Producers : Push(p)

(***************************************************************************)
(* One object at a time.                                                   *)
(***************************************************************************)

SyncInit ==
    /\ Init /\ BarrierInit /\ QueueInit
    /\ focus \in {"lock", "barrier", "queue"}

SyncNext ==
    \/ focus = "lock"    /\ Next         /\ UNCHANGED <<barrierVars, queueVars, focus>>
    \/ focus = "barrier" /\ BarrierNext /\ UNCHANGED <<lockVars, queueVars, focus>>
    \/ focus = "queue"   /\ QueueNext   /\ UNCHANGED <<lockVars, barrierVars, focus>>

(* Clients of the lock poll and release; the CPUs keep coming to the barrier
   and hear of each advance. *)
SyncFairness ==
    /\ \A c \in Clients : /\ WF_lockVars(focus = "lock" /\ Acquire(c))
                          /\ WF_lockVars(focus = "lock" /\ Release(c))
    /\ \A c \in Cpus : /\ WF_barrierVars(focus = "barrier" /\ Arrive(c))
                       /\ WF_barrierVars(focus = "barrier" /\ Learn(c))
    /\ WF_barrierVars(focus = "barrier" /\ Advance)

SyncSpec == SyncInit /\ [][SyncNext]_syncVars /\ SyncFairness

(***************************************************************************)
(* Properties of the barrier and the queue; those of the lock are          *)
(* MutualExclusion, EveryTicketServed and ImplementsFifoLock.              *)
(***************************************************************************)

(* The CPUs move in lockstep: each participant has arrived exactly once in
   every generation passed, at most once in the current one, and never twice
   in what it believes to be one round, however late it hears of an advance. *)
Lockstep ==
    \A c \in Participants :
        /\ arrivals[c] = generation + (IF c \in arrived THEN 1 ELSE 0)
        /\ arrivals[c] <= round[c] + 1

(* Nobody waits for ever: the barrier runs through all its generations. *)
BarrierAdvances ==
    focus = "barrier" =>
      \A g \in 0..(MaxGeneration - 1) : generation = g ~> generation = g + 1

(* A producer's values reach the consumer in the order they were pushed, none
   lost, none twice: taken are 1, 2, ... up to some value, and the queue holds
   each later one up to its number of pushes, once and in this order. *)
PerProducerOrder ==
    \A p \in Producers :
        LET n == Len(taken[p])
            mine == {i \in DOMAIN queue : queue[i][1] = p}
        IN /\ taken[p] = [i \in 1..n |-> i]
           /\ {queue[i][2] : i \in mine} = n + 1 .. pushes[p] /\ n <= pushes[p]
           /\ \A i, j \in mine : i < j => queue[i][2] < queue[j][2]

(***************************************************************************)
(* thermite-kernel/src/atomic.rs: AtomicMemoryModel, the trace of atomic   *)
(* operations with their reads-from, modification and SC orders, and the   *)
(* ordering rules its callers rely on.                                     *)
(*                                                                         *)
(* Event ids start at 1; 0 stands for None and for "no write yet".  Values *)
(* are left out: what an operation reads is the write it reads from.       *)
(***************************************************************************)

CONSTANTS AtomicCpus, Cells, MaxEvents

(* 0 is the cell of a fence. *)
ASSUME AtomicAssumption == MaxEvents \in Nat /\ 0 \notin Cells

VARIABLES cells, log, nextEvent, nextSc

atomicVars == <<cells, log, nextEvent, nextSc>>

Orderings == {"Relaxed", "Acquire", "Release", "AcqRel", "SeqCst"}
Acquires  == {"Acquire", "AcqRel", "SeqCst"}
Releases  == {"Release", "AcqRel", "SeqCst"}

AtomicInit == cells = <<>> /\ log = <<>> /\ nextEvent = 1 /\ nextSc = 1

NoWrite == [modification |-> 0, lastWrite |-> 0, lastOrdering |-> "Relaxed"]

(* AtomicMemoryModel::register: a known cell is reset before DuplicateCell. *)
RegisterCell(cell) ==
    /\ cells' = Insert(cells, cell, NoWrite)
    /\ UNCHANGED <<log, nextEvent, nextSc>>

ScIndex(ordering) == IF ordering = "SeqCst" THEN nextSc ELSE 0

(* next_event_id and sc_index; the ids are spent even on an unknown cell. *)
TakeIds(ordering) ==
    /\ nextEvent' = nextEvent + 1
    /\ nextSc' = IF ordering = "SeqCst" THEN nextSc + 1 ELSE nextSc

Event(cpu, cell, kind, ordering, readsFrom, modification, after) ==
    [id |-> nextEvent, cpu |-> cpu, cell |-> cell, kind |-> kind, ordering |-> ordering,
     readsFrom |-> readsFrom, modification |-> modification,
     sc |-> ScIndex(ordering), after |-> after]

(* Mutant: the ordering of the last write is left as it was registered. *)
WrittenForgettingOrdering(cell, ordering) ==
    [cells EXCEPT ![cell].modification = @ + 1, ![cell].lastWrite = nextEvent]

(* write_event's change of the cell. *)
Written(cell, ordering) ==
    [cells EXCEPT ![cell] = [modification |-> @.modification + 1,
                             lastWrite |-> nextEvent, lastOrdering |-> ordering]]

(* AtomicMemoryModel::store *)
StoreCell(cpu, cell, ordering) ==
    /\ ordering \notin {"Acquire", "AcqRel"}
    /\ TakeIds(ordering)
    /\ IF cell \in DOMAIN cells
       THEN /\ cells' = Written(cell, ordering)
            /\ log' = Append(log, Event(cpu, cell, "Store", ordering, 0,
                                        cells[cell].modification + 1, 0))
       ELSE UNCHANGED <<cells, log>>

(* AtomicMemoryModel::load *)
LoadCell(cpu, cell, ordering) ==
    /\ ordering \notin {"Release", "AcqRel"} /\ cell \in DOMAIN cells
    /\ TakeIds(ordering)
    /\ LET c == cells[cell]
           after == IF ordering \in Acquires /\ c.lastOrdering \in Releases
                    THEN c.lastWrite ELSE 0
       IN log' = Append(log, Event(cpu, cell, "Load", ordering, c.lastWrite, 0, after))
    /\ UNCHANGED cells

(* What fetch_add takes for the write it reads from: the last event of the whole
   trace, if that is a modification of this cell. *)
PriorEvent(cell) ==
    IF log = <<>> THEN 0
    ELSE LET e == log[Len(log)] IN IF e.cell = cell /\ e.modification # 0 THEN e.id ELSE 0

OrderingOf(id) == (CHOOSE e \in {log[i] : i \in DOMAIN log} : e.id = id).ordering

(* AtomicMemoryModel::fetch_add *)
FetchAddCell(cpu, cell, ordering) ==
    /\ cell \in DOMAIN cells
    /\ TakeIds(ordering)
    /\ cells' = Written(cell, ordering)
    /\ LET prior == PriorEvent(cell)
           after == IF /\ ordering \in Acquires /\ prior # 0
                       /\ OrderingOf(prior) \in Releases
                    THEN prior ELSE 0
       IN log' = Append(log, Event(cpu, cell, "ReadModifyWrite", ordering, prior,
                                   cells[cell].modification + 1, after))

(* AtomicMemoryModel::fence *)
Fence(cpu, ordering) ==
    /\ ordering # "Relaxed"
    /\ TakeIds(ordering)
    /\ log' = Append(log, Event(cpu, 0, "Fence", ordering, 0, 0, 0))
    /\ UNCHANGED cells

AtomicNext ==
    \/ \E cell \in Cells : cell \notin DOMAIN cells /\ RegisterCell(cell)
    \/ /\ nextEvent <= MaxEvents
       /\ \E cpu \in AtomicCpus, ordering \in Orderings :
             \/ Fence(cpu, ordering)
             \/ \E cell \in Cells : \/ StoreCell(cpu, cell, ordering)
                                    \/ LoadCell(cpu, cell, ordering)
                                    \/ FetchAddCell(cpu, cell, ordering)

Positions == DOMAIN log
IsWriteOf(i, cell) == log[i].cell = cell /\ log[i].modification # 0
EarlierWrites(i)   == {j \in 1..i - 1 : IsWriteOf(j, log[i].cell)}
LastWriteBefore(i) == IF EarlierWrites(i) = {} THEN 0
                      ELSE log[CHOOSE j \in EarlierWrites(i) :
                                  \A k \in EarlierWrites(i) : k <= j].id
Synchronizes(w, r) == /\ w.ordering \in Releases /\ r.ordering \in Acquires
                      /\ r.readsFrom = w.id

IsRead(i) == log[i].kind \in {"Load", "ReadModifyWrite"}

(* A read-modify-write before which another event was logged than a write of its cell. *)
Overtaken(i) ==
    log[i].kind = "ReadModifyWrite" /\ (i = 1 \/ ~IsWriteOf(i - 1, log[i].cell))

(* Of whatever other processors logged since: a load names the write that it read, and a
   read-modify-write does so exactly if that write is the event before it in the trace and
   otherwise names none; an acquire that names a release records it as its predecessor, and
   no other does.  And the writes of a cell are numbered in trace order, the SeqCst
   operations by one increasing index, across the cells and CPUs that interleave. *)
ReadsTraced ==
    /\ \A i \in Positions : IsRead(i) =>
          /\ log[i].readsFrom = IF Overtaken(i) THEN 0 ELSE LastWriteBefore(i)
          /\ \A j \in Positions : Synchronizes(log[j], log[i]) <=>
                log[i].after = log[j].id
    /\ \A i, j \in Positions : i < j =>
          /\ \A c \in Cells : IsWriteOf(i, c) /\ IsWriteOf(j, c) =>
                log[i].modification < log[j].modification
          /\ log[i].sc # 0 /\ log[j].sc # 0 => log[i].sc < log[j].sc

(* "Each read records its reads-from edge" and "The RMW reads from the immediately
   preceding modification" (atomic.rs): overtaken or not. *)
EveryReadTraced == \A i \in Positions : IsRead(i) => log[i].readsFrom = LastWriteBefore(i)
====
