--------------------------- MODULE KernelObjectsProofs ---------------------------
(***************************************************************************)
(* What holds of the objects of thermite-kernel for every number of CPUs,  *)
(* producers, slots, contexts and generations.  A behaviour of ObjectsSpec *)
(* follows one object, so a step of it is, for each object, a step of that *)
(* object or none; each object then has its own inductive invariant.       *)
(***************************************************************************)
EXTENDS MCKernelObjects, FiniteSetTheorems, SequenceTheorems, TLAPS

(***************************************************************************)
(* A step of the composition, seen by one object.                          *)
(***************************************************************************)

(* The barrier's fields are changed by Barrier's methods only. *)
LEMMA BarrierStep == [Next0]_objectVars => [BarrierNext]_barrierVars
BY DEF Next0, objectVars, syncVars, SyncNext

(* The queue's fields are changed by BoundedMpsc's methods only. *)
LEMMA QueueStep == [Next0]_objectVars => [QueueNext]_queueVars
BY DEF Next0, objectVars, syncVars, SyncNext

(* The interrupt state is changed by IrqController's methods only. *)
LEMMA IrqStep == [Next0]_objectVars => [IrqNext]_irqVars
BY DEF Next0, objectVars

(* The DMA state is changed by DmaState's methods only. *)
LEMMA DmaStep == [Next0]_objectVars => [DmaNext]_dmaVars
BY DEF Next0, objectVars

(* Contexts are changed by UserContext's methods only. *)
LEMMA CtxStep == [Next0]_objectVars => [CtxNext]_ctxVars
BY DEF Next0, objectVars

(***************************************************************************)
(* The barrier.                                                            *)
(***************************************************************************)

BarrierTypeOK ==
    /\ arrived \subseteq Participants /\ generation \in Nat
    /\ round \in [Cpus -> Nat] /\ arrivals \in [Cpus -> Nat]

(* Lockstep bounds a CPU's arrivals by the round it believes in; the induction
   needs that nobody is ahead of the barrier. *)
BarrierInv ==
    /\ BarrierTypeOK
    /\ Lockstep
    /\ \A c \in Cpus : round[c] <= generation

LEMMA BarrierInitial == BarrierInit => BarrierInv
BY SyncAssumption DEF BarrierInit, BarrierInv, BarrierTypeOK, Lockstep

(* As many arrivals as participants are the participants themselves. *)
LEMMA AllArrived ==
    ASSUME BarrierTypeOK, AdvanceOk
    PROVE  arrived = Participants
BY SyncAssumption, FS_Subset DEF BarrierTypeOK, AdvanceOk

LEMMA BarrierInductive == BarrierInv /\ [BarrierNext]_barrierVars => BarrierInv'
<1> SUFFICES ASSUME BarrierInv, [BarrierNext]_barrierVars PROVE BarrierInv'
  OBVIOUS
<1> USE SyncAssumption DEF BarrierInv, BarrierTypeOK, Lockstep
<1>1. CASE Advance
  BY <1>1, AllArrived DEF Advance, AdvanceOk
<1>2. ASSUME NEW cpu \in Cpus, Arrive(cpu) PROVE BarrierInv'
  BY <1>2 DEF Arrive, ArriveOk
<1>3. ASSUME NEW cpu \in Cpus, Learn(cpu) PROVE BarrierInv'
  BY <1>3 DEF Learn
<1>4. CASE UNCHANGED barrierVars
  BY <1>4 DEF barrierVars
<1> QED
  BY <1>1, <1>2, <1>3, <1>4 DEF BarrierNext

(* Barrier: the participants move in lockstep, for any number of them and any
   number of generations: each has arrived once in every generation passed and
   never twice in one round, however late it hears of an advance. *)
THEOREM BarrierLockstep == ObjectsSpec => []Lockstep
<1>1. Init0 => BarrierInv
  BY BarrierInitial DEF Init0
<1>2. BarrierInv /\ [Next0]_objectVars => BarrierInv'
  BY BarrierStep, BarrierInductive
<1>3. BarrierInv => Lockstep
  BY DEF BarrierInv
<1> QED
  BY <1>1, <1>2, <1>3, PTL DEF ObjectsSpec

(***************************************************************************)
(* The queue.                                                              *)
(***************************************************************************)

QueueTypeOK ==
    /\ queue \in Seq(Producers \X Nat)
    /\ pushes \in [Producers -> Nat] /\ taken \in [Producers -> Seq(Nat)]

(* PerProducerOrder, one element at a time: p's values up to Len(taken[p]) were
   taken, in order; each later one up to pushes[p] is in the queue; nothing else
   is, and nothing out of order. *)
TakenInOrder ==
    \A p \in Producers : \A i \in 1..Len(taken[p]) : taken[p][i] = i
QueuedIsDue ==
    \A i \in 1..Len(queue) :
        Len(taken[queue[i][1]]) < queue[i][2] /\ queue[i][2] <= pushes[queue[i][1]]
DueIsQueued ==
    \A p \in Producers :
        /\ Len(taken[p]) <= pushes[p]
        /\ \A v \in Len(taken[p]) + 1 .. pushes[p] : \E i \in 1..Len(queue) : queue[i] = <<p, v>>
QueuedInOrder ==
    \A i, j \in 1..Len(queue) : i < j /\ queue[i][1] = queue[j][1] => queue[i][2] < queue[j][2]

QueueInv == QueueTypeOK /\ TakenInOrder /\ QueuedIsDue /\ DueIsQueued /\ QueuedInOrder

LEMMA QueueInitial == QueueInit => QueueInv
BY DEF QueueInit, QueueInv, QueueTypeOK, TakenInOrder, QueuedIsDue, DueIsQueued, QueuedInOrder

(* The fields of an entry. *)
LEMMA QueueEntries ==
    ASSUME QueueTypeOK
    PROVE  /\ Len(queue) \in Nat /\ DOMAIN queue = 1..Len(queue)
           /\ \A i \in 1..Len(queue) :
                /\ queue[i][1] \in Producers /\ queue[i][2] \in Nat
                /\ queue[i] = <<queue[i][1], queue[i][2]>>
           /\ \A p \in Producers : /\ taken[p] \in Seq(Nat) /\ Len(taken[p]) \in Nat
                                   /\ pushes[p] \in Nat
<1>1. \A i \in 1..Len(queue) : queue[i] \in Producers \X Nat
  BY DEF QueueTypeOK
<1>2. ASSUME NEW e \in Producers \X Nat
      PROVE  e[1] \in Producers /\ e[2] \in Nat /\ e = <<e[1], e[2]>>
  OBVIOUS
<1>3. /\ Len(queue) \in Nat /\ DOMAIN queue = 1..Len(queue)
      /\ \A p \in Producers : taken[p] \in Seq(Nat) /\ Len(taken[p]) \in Nat /\ pushes[p] \in Nat
  BY DEF QueueTypeOK
<1> QED
  BY <1>1, <1>2, <1>3

(* What is at the head of the queue is the next value of its producer. *)
LEMMA HeadIsNext ==
    ASSUME QueueInv, queue # <<>>
    PROVE  1 \in 1..Len(queue) /\ queue[1][2] = Len(taken[queue[1][1]]) + 1
<1> USE DEF QueueInv
<1>1. 1 \in 1..Len(queue)
  BY DEF QueueTypeOK
<1> DEFINE p == queue[1][1]
<1> DEFINE n == Len(taken[p])
<1>2. p \in Producers /\ n \in Nat /\ pushes[p] \in Nat /\ queue[1][2] \in Nat
  BY <1>1, QueueEntries
<1>3. n < queue[1][2] /\ queue[1][2] <= pushes[p]
  BY <1>1 DEF QueuedIsDue
<1>4. PICK i \in 1..Len(queue) : queue[i] = <<p, n + 1>>
  <2> HIDE DEF p, n
  <2>1. n + 1 \in n + 1 .. pushes[p]
    BY <1>2, <1>3
  <2> QED
    BY <1>2, <2>1 DEF DueIsQueued, n
<1>5. CASE i = 1
  BY <1>1, <1>4, <1>5
<1>6. CASE i # 1
  <2>0. queue[i][1] = p /\ queue[i][2] = n + 1 /\ 1 < i
    BY <1>4, <1>6
  <2>1. queue[1][2] < queue[i][2]
    BY <1>1, <2>0 DEF QueuedInOrder
  <2> QED
    BY <1>2, <1>3, <2>0, <2>1
<1> QED
  BY <1>1, <1>5, <1>6

LEMMA PushKeeps ==
    ASSUME QueueInv, NEW p \in Producers, Push(p)
    PROVE  QueueInv'
<1> USE DEF QueueInv
<1>1. pushes[p] \in Nat /\ Len(queue) \in Nat
  BY QueueEntries
<1>2. <<p, pushes[p] + 1>> \in Producers \X Nat
  BY <1>1
<1>3. /\ Len(queue') = Len(queue) + 1
      /\ queue'[Len(queue) + 1] = <<p, pushes[p] + 1>>
      /\ \A i \in 1..Len(queue) : queue'[i] = queue[i]
  BY <1>2 DEF Push, Enqueued, QueueTypeOK
<1>4. /\ pushes'[p] = pushes[p] + 1
      /\ \A q \in Producers \ {p} : pushes'[q] = pushes[q]
      /\ taken' = taken
  BY DEF Push, QueueTypeOK
<1>5. QueuedIsDue'
  <2> SUFFICES ASSUME NEW i \in 1..Len(queue')
               PROVE  /\ Len(taken[queue'[i][1]]) < queue'[i][2]
                      /\ queue'[i][2] <= pushes'[queue'[i][1]]
    BY <1>4 DEF QueuedIsDue
  <2>1. CASE i \in 1..Len(queue)
    <3>1. /\ queue'[i] = queue[i] /\ queue[i][1] \in Producers /\ queue[i][2] \in Nat
          /\ pushes[queue[i][1]] \in Nat
      BY <1>3, <2>1, QueueEntries
    <3>2. pushes[queue[i][1]] <= pushes'[queue[i][1]] /\ pushes'[queue[i][1]] \in Nat
      BY <1>1, <1>4, <3>1
    <3>3. Len(taken[queue[i][1]]) < queue[i][2] /\ queue[i][2] <= pushes[queue[i][1]]
      BY <2>1 DEF QueuedIsDue
    <3> QED
      BY <3>1, <3>2, <3>3
  <2>2. CASE i = Len(queue) + 1
    <3>1. queue'[i][1] = p /\ queue'[i][2] = pushes[p] + 1
      BY <1>3, <2>2
    <3>2. Len(taken[p]) \in Nat /\ Len(taken[p]) <= pushes[p]
      BY QueueEntries DEF DueIsQueued
    <3> QED
      BY <1>1, <1>4, <3>1, <3>2
  <2> QED
    BY <1>1, <1>3, <2>1, <2>2
<1>6. DueIsQueued'
  <2> SUFFICES ASSUME NEW q \in Producers
               PROVE  /\ Len(taken[q]) <= pushes'[q]
                      /\ \A w \in Len(taken[q]) + 1 .. pushes'[q] :
                            \E i \in 1..Len(queue') : queue'[i] = <<q, w>>
    BY <1>4 DEF DueIsQueued
  <2>1. Len(taken[q]) <= pushes'[q]
    <3>1. Len(taken[q]) \in Nat /\ pushes[q] \in Nat /\ Len(taken[q]) <= pushes[q]
      BY QueueEntries DEF DueIsQueued
    <3> QED
      BY <1>1, <1>4, <3>1
  <2>2. ASSUME NEW w \in Len(taken[q]) + 1 .. pushes'[q]
        PROVE  \E i \in 1..Len(queue') : queue'[i] = <<q, w>>
    <3>1. CASE q = p /\ w = pushes[p] + 1
      BY <1>1, <1>3, <3>1
    <3>2. CASE ~(q = p /\ w = pushes[p] + 1)
      <4>1. w \in Len(taken[q]) + 1 .. pushes[q]
        BY <1>1, <1>4, <3>2, QueueEntries
      <4>2. PICK i \in 1..Len(queue) : queue[i] = <<q, w>>
        BY <4>1 DEF DueIsQueued
      <4>3. i \in 1..Len(queue') /\ queue'[i] = queue[i]
        BY <1>1, <1>3
      <4> QED
        BY <4>2, <4>3
    <3> QED
      BY <3>1, <3>2
  <2> QED
    BY <2>1, <2>2
<1>7. QueuedInOrder'
  <2> SUFFICES ASSUME NEW i \in 1..Len(queue'), NEW j \in 1..Len(queue'), i < j,
                      queue'[i][1] = queue'[j][1]
               PROVE  queue'[i][2] < queue'[j][2]
    BY DEF QueuedInOrder
  <2>1. i \in 1..Len(queue) /\ queue'[i] = queue[i]
    BY <1>1, <1>3
  <2>2. CASE j \in 1..Len(queue)
    BY <1>3, <2>1, <2>2 DEF QueuedInOrder
  <2>3. CASE j = Len(queue) + 1
    <3>1. queue'[j][1] = p /\ queue'[j][2] = pushes[p] + 1
      BY <1>3, <2>3
    <3>2. queue[i][2] \in Nat /\ queue[i][2] <= pushes[p]
      BY <2>1, <3>1, QueueEntries DEF QueuedIsDue
    <3> QED
      BY <1>1, <2>1, <3>1, <3>2
  <2> QED
    BY <1>1, <1>3, <2>2, <2>3
<1>8. TakenInOrder'
  BY <1>4 DEF TakenInOrder
<1>9. QueueTypeOK'
  BY <1>1, <1>2 DEF QueueTypeOK, Push, Enqueued
<1> QED
  BY <1>5, <1>6, <1>7, <1>8, <1>9

LEMMA PopKeeps ==
    ASSUME QueueInv, Pop
    PROVE  QueueInv'
<1> USE DEF QueueInv
<1> DEFINE p == queue[1][1]
<1> DEFINE v == queue[1][2]
<1>1. queue # <<>> /\ Head(queue) = queue[1]
  BY DEF Pop
<1>2. /\ 1 \in 1..Len(queue) /\ p \in Producers /\ v \in Nat /\ Len(queue) \in Nat
      /\ v = Len(taken[p]) + 1
  BY <1>1, HeadIsNext, QueueEntries
<1>3. /\ Len(queue') = Len(queue) - 1
      /\ \A i \in 1..Len(queue') : queue'[i] = queue[i + 1]
  BY <1>1 DEF Pop, Dequeued, QueueTypeOK
<1>4. /\ taken' = [taken EXCEPT ![p] = Append(@, v)] /\ pushes' = pushes
  BY <1>1 DEF Pop
<1>5. /\ \A q \in Producers \ {p} : taken'[q] = taken[q]
      /\ Len(taken'[p]) = Len(taken[p]) + 1
      /\ taken'[p][Len(taken[p]) + 1] = v
      /\ \A i \in 1..Len(taken[p]) : taken'[p][i] = taken[p][i]
  <2> HIDE DEF p, v
  <2> QED
    BY <1>2, <1>4 DEF QueueTypeOK
<1>6. \A i \in 1..Len(queue') : i + 1 \in 1..Len(queue) /\ 1 < i + 1
  BY <1>2, <1>3
<1>7. TakenInOrder'
  <2> SUFFICES ASSUME NEW q \in Producers, NEW i \in 1..Len(taken'[q])
               PROVE  taken'[q][i] = i
    BY DEF TakenInOrder
  <2>1. CASE q # p
    BY <1>5, <2>1 DEF TakenInOrder
  <2>2. CASE q = p
    <3>1. i \in 1..Len(taken[p]) \/ i = Len(taken[p]) + 1
      BY <1>2, <1>5, <2>2, QueueEntries
    <3> QED
      BY <1>2, <1>5, <2>2, <3>1 DEF TakenInOrder
  <2> QED
    BY <2>1, <2>2
<1>8. QueuedIsDue'
  <2> SUFFICES ASSUME NEW i \in 1..Len(queue')
               PROVE  /\ Len(taken'[queue[i + 1][1]]) < queue[i + 1][2]
                      /\ queue[i + 1][2] <= pushes[queue[i + 1][1]]
    BY <1>3, <1>4 DEF QueuedIsDue
  <2>1. /\ i + 1 \in 1..Len(queue) /\ 1 < i + 1
        /\ queue[i + 1][1] \in Producers /\ queue[i + 1][2] \in Nat
    BY <1>6, QueueEntries
  <2>2. /\ Len(taken[queue[i + 1][1]]) < queue[i + 1][2]
        /\ queue[i + 1][2] <= pushes[queue[i + 1][1]]
    BY <2>1 DEF QueuedIsDue
  <2>3. CASE queue[i + 1][1] = p
    <3>1. v < queue[i + 1][2]
      BY <1>2, <2>1, <2>3 DEF QueuedInOrder
    <3> QED
      BY <1>2, <1>5, <2>1, <2>2, <2>3, <3>1
  <2>4. CASE queue[i + 1][1] # p
    BY <1>5, <2>1, <2>2, <2>4
  <2> QED
    BY <2>3, <2>4
<1>9. DueIsQueued'
  <2> SUFFICES ASSUME NEW q \in Producers
               PROVE  /\ Len(taken'[q]) <= pushes[q]
                      /\ \A w \in Len(taken'[q]) + 1 .. pushes[q] :
                            \E i \in 1..Len(queue') : queue'[i] = <<q, w>>
    BY <1>4 DEF DueIsQueued
  <2>1. Len(taken'[q]) <= pushes[q]
    <3>1. v <= pushes[p]
      BY <1>2 DEF QueuedIsDue
    <3> QED
      BY <1>2, <1>5, <3>1, QueueEntries DEF DueIsQueued
  <2>2. ASSUME NEW w \in Len(taken'[q]) + 1 .. pushes[q]
        PROVE  \E i \in 1..Len(queue') : queue'[i] = <<q, w>>
    <3>1. w \in Len(taken[q]) + 1 .. pushes[q] /\ ~(q = p /\ w = v)
      <4>1. Len(taken[q]) \in Nat /\ pushes[q] \in Nat
        BY QueueEntries
      <4>2. CASE q = p
        BY <1>2, <1>5, <4>1, <4>2
      <4>3. CASE q # p
        BY <1>5, <4>1, <4>3
      <4> QED
        BY <4>2, <4>3
    <3>2. PICK j \in 1..Len(queue) : queue[j] = <<q, w>>
      BY <3>1 DEF DueIsQueued
    <3>3. j # 1
      BY <3>1, <3>2
    <3>4. j - 1 \in 1..Len(queue') /\ queue'[j - 1] = queue[j]
      BY <1>2, <1>3, <3>3
    <3> QED
      BY <3>2, <3>4
  <2> QED
    BY <2>1, <2>2
<1>10. QueuedInOrder'
  <2> SUFFICES ASSUME NEW i \in 1..Len(queue'), NEW j \in 1..Len(queue'), i < j,
                      queue'[i][1] = queue'[j][1]
               PROVE  queue'[i][2] < queue'[j][2]
    BY DEF QueuedInOrder
  <2>1. /\ queue'[i] = queue[i + 1] /\ queue'[j] = queue[j + 1]
        /\ i + 1 \in 1..Len(queue) /\ j + 1 \in 1..Len(queue) /\ i + 1 < j + 1
    BY <1>2, <1>3, <1>6
  <2> QED
    BY <2>1 DEF QueuedInOrder
<1>11. QueueTypeOK'
  <2>1. queue' \in Seq(Producers \X Nat)
    BY <1>1 DEF Pop, Dequeued, QueueTypeOK
  <2>2. taken' \in [Producers -> Seq(Nat)]
    <3> HIDE DEF p, v
    <3> QED
      BY <1>2, <1>4 DEF QueueTypeOK
  <2> QED
    BY <1>4, <2>1, <2>2 DEF QueueTypeOK
<1> QED
  BY <1>7, <1>8, <1>9, <1>10, <1>11

LEMMA QueueInductive == QueueInv /\ [QueueNext]_queueVars => QueueInv'
<1> SUFFICES ASSUME QueueInv, [QueueNext]_queueVars PROVE QueueInv'
  OBVIOUS
<1>1. CASE UNCHANGED queueVars
  BY <1>1 DEF queueVars, QueueInv, QueueTypeOK, TakenInOrder, QueuedIsDue, DueIsQueued, QueuedInOrder
<1> QED
  BY <1>1, PushKeeps, PopKeeps DEF QueueNext

LEMMA QueueImplies == QueueInv => PerProducerOrder
<1> SUFFICES ASSUME QueueInv, NEW p \in Producers
             PROVE  LET n == Len(taken[p])
                        mine == {i \in DOMAIN queue : queue[i][1] = p}
                    IN /\ taken[p] = [i \in 1..n |-> i]
                       /\ {queue[i][2] : i \in mine} = n + 1 .. pushes[p] /\ n <= pushes[p]
                       /\ \A i, j \in mine : i < j => queue[i][2] < queue[j][2]
  BY DEF PerProducerOrder
<1> USE DEF QueueInv
<1> DEFINE n == Len(taken[p])
<1> DEFINE mine == {i \in DOMAIN queue : queue[i][1] = p}
<1>1. n \in Nat /\ DOMAIN queue = 1..Len(queue) /\ pushes[p] \in Nat
  BY QueueEntries
<1>2. taken[p] = [i \in 1..n |-> i]
  BY DEF TakenInOrder, QueueTypeOK
<1>3. ASSUME NEW v \in {queue[i][2] : i \in mine} PROVE v \in n + 1 .. pushes[p]
  <2>1. PICK i \in mine : v = queue[i][2]
    OBVIOUS
  <2>2. queue[i][1] = p /\ queue[i][2] \in Nat
    BY <1>1, QueueEntries
  <2> QED
    BY <1>1, <2>1, <2>2 DEF QueuedIsDue
<1>4. ASSUME NEW v \in n + 1 .. pushes[p] PROVE v \in {queue[i][2] : i \in mine}
  <2>1. PICK i \in 1..Len(queue) : queue[i] = <<p, v>>
    BY DEF DueIsQueued
  <2>2. i \in mine /\ queue[i][2] = v
    BY <1>1, <2>1
  <2> QED
    BY <2>2
<1>5. \A i, j \in mine : i < j => queue[i][2] < queue[j][2]
  BY <1>1 DEF QueuedInOrder
<1>6. n <= pushes[p]
  BY DEF DueIsQueued
<1> QED
  BY <1>2, <1>3, <1>4, <1>5, <1>6

(* BoundedMpsc: a producer's values reach the consumer in the order they were
   pushed, none lost and none twice, for any capacity and any producers. *)
THEOREM QueueKeepsOrder == ObjectsSpec => []PerProducerOrder
<1>1. Init0 => QueueInv
  BY QueueInitial DEF Init0
<1>2. QueueInv /\ [Next0]_objectVars => QueueInv'
  BY QueueStep, QueueInductive
<1> QED
  BY <1>1, <1>2, QueueImplies, PTL DEF ObjectsSpec

(***************************************************************************)
(* Interrupt tokens.                                                       *)
(***************************************************************************)

IrqTypeOK ==
    /\ DOMAIN locals \subseteq IrqCpus
    /\ \A c \in DOMAIN locals :
          locals[c] \in [enabled : BOOLEAN, generation : Nat, outstanding : BOOLEAN]
    /\ tokens \subseteq IrqTokens /\ spentTokens \subseteq tokens
    /\ owed \in [IrqCpus -> tokens \cup {NoToken}]

(* A token names a CPU that was added and a generation it has reached, and there
   is one token for each generation. *)
TokensIssued ==
    /\ \A t \in tokens : /\ t.cpu \in DOMAIN locals /\ t.wasEnabled
                         /\ t.generation <= locals[t.cpu].generation
    /\ \A t, u \in tokens : t.cpu = u.cpu /\ t.generation = u.generation => t = u

(* A CPU has interrupts disabled exactly while a token is outstanding, and that
   token, which is owed, has the CPU's generation. *)
OwedIsOutstanding ==
    \A c \in IrqCpus :
        IF c \in DOMAIN locals /\ locals[c].outstanding
        THEN /\ owed[c] # NoToken /\ ~locals[c].enabled
             /\ owed[c].cpu = c /\ owed[c].generation = locals[c].generation
        ELSE owed[c] = NoToken /\ (c \in DOMAIN locals => locals[c].enabled)

TokensSpent == \A t \in spentTokens : ~Matches(t.cpu, t)

IrqInv == IrqTypeOK /\ TokensIssued /\ OwedIsOutstanding /\ TokensSpent

LEMMA IrqInitial == IrqInit => IrqInv
BY DEF IrqInit, IrqInv, IrqTypeOK, TokensIssued, OwedIsOutstanding, TokensSpent

LEMMA AddCpuKeeps ==
    ASSUME IrqInv, NEW cpu \in IrqCpus, cpu \notin DOMAIN locals, AddCpu(cpu)
    PROVE  IrqInv'
<1> USE DEF IrqInv, AddCpu
<1>1. /\ DOMAIN locals' = DOMAIN locals \cup {cpu} /\ locals'[cpu] = Fresh
      /\ \A c \in DOMAIN locals : locals'[c] = locals[c]
  BY DEF Insert
<1>2. Fresh \in [enabled : BOOLEAN, generation : Nat, outstanding : BOOLEAN]
      /\ Fresh.enabled /\ ~Fresh.outstanding
  BY DEF Fresh
<1>3. IrqTypeOK'
  BY <1>1, <1>2 DEF IrqTypeOK
<1>4. TokensIssued'
  BY <1>1 DEF TokensIssued
<1>5. OwedIsOutstanding'
  BY <1>1, <1>2 DEF OwedIsOutstanding
<1>6. TokensSpent'
  BY <1>1 DEF TokensSpent, TokensIssued, Matches, IrqTypeOK
<1> QED
  BY <1>3, <1>4, <1>5, <1>6

LEMMA SaveDisableKeeps ==
    ASSUME IrqInv, NEW cpu \in IrqCpus, NEW cap, SaveDisable(cpu, cap)
    PROVE  IrqInv'
<1> USE DEF IrqInv
<1> DEFINE g == locals[cpu].generation
<1> DEFINE token == [cpu |-> cpu, generation |-> g + 1, wasEnabled |-> locals[cpu].enabled]
<1> DEFINE now2 == [enabled |-> FALSE, outstanding |-> TRUE, generation |-> g + 1]
<1>1. /\ cpu \in DOMAIN locals /\ ~locals[cpu].outstanding /\ g \in Nat
      /\ locals' = [locals EXCEPT ![cpu] = now2]
      /\ tokens' = tokens \cup {token} /\ owed' = [owed EXCEPT ![cpu] = token]
      /\ spentTokens' = spentTokens
  BY DEF SaveDisable, IrqTypeOK
<1>2. locals[cpu].enabled = TRUE
  BY <1>1 DEF OwedIsOutstanding, IrqTypeOK
<1>3. /\ token \in IrqTokens /\ token.cpu = cpu /\ token.generation = g + 1 /\ token.wasEnabled
      /\ token # NoToken
  <2>1. g + 1 \in Nat
    BY <1>1
  <2>2. token \in IrqTokens
    BY <1>2, <2>1 DEF IrqTokens
  <2>3. token.cpu = cpu /\ token.generation = g + 1 /\ token.wasEnabled = TRUE
    BY <1>2
  <2>4. token.wasEnabled
    BY <2>3
  <2> QED
    BY <2>2, <2>3, <2>4, IrqAssumption
<1>4. /\ now2 \in [enabled : BOOLEAN, generation : Nat, outstanding : BOOLEAN]
      /\ now2.generation = g + 1 /\ now2.outstanding /\ ~now2.enabled
  BY <1>1
<1> HIDE DEF token, now2, g
<1>5. /\ DOMAIN locals' = DOMAIN locals /\ locals'[cpu] = now2
      /\ \A c \in DOMAIN locals \ {cpu} : locals'[c] = locals[c]
  BY <1>1
<1>6. IrqTypeOK'
  BY <1>1, <1>3, <1>4, <1>5 DEF IrqTypeOK
<1>7. \A t \in tokens : t.cpu = cpu => t.generation \in Nat /\ t.generation <= g
  BY DEF TokensIssued, IrqTypeOK, IrqTokens, g
<1>8. TokensIssued'
  <2>1. ASSUME NEW t \in tokens'
        PROVE  t.cpu \in DOMAIN locals' /\ t.wasEnabled /\ t.generation <= locals'[t.cpu].generation
    BY <1>1, <1>3, <1>4, <1>5, <1>7 DEF TokensIssued
  <2>2. ASSUME NEW t \in tokens', NEW u \in tokens', t.cpu = u.cpu, t.generation = u.generation
        PROVE  t = u
    BY <1>1, <1>3, <1>7, <2>2 DEF TokensIssued
  <2> QED
    BY <2>1, <2>2 DEF TokensIssued
<1>9. OwedIsOutstanding'
  BY <1>1, <1>3, <1>4, <1>5 DEF OwedIsOutstanding, IrqTypeOK
<1>10. TokensSpent'
  <2> SUFFICES ASSUME NEW t \in spentTokens PROVE ~Matches(t.cpu, t)'
    BY <1>1 DEF TokensSpent
  <2>1. t \in tokens /\ ~Matches(t.cpu, t)
    BY DEF IrqTypeOK, TokensSpent
  <2>2. CASE t.cpu = cpu
    BY <1>1, <1>4, <1>5, <1>7, <2>1, <2>2 DEF Matches
  <2>3. CASE t.cpu # cpu
    BY <1>5, <2>1, <2>3 DEF Matches
  <2> QED
    BY <2>2, <2>3
<1> QED
  BY <1>6, <1>8, <1>9, <1>10

LEMMA RestoreKeeps ==
    ASSUME IrqInv, NEW cpu \in IrqCpus, NEW cap, NEW token \in tokens, Restore(cpu, cap, token)
    PROVE  IrqInv'
<1> USE DEF IrqInv
<1>1. /\ token.cpu = cpu /\ cpu \in DOMAIN locals /\ token.generation = locals[cpu].generation
      /\ locals[cpu].outstanding
      /\ tokens' = tokens /\ spentTokens' = spentTokens \cup {token}
  BY DEF Restore, Matches
<1>2. /\ locals[cpu] \in [enabled : BOOLEAN, generation : Nat, outstanding : BOOLEAN]
      /\ token \in IrqTokens
  BY <1>1 DEF IrqTypeOK
<1>3. owed[cpu] = token
  <2>1. owed[cpu] \in tokens /\ owed[cpu].cpu = cpu /\ owed[cpu].generation = locals[cpu].generation
    BY <1>1 DEF OwedIsOutstanding, IrqTypeOK
  <2> QED
    BY <1>1, <2>1 DEF TokensIssued
<1>4. owed' = [owed EXCEPT ![cpu] = NoToken]
  BY <1>3 DEF Restore
<1>5. token.wasEnabled = TRUE
  BY <1>2 DEF TokensIssued, IrqTokens
<1> DEFINE now2 == [locals[cpu] EXCEPT !.enabled = TRUE, !.outstanding = FALSE]
<1>6. locals' = [locals EXCEPT ![cpu] = now2]
  BY <1>1, <1>5 DEF Restore
<1>7. /\ now2 \in [enabled : BOOLEAN, generation : Nat, outstanding : BOOLEAN]
      /\ now2.generation = locals[cpu].generation /\ ~now2.outstanding /\ now2.enabled
  BY <1>2
<1> HIDE DEF now2
<1>8. /\ DOMAIN locals' = DOMAIN locals /\ locals'[cpu] = now2
      /\ \A c \in DOMAIN locals \ {cpu} : locals'[c] = locals[c]
  BY <1>1, <1>6
<1>9. IrqTypeOK'
  BY <1>1, <1>4, <1>7, <1>8 DEF IrqTypeOK
<1>10. TokensIssued'
  BY <1>1, <1>7, <1>8 DEF TokensIssued
<1>11. OwedIsOutstanding'
  BY <1>1, <1>4, <1>7, <1>8 DEF OwedIsOutstanding, IrqTypeOK
<1>12. TokensSpent'
  <2> SUFFICES ASSUME NEW t \in spentTokens' PROVE ~Matches(t.cpu, t)'
    BY DEF TokensSpent
  <2>1. CASE t.cpu = cpu
    BY <1>7, <1>8, <2>1 DEF Matches
  <2>2. CASE t.cpu # cpu
    BY <1>1, <1>8, <2>2 DEF Matches, TokensSpent
  <2> QED
    BY <2>1, <2>2
<1> QED
  BY <1>9, <1>10, <1>11, <1>12

LEMMA IrqInductive == IrqInv /\ [IrqNext]_irqVars => IrqInv'
<1> SUFFICES ASSUME IrqInv, [IrqNext]_irqVars PROVE IrqInv'
  OBVIOUS
<1>1. CASE UNCHANGED <<locals, tokens, owed, spentTokens>>
  BY <1>1 DEF IrqInv, IrqTypeOK, TokensIssued, OwedIsOutstanding, TokensSpent, Matches
<1>2. ASSUME NEW v, NEW c, NEW cap, NEW m,
             Route(v, c, cap) \/ SetMasked(v, m) \/ Deliver(v) \/ EndOfInterrupt(c, v)
      PROVE  IrqInv'
  BY <1>1, <1>2 DEF Route, SetMasked, Deliver, EndOfInterrupt
<1>3. CASE UNCHANGED irqVars
  BY <1>1, <1>3 DEF irqVars
<1>4. CASE \E cpu \in IrqCpus : cpu \notin DOMAIN locals /\ AddCpu(cpu)
  BY <1>4, AddCpuKeeps
<1>5. CASE \E cpu \in IrqCpus, cap \in LocalCaps : SaveDisable(cpu, cap)
  BY <1>5, SaveDisableKeeps
<1>6. CASE \E cpu \in IrqCpus, cap \in LocalCaps : \E token \in tokens : Restore(cpu, cap, token)
  BY <1>6, RestoreKeeps
<1> QED
  BY <1>2, <1>3, <1>4, <1>5, <1>6 DEF IrqNext

LEMMA IrqMasked == IrqInv => CriticalSectionsStayMasked
BY DEF IrqInv, OwedIsOutstanding, CriticalSectionsStayMasked, IrqTypeOK

(***************************************************************************)
(* Trap frames.                                                            *)
(***************************************************************************)

ContextRecords == [registers : Registers \cup StartRegisters, generation : Nat, runnable : BOOLEAN]
FrameRecords   == [context : Contexts, registers : Registers \cup StartRegisters,
                   privilege : {"User"}, generation : Nat]

(* A frame names a context that exists and a generation it has reached; the one
   that resumed a context is a generation behind. *)
CtxInv ==
    /\ DOMAIN contexts \subseteq Contexts
    /\ \A id \in DOMAIN contexts : contexts[id] \in ContextRecords
    /\ frames \subseteq FrameRecords /\ spentFrames \subseteq frames
    /\ \A f \in frames : f.context \in DOMAIN contexts
    /\ \A f \in spentFrames : f.generation < contexts[f.context].generation

LEMMA CtxInitial == CtxInit => CtxInv
BY DEF CtxInit, CtxInv

(* A step that leaves the frames alone and takes no context back. *)
LEMMA GenerationsGrow ==
    ASSUME CtxInv, DOMAIN contexts \subseteq DOMAIN contexts', DOMAIN contexts' \subseteq Contexts,
           \A id \in DOMAIN contexts' : contexts'[id] \in ContextRecords,
           \A id \in DOMAIN contexts : contexts[id].generation <= contexts'[id].generation,
           frames \subseteq frames', frames' \subseteq FrameRecords,
           \A f \in frames' : f.context \in DOMAIN contexts',
           spentFrames' \subseteq frames',
           \A f \in spentFrames' \ spentFrames : f.generation < contexts'[f.context].generation
    PROVE  CtxInv'
<1> SUFFICES ASSUME NEW f \in spentFrames
             PROVE  f.generation < contexts'[f.context].generation
  BY DEF CtxInv
<1>1. f \in frames /\ f.generation \in Nat /\ f.context \in DOMAIN contexts
  BY DEF CtxInv, FrameRecords
<1>2. contexts[f.context].generation \in Nat /\ contexts'[f.context].generation \in Nat
  BY <1>1 DEF CtxInv, ContextRecords
<1> QED
  BY <1>1, <1>2 DEF CtxInv

LEMMA CtxInductive == CtxInv /\ [CtxNext]_ctxVars => CtxInv'
<1> SUFFICES ASSUME CtxInv, [CtxNext]_ctxVars PROVE CtxInv'
  OBVIOUS
<1>0. /\ \A id \in DOMAIN contexts : contexts[id].generation \in Nat
      /\ \A f \in frames : f.context \in DOMAIN contexts
  BY DEF CtxInv, ContextRecords
<1>1. ASSUME NEW id \in Contexts, NEW ok, NEW r \in StartRegisters, CreateContext(id, ok, r)
      PROVE  CtxInv'
  <2> DEFINE new == [registers |-> r, generation |-> 0, runnable |-> TRUE]
  <2>1. new \in ContextRecords
    BY DEF ContextRecords
  <2>2. /\ DOMAIN contexts' = DOMAIN contexts \cup {id} /\ id \notin DOMAIN contexts
        /\ contexts'[id] = new
        /\ \A c \in DOMAIN contexts : contexts'[c] = contexts[c]
        /\ UNCHANGED <<frames, spentFrames>>
    BY <1>1 DEF CreateContext, Insert
  <2> HIDE DEF new
  <2>3. /\ DOMAIN contexts' \subseteq Contexts
        /\ \A c \in DOMAIN contexts' : contexts'[c] \in ContextRecords
    BY <2>1, <2>2 DEF CtxInv
  <2> QED
    BY <1>0, <2>2, <2>3 DEF CtxInv
<1>2. ASSUME NEW id \in DOMAIN contexts, contexts' = [contexts EXCEPT ![id].runnable = FALSE]
      PROVE  /\ DOMAIN contexts' = DOMAIN contexts
             /\ \A c \in DOMAIN contexts : /\ contexts'[c] \in ContextRecords
                                           /\ contexts'[c].generation = contexts[c].generation
  <2>1. contexts[id] \in ContextRecords
    BY DEF CtxInv
  <2> DEFINE new == [contexts[id] EXCEPT !.runnable = FALSE]
  <2>2. new \in ContextRecords /\ new.generation = contexts[id].generation
    BY <2>1 DEF ContextRecords
  <2>3. contexts' = [contexts EXCEPT ![id] = new]
    BY <1>2
  <2> HIDE DEF new
  <2> QED
    BY <2>2, <2>3 DEF CtxInv
<1>3. ASSUME NEW id \in DOMAIN contexts, NEW r \in Registers \cup StartRegisters
      PROVE  TrapFrame(id, r) \in FrameRecords /\ TrapFrame(id, r).context = id
  BY <1>0 DEF TrapFrame, FrameRecords, CtxInv
<1>4. ASSUME NEW id \in Contexts, NEW ok, EnterContext(id, ok) PROVE CtxInv'
  <2>1. /\ id \in DOMAIN contexts /\ spentFrames' = spentFrames
        /\ frames' = frames \cup {TrapFrame(id, contexts[id].registers)}
        /\ contexts' = [contexts EXCEPT ![id].runnable = FALSE]
    BY <1>4 DEF EnterContext, MayEnter
  <2>2. contexts[id].registers \in Registers \cup StartRegisters
    BY <2>1 DEF CtxInv, ContextRecords
  <2>3. /\ TrapFrame(id, contexts[id].registers) \in FrameRecords
        /\ TrapFrame(id, contexts[id].registers).context = id
    BY <1>3, <2>1, <2>2
  <2>4. /\ DOMAIN contexts' = DOMAIN contexts
        /\ \A c \in DOMAIN contexts : /\ contexts'[c] \in ContextRecords
                                      /\ contexts'[c].generation = contexts[c].generation
    BY <1>2, <2>1
  <2> QED
    BY <1>0, <2>1, <2>3, <2>4 DEF CtxInv
<1>5. ASSUME NEW id \in Contexts, NEW ok, NEW r \in Registers, Trap(id, ok, r) PROVE CtxInv'
  <2>1. TrapFrame(id, r) \in FrameRecords /\ TrapFrame(id, r).context = id
    BY <1>3, <1>5 DEF Trap
  <2> QED
    BY <1>5, <2>1 DEF CtxInv, Trap
<1>6. ASSUME NEW id \in Contexts, NEW ok, NEW f \in frames, ResumeContext(id, ok, f) PROVE CtxInv'
  <2>1. /\ id \in DOMAIN contexts /\ f.context = id /\ f.generation = contexts[id].generation
        /\ frames' = frames
    BY <1>6 DEF ResumeContext, FrameFits
  <2>2. contexts[id] \in ContextRecords /\ f.registers \in Registers \cup StartRegisters
    BY <2>1 DEF CtxInv, FrameRecords
  <2>3. CASE contexts[id].generation < MaxContextGeneration
    <3> DEFINE new == [registers |-> f.registers, runnable |-> TRUE,
                       generation |-> contexts[id].generation + 1]
    <3>1. /\ contexts' = [contexts EXCEPT ![id] = new]
          /\ spentFrames' = spentFrames \cup {f}
      BY <1>6, <2>3 DEF ResumeContext
    <3>2. new \in ContextRecords /\ new.generation = contexts[id].generation + 1
      BY <1>0, <2>1, <2>2 DEF ContextRecords
    <3> HIDE DEF new
    <3>3. /\ DOMAIN contexts' = DOMAIN contexts /\ contexts'[id] = new
          /\ \A c \in DOMAIN contexts \ {id} : contexts'[c] = contexts[c]
      BY <2>1, <3>1
    <3>4. \A c \in DOMAIN contexts : contexts[c].generation <= contexts'[c].generation
      BY <1>0, <2>1, <3>2, <3>3
    <3>5. \A c \in DOMAIN contexts' : contexts'[c] \in ContextRecords
      BY <3>2, <3>3 DEF CtxInv
    <3>6. \A g \in spentFrames' \ spentFrames : g.generation < contexts'[g.context].generation
      BY <1>0, <2>1, <3>1, <3>2, <3>3
    <3>7. /\ DOMAIN contexts' \subseteq Contexts /\ frames' \subseteq FrameRecords
          /\ \A g \in frames' : g.context \in DOMAIN contexts'
          /\ spentFrames' \subseteq frames'
      BY <2>1, <3>1, <3>3 DEF CtxInv
    <3> QED
      BY <2>1, <3>3, <3>4, <3>5, <3>6, <3>7, GenerationsGrow
  <2>4. CASE ~(contexts[id].generation < MaxContextGeneration)
    <3> DEFINE new == [contexts[id] EXCEPT !.registers = f.registers]
    <3>1. contexts' = [contexts EXCEPT ![id] = new] /\ spentFrames' = spentFrames
      BY <1>6, <2>4 DEF ResumeContext
    <3>2. new \in ContextRecords /\ new.generation = contexts[id].generation
      BY <2>2 DEF ContextRecords
    <3> HIDE DEF new
    <3> QED
      BY <2>1, <3>1, <3>2 DEF CtxInv
  <2> QED
    BY <2>3, <2>4
<1>7. ASSUME NEW id \in Contexts, Terminate(id) PROVE CtxInv'
  <2>1. /\ DOMAIN contexts' = DOMAIN contexts
        /\ \A c \in DOMAIN contexts : /\ contexts'[c] \in ContextRecords
                                      /\ contexts'[c].generation = contexts[c].generation
    BY <1>2, <1>7 DEF Terminate
  <2>2. UNCHANGED <<frames, spentFrames>>
    BY <1>7 DEF Terminate
  <2> QED
    BY <1>0, <2>1, <2>2 DEF CtxInv
<1>8. CASE UNCHANGED contextVars
  BY <1>8 DEF CtxInv, contextVars
<1>9. ASSUME NEW t, NEW c, NEW s,
             UpdateClock(t) \/ CancelDeadline(c) \/ ArmDeadline(c, t) \/ EnterTerminal(s)
      PROVE  CtxInv'
  BY <1>8, <1>9 DEF UpdateClock, CancelDeadline, ArmDeadline, EnterTerminal
<1>10. CASE UNCHANGED ctxVars
  BY <1>8, <1>10 DEF ctxVars, contextVars
<1> QED
  BY <1>1, <1>4, <1>5, <1>6, <1>7, <1>9, <1>10 DEF CtxNext

LEMMA FramesSpent == CtxInv => \A f \in spentFrames : ~FrameFits(f.context, f)
<1> SUFFICES ASSUME CtxInv, NEW f \in spentFrames PROVE ~FrameFits(f.context, f)
  OBVIOUS
<1>1. f \in frames /\ f.generation \in Nat /\ f.context \in DOMAIN contexts
  BY DEF CtxInv, FrameRecords
<1>2. contexts[f.context].generation \in Nat
  BY <1>1 DEF CtxInv, ContextRecords
<1> QED
  BY <1>1, <1>2 DEF CtxInv, FrameFits

(* IrqController and UserContext: a token that was handed back and a frame that
   resumed its context never match again, and a CPU has interrupts disabled until
   its own last token comes back, for any number of CPUs and contexts and however
   often they disable and trap. *)
THEOREM SpentForGood == ObjectsSpec => []SpentStaysSpent
<1>1. Init0 => IrqInv /\ CtxInv
  BY IrqInitial, CtxInitial DEF Init0
<1>2. IrqInv /\ CtxInv /\ [Next0]_objectVars => IrqInv' /\ CtxInv'
  BY IrqStep, CtxStep, IrqInductive, CtxInductive
<1>3. IrqInv /\ CtxInv => SpentStaysSpent
  BY IrqMasked, FramesSpent DEF IrqInv, TokensSpent, SpentStaysSpent
<1> QED
  BY <1>1, <1>2, <1>3, PTL DEF ObjectsSpec

(***************************************************************************)
(* DMA mappings.                                                           *)
(***************************************************************************)

DmaRecords == [device : Int, domain : Int, base : Int, len : Int,
               ownership : {"Cpu", "Device"}, generation : Nat]

DmaTypeOK ==
    /\ \A s \in DOMAIN mappings : mappings[s] \in DmaRecords
    /\ \A s \in DOMAIN generations : generations[s] \in Nat
    /\ \A c \in copies : c[2] \in DmaRecords

(* The generation of a slot is that of its mapping, or the one its next mapping
   will get. *)
SlotGeneration(s) == IF s \in DOMAIN generations THEN generations[s] ELSE 0
SlotsInStep == \A s \in DOMAIN mappings : mappings[s].generation = SlotGeneration(s)

(* A copy is of the slot's mapping or of an earlier one. *)
CopiesDated ==
    \A c \in copies :
        /\ c[1] \in DOMAIN mappings \/ c[2].generation < SlotGeneration(c[1])
        /\ c[2].generation <= SlotGeneration(c[1])
        /\ c[1] \in DOMAIN mappings /\ c[2].generation = SlotGeneration(c[1])
              => Same(c[2], mappings[c[1]])

(* What a device reaches: NoStaleDma, with the domain known. *)
SegmentPinned(s) ==
    /\ s \in DOMAIN mappings /\ segments[s].len = mappings[s].len
    /\ mappings[s].domain \in DOMAIN domains
    /\ LET m == mappings[s]  d == domains[m.domain] IN
       /\ d.device = m.device
       /\ d.mode = "AbsentIdentity" => segments[s].address = m.base
       /\ d.mode = "Present" => Pages(segments[s].address, m.len) \subseteq Pages(d.base, d.len)
SegmentsPinned == \A s \in DOMAIN segments : SegmentPinned(s)

DmaInv == DmaTypeOK /\ SlotsInStep /\ CopiesDated /\ SegmentsPinned

LEMMA DmaInitial == DmaInit => DmaInv
BY DEF DmaInit, DmaInv, DmaTypeOK, SlotsInStep, CopiesDated, SegmentsPinned

LEMMA DmaImplies == DmaInv => NoStaleDma
<1> SUFFICES ASSUME DmaInv PROVE NoStaleDma
  OBVIOUS
<1>1. ASSUME NEW c \in copies, Validate(c[1], c[2], c[2].device, c[2].domain)
      PROVE  Same(c[2], mappings[c[1]])
  BY <1>1 DEF DmaInv, CopiesDated, SlotsInStep, Validate, IsLive
<1> QED
  BY <1>1 DEF DmaInv, SegmentsPinned, SegmentPinned, NoStaleDma

LEMMA PinKeeps ==
    ASSUME DmaInv, NEW slot, NEW pin \in Pins, NEW ok, Pin(slot, pin, ok)
    PROVE  DmaInv'
<1> DEFINE m == [device |-> pin.device, domain |-> pin.domain, base |-> pin.base,
                 len |-> pin.len, ownership |-> "Cpu", generation |-> SlotGeneration(slot)]
<1> USE DEF DmaInv
<1>1. /\ slot \notin DOMAIN mappings /\ mappings' = Insert(mappings, slot, m)
      /\ copies' = copies \cup {<<slot, m>>}
      /\ UNCHANGED <<generations, domains, segments>>
  BY DEF Pin, SlotGeneration
<1>2. SlotGeneration(slot) \in Nat
  BY DEF DmaTypeOK, SlotGeneration
<1>3. m \in DmaRecords /\ m.generation = SlotGeneration(slot)
  BY <1>2, DmaAssumption DEF DmaRecords
<1> HIDE DEF m
<1>4. /\ DOMAIN mappings' = DOMAIN mappings \cup {slot} /\ mappings'[slot] = m
      /\ \A s \in DOMAIN mappings : mappings'[s] = mappings[s]
  BY <1>1 DEF Insert
<1>5. \A s : SlotGeneration(s)' = SlotGeneration(s)
  BY <1>1 DEF SlotGeneration
<1>6. DmaTypeOK'
  BY <1>1, <1>3, <1>4 DEF DmaTypeOK
<1>7. SlotsInStep'
  BY <1>3, <1>4, <1>5 DEF SlotsInStep
<1>8. CopiesDated'
  <2> SUFFICES ASSUME NEW c \in copies'
               PROVE  /\ c[1] \in DOMAIN mappings' \/ c[2].generation < SlotGeneration(c[1])
                      /\ c[2].generation <= SlotGeneration(c[1])
                      /\ c[1] \in DOMAIN mappings' /\ c[2].generation = SlotGeneration(c[1])
                            => Same(c[2], mappings'[c[1]])
    BY <1>5 DEF CopiesDated
  <2>1. CASE c = <<slot, m>>
    BY <1>2, <1>3, <1>4, <2>1 DEF Same
  <2>2. CASE c \in copies
    <3>1. CASE c[1] = slot
      <4>1. c[2].generation \in Nat /\ c[2].generation < SlotGeneration(slot)
        BY <1>1, <2>2, <3>1 DEF CopiesDated, DmaTypeOK, DmaRecords
      <4> QED
        BY <1>2, <1>4, <3>1, <4>1
    <3>2. CASE c[1] # slot
      BY <1>4, <2>2, <3>2 DEF CopiesDated
    <3> QED
      BY <3>1, <3>2
  <2> QED
    BY <1>1, <2>1, <2>2
<1>9. SegmentsPinned'
  BY <1>1, <1>4 DEF SegmentsPinned, SegmentPinned
<1> QED
  BY <1>6, <1>7, <1>8, <1>9

LEMMA RegisterKeeps ==
    ASSUME DmaInv, NEW d \in Domains, d.id \notin DOMAIN domains, RegisterDomain(d)
    PROVE  DmaInv'
<1> USE DEF DmaInv
<1>1. /\ UNCHANGED <<mappings, generations, segments, copies>>
      /\ DOMAIN domains' = DOMAIN domains \cup {d.id}
      /\ \A i \in DOMAIN domains : domains'[i] = domains[i]
  BY DEF RegisterDomain, Insert
<1>2. DmaTypeOK' /\ SlotsInStep' /\ CopiesDated'
  BY <1>1 DEF DmaTypeOK, SlotsInStep, CopiesDated, SlotGeneration
<1>3. SegmentsPinned'
  BY <1>1 DEF SegmentsPinned, SegmentPinned
<1> QED
  BY <1>2, <1>3

LEMMA MapDomainKeeps ==
    ASSUME DmaInv, NEW c \in copies, NEW id, NEW a, MapDomain(c[1], c[2], id, a)
    PROVE  DmaInv'
<1> USE DEF DmaInv
<1> DEFINE s == c[1]
<1> DEFINE m == c[2]
<1> DEFINE d == domains[m.domain]
<1>1. /\ s \in DOMAIN mappings /\ mappings[s].generation = m.generation
      /\ m.domain \in DOMAIN domains /\ d.device = m.device
      /\ Reachable(d, m, id, a)
      /\ segments' = Insert(segments, s, [address |-> a, len |-> m.len])
      /\ UNCHANGED <<mappings, generations, domains, copies>>
  BY DEF MapDomain, IsLive
<1>2. Same(m, mappings[s])
  BY <1>1 DEF CopiesDated, SlotsInStep
<1>3. /\ d.mode = "AbsentIdentity" => a = m.base
      /\ d.mode = "Present" => Pages(a, m.len) \subseteq Pages(d.base, d.len)
  BY <1>1 DEF Reachable
<1>4. /\ DOMAIN segments' = DOMAIN segments \cup {s}
      /\ segments'[s].address = a /\ segments'[s].len = m.len
      /\ \A t \in DOMAIN segments : t # s => segments'[t] = segments[t]
  BY <1>1 DEF Insert
<1>5. DmaTypeOK' /\ SlotsInStep' /\ CopiesDated'
  BY <1>1 DEF DmaTypeOK, SlotsInStep, CopiesDated, SlotGeneration
<1>6. SegmentPinned(s)'
  BY <1>1, <1>2, <1>3, <1>4 DEF SegmentPinned, Same
<1>7. SegmentsPinned'
  <2> SUFFICES ASSUME NEW t \in DOMAIN segments' PROVE SegmentPinned(t)'
    BY DEF SegmentsPinned
  <2>1. CASE t = s
    BY <1>6, <2>1
  <2>2. CASE t # s
    <3>1. t \in DOMAIN segments /\ segments'[t] = segments[t] /\ SegmentPinned(t)
      BY <1>4, <2>2 DEF SegmentsPinned
    <3> QED
      BY <1>1, <3>1 DEF SegmentPinned
  <2> QED
    BY <2>1, <2>2
<1> QED
  BY <1>5, <1>7

LEMMA UnmapDomainKeeps ==
    ASSUME DmaInv, NEW c \in copies, UnmapDomain(c[1], c[2])
    PROVE  DmaInv'
<1> USE DEF DmaInv
<1>1. /\ UNCHANGED <<mappings, generations, domains, copies>>
      /\ DOMAIN segments' \subseteq DOMAIN segments
      /\ \A s \in DOMAIN segments' : segments'[s] = segments[s]
  BY DEF UnmapDomain, Without
<1>2. DmaTypeOK' /\ SlotsInStep' /\ CopiesDated'
  BY <1>1 DEF DmaTypeOK, SlotsInStep, CopiesDated, SlotGeneration
<1>3. SegmentsPinned'
  BY <1>1 DEF SegmentsPinned, SegmentPinned
<1> QED
  BY <1>2, <1>3

LEMMA UnpinKeeps ==
    ASSUME DmaInv, NEW c \in copies, Unpin(c[1], c[2])
    PROVE  DmaInv'
<1> USE DEF DmaInv
<1> DEFINE slot == c[1]
<1> DEFINE g == mappings[slot].generation
<1>1. /\ slot \in DOMAIN mappings /\ slot \notin DOMAIN segments
      /\ mappings' = Without(mappings, {slot})
      /\ generations' = Insert(generations, slot, g + 1)
      /\ UNCHANGED <<domains, segments, copies>>
  BY DEF Unpin, IsLive, MayUnpin
<1>2. g \in Nat /\ g = SlotGeneration(slot)
  BY <1>1 DEF DmaTypeOK, DmaRecords, SlotsInStep
<1> HIDE DEF slot, g
<1>3. /\ DOMAIN mappings' = DOMAIN mappings \ {slot}
      /\ \A s \in DOMAIN mappings' : mappings'[s] = mappings[s]
  BY <1>1 DEF Without
<1>4. /\ SlotGeneration(slot)' = g + 1 /\ DOMAIN generations' = DOMAIN generations \cup {slot}
      /\ \A s \in DOMAIN generations : s # slot => generations'[s] = generations[s]
      /\ generations'[slot] = g + 1
  BY <1>1 DEF SlotGeneration, Insert
<1>5. \A s : s # slot => SlotGeneration(s)' = SlotGeneration(s)
  BY <1>4 DEF SlotGeneration
<1>6. DmaTypeOK'
  BY <1>1, <1>2, <1>3, <1>4 DEF DmaTypeOK
<1>7. SlotsInStep'
  BY <1>3, <1>5 DEF SlotsInStep
<1>8. CopiesDated'
  <2> SUFFICES ASSUME NEW k \in copies
               PROVE  /\ k[1] \in DOMAIN mappings' \/ k[2].generation < SlotGeneration(k[1])'
                      /\ k[2].generation <= SlotGeneration(k[1])'
                      /\ k[1] \in DOMAIN mappings' /\ k[2].generation = SlotGeneration(k[1])'
                            => Same(k[2], mappings'[k[1]])
    BY <1>1 DEF CopiesDated
  <2>1. CASE k[1] = slot
    <3>1. k[2].generation \in Nat /\ k[2].generation <= g
      BY <1>2, <2>1 DEF CopiesDated, DmaTypeOK, DmaRecords
    <3> QED
      BY <1>2, <1>3, <1>4, <2>1, <3>1
  <2>2. CASE k[1] # slot
    BY <1>3, <1>5, <2>2 DEF CopiesDated
  <2> QED
    BY <2>1, <2>2
<1>9. SegmentsPinned'
  <2> SUFFICES ASSUME NEW s \in DOMAIN segments PROVE SegmentPinned(s)'
    BY <1>1 DEF SegmentsPinned
  <2>1. SegmentPinned(s) /\ s # slot
    BY <1>1 DEF SegmentsPinned
  <2>2. s \in DOMAIN mappings' /\ mappings'[s] = mappings[s]
    BY <1>3, <2>1 DEF SegmentPinned
  <2> QED
    BY <1>1, <2>1, <2>2 DEF SegmentPinned
<1> QED
  BY <1>6, <1>7, <1>8, <1>9

LEMMA TransitionKeeps ==
    ASSUME DmaInv, NEW c \in copies, NEW expected, NEW side \in {"Cpu", "Device"},
           TransitionOwnership(c[1], c[2], expected, side)
    PROVE  DmaInv'
<1> USE DEF DmaInv
<1> DEFINE slot == c[1]
<1> DEFINE new == [mappings[slot] EXCEPT !.ownership = side]
<1>1. /\ slot \in DOMAIN mappings /\ mappings' = [mappings EXCEPT ![slot] = new]
      /\ copies' = copies \cup {<<slot, mappings'[slot]>>}
      /\ UNCHANGED <<generations, domains, segments>>
  BY DEF TransitionOwnership, IsLive
<1>2. mappings[slot] \in DmaRecords
  BY <1>1 DEF DmaTypeOK
<1>3. /\ new \in DmaRecords /\ Same(new, mappings[slot])
      /\ new.generation = mappings[slot].generation
  BY <1>2 DEF DmaRecords, Same
<1> HIDE DEF new, slot
<1>4. /\ DOMAIN mappings' = DOMAIN mappings /\ mappings'[slot] = new
      /\ \A s \in DOMAIN mappings : s # slot => mappings'[s] = mappings[s]
  BY <1>1
<1>5. \A s : SlotGeneration(s)' = SlotGeneration(s)
  BY <1>1 DEF SlotGeneration
<1>6. copies' = copies \cup {<<slot, new>>}
  BY <1>1, <1>4
<1>7. DmaTypeOK'
  BY <1>1, <1>3, <1>4, <1>6 DEF DmaTypeOK
<1>8. SlotsInStep'
  BY <1>3, <1>4, <1>5 DEF SlotsInStep
<1>9. CopiesDated'
  <2> SUFFICES ASSUME NEW k \in copies'
               PROVE  /\ k[1] \in DOMAIN mappings' \/ k[2].generation < SlotGeneration(k[1])
                      /\ k[2].generation <= SlotGeneration(k[1])
                      /\ k[1] \in DOMAIN mappings' /\ k[2].generation = SlotGeneration(k[1])
                            => Same(k[2], mappings'[k[1]])
    BY <1>5 DEF CopiesDated
  <2>1. CASE k = <<slot, new>>
    <3>1. new.generation \in Nat /\ new.generation = SlotGeneration(slot)
      BY <1>1, <1>3 DEF SlotsInStep, DmaRecords
    <3> QED
      BY <1>1, <1>4, <2>1, <3>1 DEF Same
  <2>2. CASE k \in copies
    <3>1. CASE k[1] = slot
      BY <1>1, <1>3, <1>4, <2>2, <3>1 DEF CopiesDated, Same
    <3>2. CASE k[1] # slot
      BY <1>4, <2>2, <3>2 DEF CopiesDated
    <3> QED
      BY <3>1, <3>2
  <2> QED
    BY <1>6, <2>1, <2>2
<1>10. SegmentsPinned'
  <2> SUFFICES ASSUME NEW s \in DOMAIN segments PROVE SegmentPinned(s)'
    BY <1>1 DEF SegmentsPinned
  <2>1. SegmentPinned(s)
    BY DEF SegmentsPinned
  <2>2. Same(mappings'[s], mappings[s])
    BY <1>3, <1>4, <2>1 DEF Same, SegmentPinned
  <2> QED
    BY <1>1, <1>4, <2>1, <2>2 DEF SegmentPinned, Same
<1> QED
  BY <1>7, <1>8, <1>9, <1>10

LEMMA DmaInductive == DmaInv /\ [DmaNext]_dmaVars => DmaInv'
<1> SUFFICES ASSUME DmaInv, [DmaNext]_dmaVars PROVE DmaInv'
  OBVIOUS
<1>1. CASE UNCHANGED dmaVars
  BY <1>1 DEF dmaVars, DmaInv, DmaTypeOK, SlotsInStep, CopiesDated, SlotGeneration,
              SegmentsPinned, SegmentPinned
<1>2. ASSUME NEW c \in copies, SyncForDevice(c[1], c[2]) \/ SyncForCpu(c[1], c[2]) PROVE DmaInv'
  BY <1>2, TransitionKeeps DEF SyncForDevice, SyncForCpu
<1> QED
  BY <1>1, <1>2, PinKeeps, RegisterKeeps, MapDomainKeeps, UnmapDomainKeeps, UnpinKeeps DEF DmaNext

(* DmaState: what a device can reach is the buffer pinned now, through a domain
   of its own device, and a copy that still validates describes that buffer, for
   any slots, pins, domains and however often a slot is reused. *)
THEOREM DmaNeverStale == ObjectsSpec => []NoStaleDma
<1>1. Init0 => DmaInv
  BY DmaInitial DEF Init0
<1>2. DmaInv /\ [Next0]_objectVars => DmaInv'
  BY DmaStep, DmaInductive
<1> QED
  BY <1>1, <1>2, DmaImplies, PTL DEF ObjectsSpec

(***************************************************************************)
(* TicketLock is safe and implements FifoLock, for any number of clients   *)
(* and any width of the ticket counter.                                    *)
(***************************************************************************)

TicketInv == TypeOK /\ TicketsAccounted

(* The initial lock has no tickets. *)
LEMMA TicketInit == Init => TicketInv
BY TicketAssumption DEF Init, TicketInv, TypeOK, TicketsAccounted

(* Every operation of a client keeps the tickets between owner and next
   exactly the outstanding ones. *)
LEMMA TicketNext == TicketInv /\ [Next]_vars => TicketInv'
<1> SUFFICES ASSUME TicketInv, [Next]_vars PROVE TicketInv'
  OBVIOUS
<1> USE TicketAssumption DEF TicketInv, TypeOK, TicketsAccounted
<1>1. ASSUME NEW c \in Clients, Enqueue(c) PROVE TicketInv'
  BY <1>1 DEF Enqueue, EnqueueOk
<1>2. ASSUME NEW c \in Clients, Acquire(c) PROVE TicketInv'
  BY <1>2 DEF Acquire, AcquireOk
<1>3. ASSUME NEW c \in Clients, Release(c) PROVE TicketInv'
  BY <1>3 DEF Release, ReleaseOk, Released
<1>4. ASSUME NEW c \in Clients, ReleaseCopy(c) PROVE TicketInv'
  BY <1>4 DEF ReleaseCopy, ReleaseOk, Released
<1>5. CASE UNCHANGED vars
  BY <1>5 DEF vars
<1> QED
  BY <1>1, <1>2, <1>3, <1>4, <1>5 DEF Next

(* The tickets stay accounted for in every behaviour. *)
THEOREM TicketInvariant == Spec => []TicketInv
BY TicketInit, TicketNext, PTL DEF Spec

(* At most one client is between acquire and release. *)
THEOREM TicketMutualExclusion == Spec => []MutualExclusion
<1>1. TicketInv => MutualExclusion
  BY TicketAssumption DEF TicketInv, TypeOK, TicketsAccounted, MutualExclusion
<1> QED
  BY <1>1, TicketInvariant, PTL

(***************************************************************************)
(* The refinement.                                                         *)
(***************************************************************************)

(* The line, by what it contains: the client at place i holds the i-th ticket
   from owner. *)
LineOk ==
    /\ Line \in Seq(Clients) /\ Len(Line) = next - owner
    /\ DOMAIN Line = 1..(next - owner)
    /\ \A i \in 1..(next - owner) :
          Line[i] \in Clients /\ pc[Line[i]] # "idle" /\ ticket[Line[i]] = owner + i - 1

(* Every outstanding ticket has a holder, so the line is a sequence of clients. *)
LEMMA LineIsSequence == TicketInv => LineOk
<1> SUFFICES ASSUME TicketInv PROVE LineOk
  OBVIOUS
<1>1. \A i \in 1..(next - owner) : owner + i - 1 \in outstanding
  BY DEF TicketInv, TypeOK, TicketsAccounted
<1>2. \A t \in outstanding :
         Holder(t) \in Clients /\ pc[Holder(t)] # "idle" /\ ticket[Holder(t)] = t
  BY DEF TicketInv, TicketsAccounted, Holder
<1>3. next - owner \in Nat
  BY DEF TicketInv, TypeOK, TicketsAccounted
<1> QED
  BY <1>1, <1>2, <1>3 DEF Line, LineOk

(* What the refinement of a step needs of the invariant. *)
LineFacts ==
    /\ next \in Nat /\ owner \in Nat /\ owner <= next
    /\ outstanding = owner..(next - 1)
    /\ pc \in [Clients -> {"idle", "waiting", "inside"}]
    /\ ticket \in [Clients -> Nat \cup {NoTicket}]
    /\ \A c, d \in Clients :
          pc[c] # "idle" /\ pc[d] # "idle" /\ ticket[c] = ticket[d] => c = d
    /\ \A c \in Clients : pc[c] = "inside" => ticket[c] = owner
    /\ \A c \in Clients : pc[c] # "idle" => ticket[c] \in outstanding
    /\ \A c \in Clients : pc[c] = "idle" => ticket[c] = NoTicket \/ ticket[c] < owner
    /\ LineOk

(* The invariant gives those facts. *)
LEMMA TicketFacts == TicketInv => LineFacts
BY LineIsSequence, TicketAssumption DEF TicketInv, TypeOK, TicketsAccounted, LineFacts

(* The initial lock is the initial FifoLock. *)
LEMMA TicketInitRefines == Init => Fifo!Init
BY DEF Init, Fifo!Init, Line, In

(* Enqueuing is joining the queue. *)
LEMMA EnqueueRefines ==
    ASSUME LineFacts, LineFacts', NEW c \in Clients, Enqueue(c)
    PROVE  Fifo!Join(c)
<1> USE DEF Enqueue, EnqueueOk, LineFacts
<1>1. \A i \in DOMAIN Line : Line[i] # c
  BY DEF LineOk
<1>2. Line' = Append(Line, c)
  <2>1. Line' \in Seq(Clients) /\ Len(Line') = Len(Line) + 1
    BY DEF LineOk
  <2>2. ASSUME NEW i \in 1..Len(Line) PROVE Line'[i] = Line[i]
    <3>1. /\ Line[i] \in Clients /\ Line[i] # c
          /\ pc[Line[i]] # "idle" /\ ticket[Line[i]] = owner + i - 1
      BY <2>2, <1>1 DEF LineOk
    <3>2. pc'[Line[i]] # "idle" /\ ticket'[Line[i]] = owner + i - 1
      BY <3>1
    <3>3. /\ Line'[i] \in Clients
          /\ pc'[Line'[i]] # "idle" /\ ticket'[Line'[i]] = owner + i - 1
      BY <2>2, SMTT(40) DEF LineOk
    <3> QED
      BY <3>1, <3>2, <3>3
  <2>3. Line'[Len(Line) + 1] = c
    BY DEF LineOk
  <2>4. Line \in Seq(Clients)
    BY DEF LineOk
  <2> HIDE DEF Enqueue, EnqueueOk, LineFacts
  <2> QED
    BY <2>1, <2>2, <2>3, <2>4
<1>3. In' = In
  BY DEF In
<1> QED
  BY <1>1, <1>2, <1>3 DEF Fifo!Join

(* The owner's ticket is at the head of the line. *)
LEMMA OwnerIsHead ==
    ASSUME LineFacts, NEW c \in Clients, pc[c] # "idle", ticket[c] = owner
    PROVE  Line # <<>> /\ Head(Line) = c
<1>1. 1 \in 1..(next - owner)
  BY DEF LineFacts
<1>2. Line[1] \in Clients /\ pc[Line[1]] # "idle" /\ ticket[Line[1]] = owner
  BY <1>1 DEF LineFacts, LineOk
<1>3. Line[1] = c
  BY <1>2 DEF LineFacts
<1>4. Line \in Seq(Clients) /\ Len(Line) > 0
  BY <1>1 DEF LineFacts, LineOk
<1> QED
  BY <1>3, <1>4

(* Acquiring is entering. *)
LEMMA AcquireRefines ==
    ASSUME LineFacts, LineFacts', NEW c \in Clients, Acquire(c)
    PROVE  Fifo!Enter(c)
<1> USE DEF Acquire, AcquireOk
<1>1. Line # <<>> /\ Head(Line) = c
  BY OwnerIsHead
<1>2. In = {}
  <2> SUFFICES ASSUME NEW d \in Clients, pc[d] = "inside" PROVE FALSE
    BY DEF In
  <2>1. ticket[d] = ticket[c]
    BY DEF LineFacts
  <2> QED
    BY <2>1 DEF LineFacts
<1>3. In' = {c}
  BY <1>2 DEF In, LineFacts
<1>4. Line' = Line
  <2>1. /\ Line \in Seq(Clients) /\ Line' \in Seq(Clients) /\ Len(Line') = Len(Line)
        /\ Len(Line) = next - owner
    BY DEF LineFacts, LineOk
  <2>2. ASSUME NEW i \in 1..Len(Line) PROVE Line'[i] = Line[i]
    <3>1. /\ Line[i] \in Clients /\ pc[Line[i]] # "idle" /\ ticket[Line[i]] = owner + i - 1
      BY <2>1, <2>2 DEF LineFacts, LineOk
    <3>2. pc'[Line[i]] # "idle" /\ ticket'[Line[i]] = owner + i - 1
      BY <3>1 DEF LineFacts
    <3>3. /\ Line'[i] \in Clients
          /\ pc'[Line'[i]] # "idle" /\ ticket'[Line'[i]] = owner + i - 1
      BY <2>1, <2>2 DEF LineFacts, LineOk
    <3> QED
      BY <3>1, <3>2, <3>3 DEF LineFacts
  <2> HIDE DEF Acquire, AcquireOk
  <2> QED
    BY <2>1, <2>2
<1> QED
  BY <1>1, <1>2, <1>3, <1>4 DEF Fifo!Enter

(* Releasing is leaving. *)
LEMMA ReleaseRefines ==
    ASSUME LineFacts, LineFacts', NEW c \in Clients, Release(c)
    PROVE  Fifo!Leave(c)
<1> USE DEF Release, ReleaseOk, Released
<1>1. Line # <<>> /\ Head(Line) = c
  BY OwnerIsHead
<1>2. In = {c}
  BY DEF In, LineFacts
<1>3. In' = {}
  BY <1>2 DEF In, LineFacts
<1>4. Line' = Tail(Line)
  <2>1. /\ Line \in Seq(Clients) /\ Line' \in Seq(Clients) /\ Len(Line') = Len(Line) - 1
        /\ Len(Line) = next - owner /\ Len(Line) > 0 /\ owner \in Nat /\ next \in Nat
    BY <1>1 DEF LineFacts, LineOk
  <2>2. ASSUME NEW i \in 1..(Len(Line) - 1) PROVE Line'[i] = Line[i + 1]
    <3>1. /\ Line[i + 1] \in Clients /\ pc[Line[i + 1]] # "idle"
          /\ ticket[Line[i + 1]] = owner + i
      BY <2>1, <2>2, SMTT(40) DEF LineFacts, LineOk
    <3>2. pc'[Line[i + 1]] # "idle" /\ ticket'[Line[i + 1]] = owner + i
      BY <2>1, <2>2, <3>1 DEF LineFacts
    <3>3. /\ Line'[i] \in Clients
          /\ pc'[Line'[i]] # "idle" /\ ticket'[Line'[i]] = owner + i
      BY <2>1, <2>2 DEF LineFacts, LineOk
    <3> QED
      BY <3>1, <3>2, <3>3 DEF LineFacts
  <2> HIDE DEF Release, ReleaseOk, Released
  <2> QED
    BY <2>1, <2>2
<1> QED
  BY <1>1, <1>2, <1>3, <1>4 DEF Fifo!Leave

(* A replayed guard is refused, which FifoLock does not notice. *)
LEMMA ReleaseCopyRefines ==
    ASSUME LineFacts, NEW c \in Clients, ReleaseCopy(c)
    PROVE  UNCHANGED vars
BY DEF LineFacts, ReleaseCopy, ReleaseOk, vars

(* The ticket lock implements FifoLock: clients enter in the order in which
   they enqueued, one at a time. *)
THEOREM TicketRefinement == Spec => ImplementsFifoLock
<1>1. LineFacts /\ LineFacts' /\ [Next]_vars => [Fifo!Next]_Fifo!lockVars
  <2> SUFFICES ASSUME LineFacts, LineFacts', [Next]_vars PROVE [Fifo!Next]_Fifo!lockVars
    OBVIOUS
  <2>1. ASSUME NEW c \in Clients, Enqueue(c) PROVE Fifo!Next
    BY <2>1, EnqueueRefines DEF Fifo!Next
  <2>2. ASSUME NEW c \in Clients, Acquire(c) PROVE Fifo!Next
    BY <2>2, AcquireRefines DEF Fifo!Next
  <2>3. ASSUME NEW c \in Clients, Release(c) PROVE Fifo!Next
    BY <2>3, ReleaseRefines DEF Fifo!Next
  <2>4. ASSUME UNCHANGED vars PROVE UNCHANGED Fifo!lockVars
    BY <2>4 DEF vars, Fifo!lockVars, Line, In, Holder
  <2>5. ASSUME NEW c \in Clients, ReleaseCopy(c) PROVE UNCHANGED Fifo!lockVars
    BY <2>4, <2>5, ReleaseCopyRefines
  <2> QED
    BY <2>1, <2>2, <2>3, <2>4, <2>5 DEF Next
<1> QED
  BY <1>1, TicketInitRefines, TicketFacts, TicketInvariant, PTL
     DEF Spec, ImplementsFifoLock, Fifo!Spec
====
