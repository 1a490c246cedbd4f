----------------------------- MODULE ProcessorsProofs -----------------------------
(***************************************************************************)
(* What holds of the scheduler and of the SMP state for every set of CPUs  *)
(* and tasks and every epoch bound.                                        *)
(***************************************************************************)
EXTENDS MCProcessors, FiniteSetTheorems, SequenceTheorems, TLAPS

(***************************************************************************)
(* The scheduler.  UniqueOwnership counts places; its inductive form says  *)
(* where each task is.                                                     *)
(***************************************************************************)

(* No task is in two queue positions. *)
NoTwin ==
    \A c, d \in Online : \A i \in 1..Len(queues[c]), j \in 1..Len(queues[d]) :
        queues[c][i] = queues[d][j] => c = d /\ i = j

(* The queues hold Runnable tasks only. *)
QueuedIsRunnable ==
    \A c \in Online : \A i \in 1..Len(queues[c]) : tasks[queues[c][i]].st = "Runnable"

(* No Runnable task is lost. *)
RunnableIsQueued ==
    \A t \in Tasks : tasks[t].st = "Runnable" =>
        \E c \in Online : \E i \in 1..Len(queues[c]) : queues[c][i] = t

(* A Running task is current on the CPU its state names. *)
RunningIsCurrent ==
    \A t \in Tasks : tasks[t].st = "Running" =>
        tasks[t].cpu \in Online /\ current[tasks[t].cpu] = t

(* What is current on a CPU is Running there. *)
CurrentIsRunning ==
    \A c \in Online : current[c] # None =>
        tasks[current[c]].st = "Running" /\ tasks[current[c]].cpu = c

Placed ==
    /\ TypeOK
    /\ NoTwin
    /\ QueuedIsRunnable
    /\ RunnableIsQueued
    /\ RunningIsCurrent
    /\ CurrentIsRunning

(* What create_task, wake and yield do to a queue. *)
Appended(c, t) ==
    /\ queues' \in [Online -> Seq(Tasks)]
    /\ \A d \in Online \ {c} : queues'[d] = queues[d]
    /\ Len(queues'[c]) = Len(queues[c]) + 1
    /\ \A i \in 1..Len(queues[c]) : queues'[c][i] = queues[c][i]
    /\ queues'[c][Len(queues[c]) + 1] = t

(* What a dispatch or a steal does to a queue: position p is cut out. *)
Removed(c, p) ==
    /\ queues' \in [Online -> Seq(Tasks)]
    /\ \A d \in Online \ {c} : queues'[d] = queues[d]
    /\ Len(queues'[c]) = Len(queues[c]) - 1
    /\ \A i \in 1..Len(queues'[c]) :
          queues'[c][i] = queues[c][IF i < p THEN i ELSE i + 1]

(* Append leaves the positions of a queue alone and adds one. *)
LEMMA AppendedEffect ==
    ASSUME TypeOK, NEW c \in Online, NEW t \in Tasks,
           queues' = [queues EXCEPT ![c] = Append(@, t)]
    PROVE  Appended(c, t)
<1>1. queues[c] \in Seq(Tasks)
  BY DEF TypeOK
<1>2. queues'[c] = Append(queues[c], t) /\ \A d \in Online \ {c} : queues'[d] = queues[d]
  BY DEF TypeOK
<1>3. queues' \in [Online -> Seq(Tasks)]
  BY <1>1, AppendProperties DEF TypeOK
<1> QED
  BY <1>1, <1>2, <1>3, AppendProperties DEF Appended

(* pop_front cuts out the first position. *)
LEMMA TailEffect ==
    ASSUME TypeOK, NEW c \in Online, queues[c] # <<>>,
           queues' = [queues EXCEPT ![c] = Tail(@)]
    PROVE  1 \in 1..Len(queues[c]) /\ Head(queues[c]) = queues[c][1] /\ Removed(c, 1)
<1>1. queues[c] \in Seq(Tasks)
  BY DEF TypeOK
<1>2. queues'[c] = Tail(queues[c]) /\ \A d \in Online \ {c} : queues'[d] = queues[d]
  BY DEF TypeOK
<1>3. queues' \in [Online -> Seq(Tasks)]
  BY <1>1, HeadTailProperties DEF TypeOK
<1>4. /\ Len(queues[c]) \in Nat /\ Len(queues[c]) # 0
      /\ Len(Tail(queues[c])) = Len(queues[c]) - 1
      /\ \A i \in 1..Len(Tail(queues[c])) : Tail(queues[c])[i] = queues[c][i + 1]
      /\ Head(queues[c]) = queues[c][1]
  BY <1>1, HeadTailProperties, EmptySeq
<1> QED
  BY <1>2, <1>3, <1>4 DEF Removed

(* pop_back cuts out the last position. *)
LEMMA FrontEffect ==
    ASSUME TypeOK, NEW c \in Online, queues[c] # <<>>,
           queues' = [queues EXCEPT ![c] = SubSeq(@, 1, Len(@) - 1)]
    PROVE  Len(queues[c]) \in 1..Len(queues[c]) /\ Removed(c, Len(queues[c]))
<1>1. queues[c] \in Seq(Tasks)
  BY DEF TypeOK
<1> DEFINE n == Len(queues[c])
<1>2. /\ queues'[c] = SubSeq(queues[c], 1, n - 1)
      /\ \A d \in Online \ {c} : queues'[d] = queues[d]
  BY DEF TypeOK
<1>3. n \in Nat /\ n # 0
  BY <1>1, EmptySeq
<1>4. /\ SubSeq(queues[c], 1, n - 1) \in Seq(Tasks)
      /\ Len(SubSeq(queues[c], 1, n - 1)) = n - 1
      /\ \A i \in 1..(n - 1) : SubSeq(queues[c], 1, n - 1)[i] = queues[c][i]
  BY <1>1, <1>3
<1>5. queues' \in [Online -> Seq(Tasks)]
  BY <1>4 DEF TypeOK
<1> QED
  BY <1>2, <1>3, <1>4, <1>5 DEF Removed

(* Every queue position holds a task. *)
LEMMA PositionType ==
    ASSUME TypeOK, NEW c \in Online
    PROVE  Len(queues[c]) \in Nat /\ \A i \in 1..Len(queues[c]) : queues[c][i] \in Tasks
<1>1. queues[c] \in Seq(Tasks)
  BY DEF TypeOK
<1> QED
  BY <1>1, ElementOfSeq, LenProperties

(* A task that is not Runnable and enters a queue, leaving the CPU it may have
   been current on, keeps every task in its place: create_task, wake, yield. *)
LEMMA EnqueueKeepsPlaces ==
    ASSUME Placed, NEW c \in Online, NEW t \in Tasks, NEW r \in Task,
           tasks[t].st # "Runnable", r.st = "Runnable",
           Appended(c, t),
           tasks' = [tasks EXCEPT ![t] = r],
           current' \in [Online -> Tasks \cup {None}],
           \A d \in Online : current'[d] = IF current[d] = t THEN None ELSE current[d]
    PROVE  Placed'
<1>1. TypeOK'
  BY DEF Placed, TypeOK, Appended
<1>2. \A d \in Online : Len(queues[d]) \in Nat /\ Len(queues'[d]) \in Nat
  BY PositionType, LenProperties DEF Placed, Appended
<1>3. \A d \in Online : \A i \in 1..Len(queues[d]) : queues[d][i] \in Tasks \ {t}
  BY PositionType DEF Placed, QueuedIsRunnable
<1>4. \A d \in Online : \A i \in 1..Len(queues'[d]) :
         \/ i \in 1..Len(queues[d]) /\ queues'[d][i] = queues[d][i]
         \/ d = c /\ i = Len(queues[c]) + 1 /\ queues'[d][i] = t
  BY <1>2 DEF Appended
<1>5. \A d \in Online : \A i \in 1..Len(queues[d]) :
         i \in 1..Len(queues'[d]) /\ queues'[d][i] = queues[d][i]
  BY <1>2 DEF Appended
<1>6. NoTwin'
  BY <1>2, <1>3, <1>4, SMTT(40) DEF Placed, NoTwin
<1>7. tasks'[t] = r /\ \A u \in Tasks \ {t} : tasks'[u] = tasks[u]
  BY DEF Placed, TypeOK
<1>8. QueuedIsRunnable'
  BY <1>3, <1>4, <1>7, SMTT(40) DEF Placed, QueuedIsRunnable
<1>9. RunnableIsQueued'
  <2> SUFFICES ASSUME NEW u \in Tasks, tasks'[u].st = "Runnable"
               PROVE  \E d \in Online : \E i \in 1..Len(queues'[d]) : queues'[d][i] = u
    BY DEF RunnableIsQueued
  <2>1. CASE u = t
    <3>1. Len(queues[c]) + 1 \in 1..Len(queues'[c])
      BY <1>2 DEF Appended
    <3> QED
      BY <2>1, <3>1 DEF Appended
  <2>2. CASE u # t
    BY <2>2, <1>5, <1>7 DEF Placed, RunnableIsQueued
  <2> QED
    BY <2>1, <2>2
<1>10. RunningIsCurrent'
  <2> SUFFICES ASSUME NEW u \in Tasks, tasks'[u].st = "Running"
               PROVE  tasks'[u].cpu \in Online /\ current'[tasks'[u].cpu] = u
    BY DEF RunningIsCurrent
  <2>1. u # t /\ tasks'[u] = tasks[u]
    BY <1>7
  <2>2. tasks[u].cpu \in Online /\ current[tasks[u].cpu] = u
    BY <2>1 DEF Placed, RunningIsCurrent
  <2> QED BY <2>1, <2>2
<1>11. CurrentIsRunning'
  BY <1>7, SchedulerAssumption DEF Placed, CurrentIsRunning, TypeOK
<1> QED
  BY <1>1, <1>6, <1>8, <1>9, <1>10, <1>11 DEF Placed

(* A task cut out of a queue and put on an idle CPU: dispatch and steal. *)
LEMMA RunKeepsPlaces ==
    ASSUME Placed, NEW c \in Online, NEW v \in Online, NEW p \in 1..Len(queues[v]),
           current[c] = None, Removed(v, p), Run(c, queues[v][p])
    PROVE  Placed'
<1> DEFINE t == queues[v][p]
<1>1. t \in Tasks /\ tasks[t].st = "Runnable"
  BY PositionType DEF Placed, QueuedIsRunnable
<1>2. /\ tasks' = [tasks EXCEPT ![t].st = "Running", ![t].cpu = c]
      /\ current' = [current EXCEPT ![c] = t]
  BY <1>1 DEF Run
<1>3. /\ tasks'[t].st = "Running" /\ tasks'[t].cpu = c
      /\ tasks'[t] \in Task
      /\ \A u \in Tasks \ {t} : tasks'[u] = tasks[u]
  <2>1. tasks \in [Tasks -> Task] /\ tasks[t] \in Task /\ c \in Cpus
    BY <1>1, SchedulerAssumption DEF Placed, TypeOK
  <2>2. tasks' = [tasks EXCEPT ![t] = [tasks[t] EXCEPT !.st = "Running", !.cpu = c]]
    BY <1>2
  <2>3. [tasks[t] EXCEPT !.st = "Running", !.cpu = c] \in Task
    BY <2>1 DEF Task, States
  <2> QED
    BY <1>1, <2>1, <2>2, <2>3 DEF Task
<1>4. current'[c] = t /\ \A d \in Online \ {c} : current'[d] = current[d]
  BY <1>2 DEF Placed, TypeOK
<1>5. TypeOK'
  BY <1>1, <1>2, <1>3 DEF Placed, TypeOK, Removed
<1>6. \A d \in Online : Len(queues[d]) \in Nat /\ Len(queues'[d]) \in Nat
  BY PositionType, LenProperties DEF Placed, Removed
<1>v. /\ p \in 1..Len(queues[v]) /\ Len(queues'[v]) = Len(queues[v]) - 1
      /\ \A i \in 1..Len(queues'[v]) : i < p => queues'[v][i] = queues[v][i]
      /\ \A i \in 1..Len(queues'[v]) : ~(i < p) => queues'[v][i] = queues[v][i + 1]
      /\ \A d \in Online \ {v} : queues'[d] = queues[d]
  BY DEF Removed
<1> DEFINE src(d, i) == IF d = v /\ ~(i < p) THEN i + 1 ELSE i
<1>7. \A d \in Online : \A i \in 1..Len(queues'[d]) :
         /\ src(d, i) \in 1..Len(queues[d])
         /\ queues'[d][i] = queues[d][src(d, i)]
         /\ d = v => src(d, i) # p
  <2> TAKE d \in Online
  <2> TAKE i \in 1..Len(queues'[d])
  <2>1. CASE d # v
    BY <2>1, <1>v
  <2>2. CASE d = v /\ i < p
    BY <2>2, <1>6, <1>v
  <2>3. CASE d = v /\ ~(i < p)
    <3>1. i + 1 \in 1..Len(queues[d]) /\ i + 1 # p
      BY <2>3, <1>6, <1>v
    <3> QED BY <2>3, <3>1, <1>v
  <2> QED
    BY <2>1, <2>2, <2>3
<1>8. NoTwin'
  <2> SUFFICES ASSUME NEW d \in Online, NEW e \in Online,
                      NEW i \in 1..Len(queues'[d]), NEW j \in 1..Len(queues'[e]),
                      queues'[d][i] = queues'[e][j]
               PROVE  d = e /\ i = j
    BY DEF NoTwin
  <2>1. d = e /\ src(d, i) = src(e, j)
    <3> HIDE DEF src
    <3>1. /\ src(d, i) \in 1..Len(queues[d]) /\ src(e, j) \in 1..Len(queues[e])
          /\ queues[d][src(d, i)] = queues[e][src(e, j)]
      BY <1>7
    <3> QED BY <3>1 DEF Placed, NoTwin
  <2> QED
    BY <2>1, <1>6
<1>9. \A d \in Online : \A i \in 1..Len(queues'[d]) : queues'[d][i] \in Tasks \ {t}
  <2> HIDE DEF src
  <2> TAKE d \in Online
  <2> TAKE i \in 1..Len(queues'[d])
  <2>1. queues[d][src(d, i)] \in Tasks /\ src(d, i) \in 1..Len(queues[d])
    BY <1>7, PositionType DEF Placed
  <2>2. queues[d][src(d, i)] # queues[v][p]
    BY <2>1, <1>7 DEF Placed, NoTwin
  <2> QED
    BY <1>7, <2>1, <2>2
<1>10. QueuedIsRunnable'
  <2> SUFFICES ASSUME NEW d \in Online, NEW i \in 1..Len(queues'[d])
               PROVE  tasks'[queues'[d][i]].st = "Runnable"
    BY DEF QueuedIsRunnable
  <2> HIDE DEF src
  <2>1. /\ queues'[d][i] = queues[d][src(d, i)]
        /\ tasks[queues[d][src(d, i)]].st = "Runnable"
    BY <1>7 DEF Placed, QueuedIsRunnable
  <2> QED
    BY <2>1, <1>3, <1>9
<1>11. RunnableIsQueued'
  <2> SUFFICES ASSUME NEW u \in Tasks, tasks'[u].st = "Runnable"
               PROVE  \E d \in Online : \E i \in 1..Len(queues'[d]) : queues'[d][i] = u
    BY DEF RunnableIsQueued
  <2>1. u # t /\ tasks[u].st = "Runnable"
    BY <1>3
  <2>a. PICK d \in Online : \E k \in 1..Len(queues[d]) : queues[d][k] = u
    BY <2>1 DEF Placed, RunnableIsQueued
  <2>2. PICK k \in 1..Len(queues[d]) : queues[d][k] = u
    BY <2>a
  <2>3. CASE d # v
    BY <2>2, <2>3 DEF Removed
  <2>4. CASE d = v /\ k < p
    <3>1. k \in 1..Len(queues'[d])
      BY <2>4, <1>6, <1>v
    <3>2. queues'[d][k] = u
      BY <2>2, <2>4, <3>1, <1>v
    <3> QED BY <3>1, <3>2
  <2>5. CASE d = v /\ k > p
    <3>1. k - 1 \in 1..Len(queues'[d]) /\ ~(k - 1 < p) /\ (k - 1) + 1 = k
      BY <2>5, <1>6, <1>v
    <3>2. queues'[d][k - 1] = u
      BY <2>2, <2>5, <3>1, <1>v
    <3> QED BY <3>1, <3>2
  <2>6. ~(d = v /\ k = p)
    BY <2>1, <2>2
  <2> QED
    BY <2>3, <2>4, <2>5, <2>6, <1>6
<1>12. RunningIsCurrent'
  <2> SUFFICES ASSUME NEW u \in Tasks, tasks'[u].st = "Running"
               PROVE  tasks'[u].cpu \in Online /\ current'[tasks'[u].cpu] = u
    BY DEF RunningIsCurrent
  <2>1. CASE u = t
    BY <2>1, <1>3, <1>4
  <2>2. CASE u # t
    <3>1. tasks[u].cpu \in Online /\ current[tasks[u].cpu] = u
      BY <2>2, <1>3 DEF Placed, RunningIsCurrent
    <3> QED BY <2>2, <3>1, <1>3, <1>4, SchedulerAssumption
  <2> QED BY <2>1, <2>2
<1>13. CurrentIsRunning'
  <2> SUFFICES ASSUME NEW d \in Online, current'[d] # None
               PROVE  tasks'[current'[d]].st = "Running" /\ tasks'[current'[d]].cpu = d
    BY DEF CurrentIsRunning
  <2>1. CASE d = c
    BY <2>1, <1>3, <1>4
  <2>2. CASE d # c
    <3>1. /\ current'[d] = current[d] /\ current[d] \in Tasks
          /\ tasks[current[d]].st = "Running" /\ tasks[current[d]].cpu = d
      BY <2>2, <1>4 DEF Placed, CurrentIsRunning, TypeOK
    <3> QED BY <3>1, <1>1, <1>3
  <2> QED BY <2>1, <2>2
<1> QED
  BY <1>5, <1>8, <1>10, <1>11, <1>12, <1>13 DEF Placed

(* A task that leaves its CPU without entering a queue: block, exit. *)
LEMMA LeaveKeepsPlaces ==
    ASSUME Placed, NEW c \in Online, NEW st \in {"Blocked", "Exited"},
           current[c] # None, UNCHANGED queues, Take(c),
           tasks' = [tasks EXCEPT ![current[c]].st = st, ![current[c]].cpu = None]
    PROVE  Placed'
<1> DEFINE t == current[c]
<1>1. t \in Tasks /\ tasks[t].st = "Running" /\ tasks[t].cpu = c
  BY DEF Placed, TypeOK, CurrentIsRunning
<1>2. /\ tasks'[t].st = st /\ tasks'[t] \in Task
      /\ \A u \in Tasks \ {t} : tasks'[u] = tasks[u]
  <2>1. tasks \in [Tasks -> Task] /\ tasks[t] \in Task
    BY <1>1 DEF Placed, TypeOK
  <2>2. tasks' = [tasks EXCEPT ![t] = [tasks[t] EXCEPT !.st = st, !.cpu = None]]
    OBVIOUS
  <2>3. [tasks[t] EXCEPT !.st = st, !.cpu = None] \in Task
    BY <2>1 DEF Task, States
  <2>4. [tasks[t] EXCEPT !.st = st, !.cpu = None].st = st
    BY <2>1 DEF Task
  <2> QED
    BY <1>1, <2>1, <2>2, <2>3, <2>4
<1>3. current'[c] = None /\ \A d \in Online \ {c} : current'[d] = current[d]
  BY DEF Take, Placed, TypeOK
<1>4. TypeOK'
  BY <1>1, <1>2 DEF Placed, TypeOK, Take
<1>5. \A d \in Online : \A i \in 1..Len(queues[d]) : queues[d][i] \in Tasks \ {t}
  BY <1>1, PositionType DEF Placed, QueuedIsRunnable
<1>6. NoTwin'
  BY DEF Placed, NoTwin
<1>7. QueuedIsRunnable'
  <2> SUFFICES ASSUME NEW d \in Online, NEW i \in 1..Len(queues[d])
               PROVE  tasks'[queues[d][i]].st = "Runnable"
    BY DEF QueuedIsRunnable
  <2>1. tasks[queues[d][i]].st = "Runnable" /\ queues[d][i] \in Tasks \ {t}
    BY <1>5 DEF Placed, QueuedIsRunnable
  <2> QED BY <2>1, <1>2
<1>8. RunnableIsQueued'
  <2> SUFFICES ASSUME NEW u \in Tasks, tasks'[u].st = "Runnable"
               PROVE  \E d \in Online : \E i \in 1..Len(queues[d]) : queues[d][i] = u
    BY DEF RunnableIsQueued
  <2>1. tasks[u].st = "Runnable"
    BY <1>2
  <2> QED
    BY <2>1 DEF Placed, RunnableIsQueued
<1>9. RunningIsCurrent'
  <2> SUFFICES ASSUME NEW u \in Tasks, tasks'[u].st = "Running"
               PROVE  tasks'[u].cpu \in Online /\ current'[tasks'[u].cpu] = u
    BY DEF RunningIsCurrent
  <2>1. u # t /\ tasks'[u] = tasks[u]
    BY <1>2
  <2>2. tasks[u].cpu \in Online /\ current[tasks[u].cpu] = u
    BY <2>1 DEF Placed, RunningIsCurrent
  <2> QED BY <2>1, <2>2, <1>3
<1>10. CurrentIsRunning'
  <2> SUFFICES ASSUME NEW d \in Online, current'[d] # None
               PROVE  tasks'[current'[d]].st = "Running" /\ tasks'[current'[d]].cpu = d
    BY DEF CurrentIsRunning
  <2>1. /\ d # c /\ current'[d] = current[d] /\ current[d] \in Tasks
        /\ tasks[current[d]].st = "Running" /\ tasks[current[d]].cpu = d
    BY <1>3 DEF Placed, CurrentIsRunning, TypeOK
  <2> QED BY <2>1, <1>1, <1>2
<1> QED
  BY <1>4, <1>6, <1>7, <1>8, <1>9, <1>10 DEF Placed

(* Of a task current on its CPU, yield_current, block_current and exit_current
   find nothing wrong. *)
LEMMA LeaveErrorPlaced ==
    ASSUME Placed, NEW c \in Cpus
    PROVE  LeaveError(c) = IF c \notin Online THEN "UnknownCpu"
                           ELSE IF current[c] = None THEN "WrongState" ELSE "Ok"
BY DEF LeaveError, Placed, CurrentIsRunning

LEMMA StutterKeepsPlaces == Placed /\ UNCHANGED vars => Placed'
BY DEF Placed, vars, TypeOK, NoTwin, QueuedIsRunnable, RunnableIsQueued,
       RunningIsCurrent, CurrentIsRunning

LEMMA DispatchKeepsPlaces ==
    ASSUME Placed, NEW cpu \in Cpus, Dispatch(cpu)
    PROVE  Placed'
<1>1. CASE UNCHANGED vars
  BY <1>1, StutterKeepsPlaces
<1>2. CASE cpu \in Online /\ current[cpu] = None /\ queues[cpu] # <<>> /\ RunLocal(cpu)
  <2>1. /\ 1 \in 1..Len(queues[cpu]) /\ Removed(cpu, 1)
        /\ Run(cpu, queues[cpu][1])
    BY <1>2, TailEffect DEF RunLocal, Placed
  <2> QED
    BY <1>2, <2>1, RunKeepsPlaces
<1>3. CASE /\ cpu \in Online /\ current[cpu] = None
           /\ \E v \in Victims(cpu) : StealFrom(cpu, v)
  <2>1. PICK v \in Victims(cpu) : StealFrom(cpu, v)
    BY <1>3
  <2>2. v \in Online /\ queues[v] # <<>>
    BY DEF Victims
  <2>3. /\ Len(queues[v]) \in 1..Len(queues[v]) /\ Removed(v, Len(queues[v]))
        /\ Run(cpu, queues[v][Len(queues[v])])
    BY <2>1, <2>2, FrontEffect DEF StealFrom, Placed
  <2> QED
    BY <1>3, <2>2, <2>3, RunKeepsPlaces
<1> QED
  BY <1>1, <1>2, <1>3 DEF Dispatch, Refuse

LEMMA YieldKeepsPlaces ==
    ASSUME Placed, NEW cpu \in Cpus, Yield(cpu)
    PROVE  Placed'
<1>1. CASE UNCHANGED vars
  BY <1>1, StutterKeepsPlaces
<1>2. CASE cpu \in Online /\ current[cpu] # None
  <2> DEFINE t == current[cpu]
             r == [Runnable(tasks[t]) EXCEPT !.generation = @ + 1]
  <2>1. /\ t \in Tasks /\ tasks[t].st = "Running" /\ tasks[t].cpu = cpu
        /\ tasks[t] \in Task
    BY <1>2 DEF Placed, TypeOK, CurrentIsRunning
  <2>2. tasks[t].generation \in Nat /\ tasks[t].generation < MaxGeneration
    BY <1>2, <2>1, SchedulerAssumption DEF Yield, MayYield, Task
  <2>3. LeaveError(cpu) = "Ok"
    BY <1>2, LeaveErrorPlaced
  <2>4. /\ Take(cpu)
        /\ tasks' = [tasks EXCEPT ![t] = r]
        /\ queues' = [queues EXCEPT ![cpu] = Append(@, t)]
    BY <2>2, <2>3 DEF Yield, YieldCurrent
  <2>5. r \in Task /\ r.st = "Runnable" /\ tasks' = [tasks EXCEPT ![t] = r]
    <3>1. Runnable(tasks[t]) \in Task /\ Runnable(tasks[t]).st = "Runnable"
      BY <2>1, SchedulerAssumption DEF Runnable, Task, States
    <3>2. Runnable(tasks[t]).generation = tasks[t].generation
      BY <2>1 DEF Runnable, Task
    <3>3. r \in Task /\ r.st = "Runnable"
      BY <2>2, <3>1, <3>2, SchedulerAssumption DEF Task, States
    <3> QED BY <3>3, <2>4
  <2>6. Appended(cpu, t)
    BY <1>2, <2>1, <2>4, AppendedEffect DEF Placed
  <2>7. /\ current' \in [Online -> Tasks \cup {None}]
        /\ \A d \in Online : current'[d] = IF current[d] = t THEN None ELSE current[d]
    BY <1>2, <2>1, <2>4 DEF Take, Placed, TypeOK, CurrentIsRunning
  <2> HIDE DEF r
  <2> QED
    BY <1>2, <2>1, <2>5, <2>6, <2>7, EnqueueKeepsPlaces
<1> QED
  BY <1>1, <1>2, LeaveErrorPlaced DEF Yield, YieldCurrent, Refuse

LEMMA LeavingKeepsPlaces ==
    ASSUME Placed, NEW cpu \in Cpus, BlockCurrent(cpu) \/ ExitCurrent(cpu)
    PROVE  Placed'
<1>1. CASE UNCHANGED vars
  BY <1>1, StutterKeepsPlaces
<1>2. CASE cpu \in Online /\ current[cpu] # None
  <2>1. LeaveError(cpu) = "Ok"
    BY <1>2, LeaveErrorPlaced
  <2>2. PICK st \in {"Blocked", "Exited"} : Leave(cpu, st)
    BY DEF BlockCurrent, ExitCurrent
  <2>3. /\ Take(cpu) /\ UNCHANGED queues
        /\ tasks' = [tasks EXCEPT ![current[cpu]].st = st, ![current[cpu]].cpu = None]
    BY <2>1, <2>2 DEF Leave
  <2> QED
    BY <1>2, <2>3, LeaveKeepsPlaces
<1> QED
  BY <1>1, <1>2, LeaveErrorPlaced DEF BlockCurrent, ExitCurrent, Leave, Refuse

(* create_task and wake put a task that is in no place into one queue. *)
LEMMA ArrivalKeepsPlaces ==
    ASSUME Placed, NEW cpu \in Cpus, NEW task \in Tasks,
           CreateTask(task, cpu) \/ Wake(task, cpu)
    PROVE  Placed'
<1>1. CASE UNCHANGED vars
  BY <1>1, StutterKeepsPlaces
<1>2. CASE /\ cpu \in Online /\ tasks[task].st \in {"Absent", "Blocked"}
           /\ tasks' = [tasks EXCEPT ![task] = Runnable(@)]
           /\ queues' = [queues EXCEPT ![cpu] = Append(@, task)]
           /\ UNCHANGED current
  <2> DEFINE r == Runnable(tasks[task])
  <2>1. r \in Task /\ r.st = "Runnable" /\ tasks' = [tasks EXCEPT ![task] = r]
    BY <1>2 DEF Runnable, Placed, TypeOK, Task, States
  <2>2. Appended(cpu, task)
    BY <1>2, AppendedEffect DEF Placed
  <2>3. /\ current' \in [Online -> Tasks \cup {None}]
        /\ \A d \in Online :
              current'[d] = IF current[d] = task THEN None ELSE current[d]
    BY <1>2, SchedulerAssumption DEF Placed, TypeOK, CurrentIsRunning
  <2> HIDE DEF r
  <2> QED
    BY <1>2, <2>1, <2>2, <2>3, EnqueueKeepsPlaces
<1> QED
  BY <1>1, <1>2 DEF CreateTask, Wake, WakeError, Refuse

LEMMA NextKeepsPlaces == Placed /\ [Next]_vars => Placed'
<1> SUFFICES ASSUME Placed, [Next]_vars PROVE Placed'
  OBVIOUS
<1>1. CASE UNCHANGED vars
  BY <1>1, StutterKeepsPlaces
<1>2. CASE Next
  <2>1. PICK cpu \in Cpus :
           \/ Dispatch(cpu) \/ Yield(cpu) \/ BlockCurrent(cpu) \/ ExitCurrent(cpu)
           \/ \E task \in Tasks : CreateTask(task, cpu) \/ Wake(task, cpu)
    BY <1>2 DEF Next
  <2> QED
    BY <2>1, DispatchKeepsPlaces, YieldKeepsPlaces, LeavingKeepsPlaces,
       ArrivalKeepsPlaces
<1> QED
  BY <1>1, <1>2

LEMMA InitPlaces == Init => Placed
<1> SUFFICES ASSUME Init PROVE Placed
  OBVIOUS
<1>1. \A c \in Online : queues[c] = <<>> /\ Len(queues[c]) = 0
  BY EmptySeq DEF Init
<1>2. TypeOK
  BY EmptySeq, SchedulerAssumption DEF Init, TypeOK, Task, States, NoTask
<1> QED
  BY <1>1, <1>2 DEF Placed, Init, NoTwin, QueuedIsRunnable, RunnableIsQueued,
                    RunningIsCurrent, CurrentIsRunning, NoTask

(* A queue without twins is no longer than there are tasks. *)
LEMMA QueueBounded ==
    ASSUME Placed, NEW c \in Online
    PROVE  Len(queues[c]) <= Cardinality(Tasks)
<1> DEFINE n == Len(queues[c])
           f == [i \in 1..n |-> queues[c][i]]
<1>1. n \in Nat /\ f \in [1..n -> Tasks]
  BY PositionType DEF Placed
<1>2. f \in Injection(1..n, Tasks)
  BY <1>1 DEF Placed, NoTwin, Injection, IsInjective
<1>3. Cardinality(1..n) <= Cardinality(Tasks)
  <2> HIDE DEF f, n
  <2> QED BY <1>2, FS_Injection, SchedulerAssumption
<1>4. Cardinality(1..n) = n
  <2> HIDE DEF f, n
  <2>1. n \in Nat /\ n \in Int /\ 1 \in Int
    BY <1>1
  <2>2. Cardinality(1..n) = IF 1 > n THEN 0 ELSE n - 1 + 1
    BY <2>1, FS_Interval, Zenon
  <2> QED BY <2>1, <2>2
<1> QED
  BY <1>3, <1>4

(* The places as a set of pairs: what UniqueOwnership counts. *)
LEMMA PlacedIsOwned == Placed => UniqueOwnership
<1> SUFFICES ASSUME Placed PROVE UniqueOwnership
  OBVIOUS
<1>1. \A c \in Online : Len(queues[c]) <= Cardinality(Tasks) /\ Len(queues[c]) \in Nat
  BY QueueBounded, PositionType DEF Placed
<1>2. Cardinality(Tasks) \in Nat
  BY SchedulerAssumption, FS_CardinalityType
<1>3. ASSUME NEW t \in Tasks
      PROVE  Cardinality(QueuePlaces(t)) = IF tasks[t].st = "Runnable" THEN 1 ELSE 0
  <2>1. CASE tasks[t].st = "Runnable"
    <3>1. PICK c \in Online : \E i \in 1..Len(queues[c]) : queues[c][i] = t
      BY <2>1 DEF Placed, RunnableIsQueued
    <3>2. PICK i \in 1..Len(queues[c]) : queues[c][i] = t
      BY <3>1
    <3>3. <<c, i>> \in QueuePlaces(t)
      BY <1>1, <1>2, <3>2 DEF QueuePlaces
    <3>4. ASSUME NEW p \in QueuePlaces(t) PROVE p = <<c, i>>
      <4>1. /\ p = <<p[1], p[2]>> /\ p[1] \in Online
            /\ p[2] \in 1..Len(queues[p[1]]) /\ queues[p[1]][p[2]] = t
        BY <1>1, <1>2 DEF QueuePlaces
      <4>2. p[1] = c /\ p[2] = i
        BY <3>2, <4>1 DEF Placed, NoTwin
      <4> QED BY <4>1, <4>2
    <3>5. QueuePlaces(t) = {<<c, i>>}
      BY <3>3, <3>4
    <3> QED BY <2>1, <3>5, FS_Singleton
  <2>2. CASE tasks[t].st # "Runnable"
    <3>1. QueuePlaces(t) = {}
      BY <1>1, <1>2, <2>2 DEF QueuePlaces, Placed, QueuedIsRunnable
    <3> QED BY <2>2, <3>1, FS_EmptySet
  <2> QED BY <2>1, <2>2
<1>4. ASSUME NEW t \in Tasks
      PROVE  CpuPlaces(t) = IF tasks[t].st = "Running" THEN {tasks[t].cpu} ELSE {}
  <2>1. t # None
    BY SchedulerAssumption
  <2>2. \A c \in Online : current[c] = t <=> tasks[t].st = "Running" /\ tasks[t].cpu = c
    BY <2>1 DEF Placed, RunningIsCurrent, CurrentIsRunning
  <2>3. tasks[t].st = "Running" => tasks[t].cpu \in Online
    BY DEF Placed, RunningIsCurrent
  <2>4. CASE tasks[t].st = "Running"
    BY <2>2, <2>3, <2>4 DEF CpuPlaces
  <2>5. CASE tasks[t].st # "Running"
    BY <2>2, <2>5 DEF CpuPlaces
  <2> QED BY <2>4, <2>5
<1> QED
  BY <1>1, <1>3, <1>4 DEF UniqueOwnership

(* Scheduler::invariant_holds is an invariant of every sequence of calls:
   whatever CPUs and tasks there are, no dispatch, steal, yield, wake, block or
   exit duplicates or loses a task. *)
THEOREM SchedulerOwnership == Spec => []UniqueOwnership
<1>1. Init => Placed
  BY InitPlaces
<1>2. Placed /\ [Next]_vars => Placed'
  BY NextKeepsPlaces
<1>3. Placed => UniqueOwnership
  BY PlacedIsOwned
<1> QED
  BY <1>1, <1>2, <1>3, PTL DEF Spec

(* The scheduler's maps keep their ranges. *)
THEOREM SchedulerTypes == Spec => []TypeOK
<1>1. Init => Placed
  BY InitPlaces
<1>2. Placed /\ [Next]_vars => Placed'
  BY NextKeepsPlaces
<1>3. Placed => TypeOK
  BY DEF Placed
<1> QED
  BY <1>1, <1>2, <1>3, PTL DEF Spec

-----------------------------------------------------------------------------
(***************************************************************************)
(* The SMP state.                                                          *)
(***************************************************************************)

(* Nothing is pending under an epoch that has not been handed out. *)
EpochsHandedOut ==
    \A e \in Epochs :
        /\ ipis[e] # NoEpoch => e <= nextIpiEpoch
        /\ shootdowns[e] # NoEpoch => e <= nextShootdownEpoch

SmpIInv == SmpTypeOK /\ EpochsHandedOut

(* An epoch about to be handed out is an epoch, and newer than all pending. *)
LEMMA NextEpoch ==
    ASSUME SmpIInv
    PROVE  /\ nextIpiEpoch # MaxEpoch => nextIpiEpoch + 1 \in Epochs
           /\ nextShootdownEpoch # MaxEpoch => nextShootdownEpoch + 1 \in Epochs
BY SmpAssumption DEF SmpIInv, SmpTypeOK, Epochs

LEMMA BegunType ==
    ASSUME NEW targets \in SUBSET SmpCpus
    PROVE  Begun(targets) \in Pending /\ Begun(targets) # NoEpoch
BY SmpAssumption DEF Begun, Pending

(* An acknowledgement that is accepted comes from a target of the newest pending
   epoch and adds that CPU to it; any other changes nothing. *)
LEMMA AcknowledgeEffect ==
    ASSUME NEW pending \in [Epochs -> Pending \cup {NoEpoch}],
           NEW epoch \in Epochs, NEW cpu \in SmpCpus, NEW next,
           Acknowledge(pending, next, epoch, cpu)
    PROVE  /\ next \in [Epochs -> Pending \cup {NoEpoch}]
           /\ \/ next = pending
              \/ /\ pending[epoch] # NoEpoch /\ next[epoch] # NoEpoch
                 /\ cpu \in pending[epoch].targets
                 /\ next[epoch].targets = pending[epoch].targets
                 /\ next[epoch].acknowledgements =
                       pending[epoch].acknowledgements \cup {cpu}
                 /\ \A e \in Epochs : epoch < e => pending[e] = NoEpoch
                 /\ \A e \in Epochs \ {epoch} : next[e] = pending[e]
<1>1. CASE AcknowledgeError(pending, epoch, cpu) = "Ok"
  <2>1. /\ pending[epoch] # NoEpoch /\ cpu \in pending[epoch].targets
        /\ \A e \in Epochs : epoch < e => pending[e] = NoEpoch
    BY <1>1 DEF AcknowledgeError, PendingEpochs
  <2>2. pending[epoch] \in Pending
    BY <2>1
  <2>3. /\ Acknowledged(pending[epoch], cpu) \in Pending
        /\ Acknowledged(pending[epoch], cpu).targets = pending[epoch].targets
        /\ Acknowledged(pending[epoch], cpu).acknowledgements =
              pending[epoch].acknowledgements \cup {cpu}
    BY <2>2 DEF Acknowledged, Pending
  <2>4. next = [pending EXCEPT ![epoch] = Acknowledged(pending[epoch], cpu)]
    BY <1>1 DEF Acknowledge
  <2>5. Acknowledged(pending[epoch], cpu) # NoEpoch
    BY <2>3, SmpAssumption
  <2> QED
    BY <2>1, <2>3, <2>4, <2>5
<1>2. CASE AcknowledgeError(pending, epoch, cpu) # "Ok"
  BY <1>2 DEF Acknowledge
<1> QED
  BY <1>1, <1>2

LEMMA SmpInitIInv == SmpInit => SmpIInv
BY SmpAssumption DEF SmpInit, SmpIInv, SmpTypeOK, EpochsHandedOut, Epochs

LEMMA SmpNextIInv == SmpIInv /\ [SmpNext]_smpVars => SmpIInv'
<1> SUFFICES ASSUME SmpIInv, [SmpNext]_smpVars PROVE SmpIInv'
  OBVIOUS
<1> USE SmpAssumption
<1>1. ASSUME NEW cpu \in SmpCpus, Discover(cpu) PROVE SmpIInv'
  BY <1>1 DEF Discover, epochVars, SmpIInv, SmpTypeOK, EpochsHandedOut, Lifecycle
<1>2. ASSUME NEW cpu \in SmpCpus, NEW next \in Lifecycle, Transition(cpu, next)
      PROVE SmpIInv'
  BY <1>2 DEF Transition, epochVars, SmpIInv, SmpTypeOK, EpochsHandedOut
<1>3. ASSUME NEW targets \in SUBSET SmpCpus, BeginIpi(targets) PROVE SmpIInv'
  <2>1. CASE BeginIpiError(targets) # "Ok"
    BY <1>3, <2>1 DEF BeginIpi, SmpIInv, SmpTypeOK, EpochsHandedOut
  <2>2. CASE BeginIpiError(targets) = "Ok"
    <3>1. nextIpiEpoch # MaxEpoch
      BY <2>2 DEF BeginIpiError
    <3>2. nextIpiEpoch' = nextIpiEpoch + 1 /\ nextIpiEpoch' \in Epochs
      BY <1>3, <2>2, <3>1, NextEpoch DEF BeginIpi
    <3> QED
      BY <1>3, <2>2, <3>2, BegunType
      DEF BeginIpi, SmpIInv, SmpTypeOK, EpochsHandedOut, Epochs
  <2> QED BY <2>1, <2>2
<1>4. ASSUME BeginShootdown PROVE SmpIInv'
  <2>1. CASE nextShootdownEpoch = MaxEpoch
    BY <1>4, <2>1 DEF BeginShootdown, SmpIInv, SmpTypeOK, EpochsHandedOut
  <2>2. CASE nextShootdownEpoch # MaxEpoch
    <3>1. /\ nextShootdownEpoch' = nextShootdownEpoch + 1
          /\ nextShootdownEpoch' \in Epochs
      BY <1>4, <2>2, NextEpoch DEF BeginShootdown
    <3>2. Begun(OnlineCpus) \in Pending
      BY BegunType DEF OnlineCpus
    <3> QED
      BY <1>4, <2>2, <3>1, <3>2
      DEF BeginShootdown, SmpIInv, SmpTypeOK, EpochsHandedOut, Epochs
  <2> QED BY <2>1, <2>2
<1>5. ASSUME NEW epoch \in Epochs, NEW cpu \in SmpCpus, AcknowledgeIpi(epoch, cpu)
      PROVE SmpIInv'
  <2>1. Acknowledge(ipis, ipis', epoch, cpu)
    BY <1>5 DEF AcknowledgeIpi
  <2>2. /\ ipis' \in [Epochs -> Pending \cup {NoEpoch}]
        /\ \A e \in Epochs : ipis'[e] # NoEpoch => ipis[e] # NoEpoch
    BY <2>1, AcknowledgeEffect DEF SmpIInv, SmpTypeOK
  <2> QED
    BY <1>5, <2>2 DEF AcknowledgeIpi, SmpIInv, SmpTypeOK, EpochsHandedOut
<1>6. ASSUME NEW epoch \in Epochs, NEW cpu \in SmpCpus,
             AcknowledgeShootdown(epoch, cpu)
      PROVE SmpIInv'
  <2>1. Acknowledge(shootdowns, shootdowns', epoch, cpu)
    BY <1>6 DEF AcknowledgeShootdown
  <2>2. /\ shootdowns' \in [Epochs -> Pending \cup {NoEpoch}]
        /\ \A e \in Epochs : shootdowns'[e] # NoEpoch => shootdowns[e] # NoEpoch
    BY <2>1, AcknowledgeEffect DEF SmpIInv, SmpTypeOK
  <2> QED
    BY <1>6, <2>2 DEF AcknowledgeShootdown, SmpIInv, SmpTypeOK, EpochsHandedOut
<1>7. ASSUME NEW epoch \in Epochs, CompleteShootdown(epoch) PROVE SmpIInv'
  BY <1>7 DEF CompleteShootdown, SmpIInv, SmpTypeOK, EpochsHandedOut
<1>8. CASE UNCHANGED smpVars
  BY <1>8 DEF smpVars, SmpIInv, SmpTypeOK, EpochsHandedOut
<1> QED
  BY <1>1, <1>2, <1>3, <1>4, <1>5, <1>6, <1>7, <1>8 DEF SmpNext

(* The SMP maps and epoch counters keep their ranges. *)
THEOREM SmpTypes == SmpSpec => []SmpTypeOK
<1>1. SmpIInv => SmpTypeOK
  BY DEF SmpIInv
<1> QED
  BY <1>1, SmpInitIInv, SmpNextIInv, PTL DEF SmpSpec

(* While a newer epoch is pending, no step changes what an older one waits for:
   the new epoch of a begin is newer than all pending ones, and an
   acknowledgement is taken for the newest pending epoch only. *)
LEMMA SmpNextStandsStill == SmpIInv /\ [SmpNext]_smpVars => [OlderStandsStill]_smpVars
<1> SUFFICES ASSUME SmpIInv, SmpNext,
                    NEW e \in Epochs, NEW newer \in Epochs, e < newer
             PROVE  /\ ipis[newer] # NoEpoch => ipis'[e] = ipis[e]
                    /\ shootdowns[e] # NoEpoch /\ shootdowns'[e] # NoEpoch
                         /\ shootdowns[newer] # NoEpoch => shootdowns'[e] = shootdowns[e]
  BY DEF OlderStandsStill
<1> USE SmpAssumption
<1>0. e \in Nat /\ newer \in Nat /\ nextIpiEpoch \in Nat /\ nextShootdownEpoch \in Nat
  BY DEF SmpIInv, SmpTypeOK, Epochs
<1>1. CASE \E cpu \in SmpCpus : (Rediscover \/ cpus[cpu] = "Unknown") /\ Discover(cpu)
  BY <1>1 DEF Discover, epochVars
<1>2. CASE \E cpu \in SmpCpus, next \in Lifecycle : Transition(cpu, next)
  BY <1>2 DEF Transition, epochVars
<1>3. CASE \E targets \in SUBSET SmpCpus : BeginIpi(targets)
  <2>1. PICK targets \in SUBSET SmpCpus : BeginIpi(targets)
    BY <1>3
  <2>2. ipis[newer] # NoEpoch => e # nextIpiEpoch + 1
    BY <1>0 DEF SmpIInv, EpochsHandedOut
  <2> QED
    BY <2>1, <2>2 DEF BeginIpi, SmpIInv, SmpTypeOK
<1>4. CASE BeginShootdown
  <2>1. shootdowns[newer] # NoEpoch => e # nextShootdownEpoch + 1
    BY <1>0 DEF SmpIInv, EpochsHandedOut
  <2> QED
    BY <1>4, <2>1 DEF BeginShootdown, SmpIInv, SmpTypeOK
<1>5. ASSUME NEW epoch \in Epochs, NEW cpu \in SmpCpus, AcknowledgeIpi(epoch, cpu)
      PROVE  ipis[newer] # NoEpoch => ipis'[e] = ipis[e]
  <2>1. Acknowledge(ipis, ipis', epoch, cpu)
    BY <1>5 DEF AcknowledgeIpi
  <2> QED
    BY <2>1, AcknowledgeEffect DEF SmpIInv, SmpTypeOK
<1>6. ASSUME NEW epoch \in Epochs, NEW cpu \in SmpCpus,
             AcknowledgeShootdown(epoch, cpu)
      PROVE  shootdowns[newer] # NoEpoch => shootdowns'[e] = shootdowns[e]
  <2>1. Acknowledge(shootdowns, shootdowns', epoch, cpu)
    BY <1>6 DEF AcknowledgeShootdown
  <2> QED
    BY <2>1, AcknowledgeEffect DEF SmpIInv, SmpTypeOK
<1>7. CASE \E epoch \in Epochs, cpu \in SmpCpus :
             AcknowledgeIpi(epoch, cpu) \/ AcknowledgeShootdown(epoch, cpu)
  BY <1>5, <1>6, <1>7 DEF AcknowledgeIpi, AcknowledgeShootdown
<1>8. CASE \E epoch \in Epochs : CompleteShootdown(epoch)
  BY <1>8 DEF CompleteShootdown, SmpIInv, SmpTypeOK
<1> QED
  BY <1>1, <1>2, <1>3, <1>4, <1>7, <1>8 DEF SmpNext

(* SmpState::acknowledge_ipi, acknowledge_shootdown: a late acknowledgement never
   counts for a superseded epoch while a newer one is pending, whatever the CPUs,
   the epochs and the order of the calls. *)
THEOREM SmpSuperseded == SmpSpec => SupersededStandsStill
BY SmpInitIInv, SmpNextIInv, SmpNextStandsStill, PTL DEF SmpSpec, SupersededStandsStill

(* A CPU that is online stays online while no known CPU is discovered again. *)
LEMMA OnlineStays ==
    ASSUME SmpIInv, ~Rediscover, [SmpNext]_smpVars
    PROVE  OnlineCpus \subseteq OnlineCpus'
<1>1. ASSUME NEW cpu \in SmpCpus, cpus[cpu] = "Unknown", Discover(cpu)
      PROVE  OnlineCpus \subseteq OnlineCpus'
  BY <1>1 DEF Discover, OnlineCpus, SmpIInv, SmpTypeOK
<1>2. ASSUME NEW cpu \in SmpCpus, NEW next \in Lifecycle, Transition(cpu, next)
      PROVE  OnlineCpus \subseteq OnlineCpus'
  BY <1>2 DEF Transition, Legal, OnlineCpus, SmpIInv, SmpTypeOK
<1>3. CASE UNCHANGED cpus
  BY <1>3 DEF OnlineCpus
<1> QED
  BY <1>1, <1>2, <1>3 DEF SmpNext, smpVars, BeginIpi, BeginShootdown, AcknowledgeIpi,
                          AcknowledgeShootdown, CompleteShootdown

LEMMA SmpNextWaits ==
    ASSUME SmpIInv, ~Rediscover, WaitsOnlyForOnline, [SmpNext]_smpVars
    PROVE  WaitsOnlyForOnline'
<1> DEFINE Sound(p, online) == p # NoEpoch => /\ p.acknowledgements \subseteq p.targets
                                             /\ p.targets \subseteq online
<1>1. /\ \A e \in Epochs : Sound(ipis[e], OnlineCpus) /\ Sound(shootdowns[e], OnlineCpus)
      /\ OnlineCpus \subseteq OnlineCpus'
  BY OnlineStays DEF WaitsOnlyForOnline
<1> SUFFICES ASSUME NEW e \in Epochs
             PROVE  Sound(ipis'[e], OnlineCpus') /\ Sound(shootdowns'[e], OnlineCpus')
  BY DEF WaitsOnlyForOnline
<1>2. Sound(ipis[e], OnlineCpus') /\ Sound(shootdowns[e], OnlineCpus')
  BY <1>1
<1>3. CASE UNCHANGED epochVars
  BY <1>2, <1>3 DEF epochVars
<1>4. ASSUME NEW targets \in SUBSET SmpCpus, BeginIpi(targets)
      PROVE  Sound(ipis'[e], OnlineCpus') /\ Sound(shootdowns'[e], OnlineCpus')
  <2>1. CASE BeginIpiError(targets) = "Ok"
    <3>1. targets \subseteq OnlineCpus'
      BY <1>1, <2>1 DEF BeginIpiError, ValidateOnlineTargets
    <3>2. Sound(Begun(targets), OnlineCpus')
      BY <3>1 DEF Begun
    <3>3. ipis'[e] = Begun(targets) \/ ipis'[e] = ipis[e]
      BY <1>4, <2>1 DEF BeginIpi, SmpIInv, SmpTypeOK
    <3> QED
      BY <1>2, <1>4, <3>2, <3>3 DEF BeginIpi
  <2>2. CASE BeginIpiError(targets) # "Ok"
    BY <1>2, <1>4, <2>2 DEF BeginIpi
  <2> QED BY <2>1, <2>2
<1>5. ASSUME BeginShootdown
      PROVE  Sound(ipis'[e], OnlineCpus') /\ Sound(shootdowns'[e], OnlineCpus')
  <2>1. Sound(Begun(OnlineCpus), OnlineCpus')
    BY <1>1 DEF Begun
  <2>2. shootdowns'[e] = Begun(OnlineCpus) \/ shootdowns'[e] = shootdowns[e]
    BY <1>5 DEF BeginShootdown, SmpIInv, SmpTypeOK
  <2> QED
    BY <1>2, <1>5, <2>1, <2>2 DEF BeginShootdown
<1>6. ASSUME NEW epoch \in Epochs, NEW cpu \in SmpCpus, AcknowledgeIpi(epoch, cpu)
      PROVE  Sound(ipis'[e], OnlineCpus') /\ Sound(shootdowns'[e], OnlineCpus')
  <2>1. Acknowledge(ipis, ipis', epoch, cpu)
    BY <1>6 DEF AcknowledgeIpi
  <2> QED
    BY <1>2, <1>6, <2>1, AcknowledgeEffect DEF AcknowledgeIpi, SmpIInv, SmpTypeOK
<1>7. ASSUME NEW epoch \in Epochs, NEW cpu \in SmpCpus,
             AcknowledgeShootdown(epoch, cpu)
      PROVE  Sound(ipis'[e], OnlineCpus') /\ Sound(shootdowns'[e], OnlineCpus')
  <2>1. Acknowledge(shootdowns, shootdowns', epoch, cpu)
    BY <1>7 DEF AcknowledgeShootdown
  <2> QED
    BY <1>2, <1>7, <2>1, AcknowledgeEffect DEF AcknowledgeShootdown, SmpIInv, SmpTypeOK
<1>8. ASSUME NEW epoch \in Epochs, CompleteShootdown(epoch)
      PROVE  Sound(ipis'[e], OnlineCpus') /\ Sound(shootdowns'[e], OnlineCpus')
  BY <1>2, <1>8 DEF CompleteShootdown, SmpIInv, SmpTypeOK
<1> QED
  BY <1>3, <1>4, <1>5, <1>6, <1>7, <1>8
  DEF SmpNext, smpVars, epochVars, Discover, Transition

(* SmpState: whatever the CPUs and epochs, an IPI or a shootdown waits only for
   CPUs that are online and can answer, provided that the boot path discovers
   each CPU once; discover on a known CPU takes an online CPU back. *)
THEOREM SmpWaits ==
    ASSUME ~Rediscover
    PROVE  SmpSpec => []WaitsOnlyForOnline
<1>1. SmpInit => SmpIInv /\ WaitsOnlyForOnline
  BY SmpInitIInv DEF SmpInit, WaitsOnlyForOnline
<1>2. SmpIInv /\ WaitsOnlyForOnline /\ [SmpNext]_smpVars
         => (SmpIInv /\ WaitsOnlyForOnline)'
  BY SmpNextIInv, SmpNextWaits
<1> QED
  BY <1>1, <1>2, PTL DEF SmpSpec
=============================================================================
