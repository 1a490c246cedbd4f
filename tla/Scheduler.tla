-------------------------------- MODULE Scheduler --------------------------------
(***************************************************************************)
(* thermite-kernel/src/scheduler.rs: per-CPU run queues with work stealing.*)
(*                                                                         *)
(* queues, tasks and current are the BTreeMaps of the same name; a task    *)
(* record is [st, cpu, generation], where cpu is the payload of            *)
(* TaskState::Running.  What a call returns is not kept: an operator names *)
(* its error.  The dispatch and steal counters and the exit code are not   *)
(* modelled: no operation reads them.                                      *)
(***************************************************************************)
EXTENDS Integers, Sequences, FiniteSets

CONSTANTS Cpus,           \* CPU ids callers name
          Online,         \* the CpuSet given to with_online_cpus
          Tasks,          \* task ids
          MaxGeneration,  \* u64::MAX for a task's generation
          MaxYields,      \* bound on the yields of one task
          None            \* Option::None, and the CPU of a task not running

ASSUME SchedulerAssumption ==
    /\ Cpus \subseteq Nat /\ Online \subseteq Cpus
    /\ IsFiniteSet(Tasks)
    /\ MaxGeneration \in Nat /\ MaxYields \in 0..MaxGeneration
    /\ None \notin Cpus /\ None \notin Tasks

VARIABLES queues, tasks, current

vars == <<queues, tasks, current>>

States == {"Absent", "Runnable", "Running", "Blocked", "Exited"}
Task   == [st: States, cpu: Cpus \cup {None}, generation: 0..MaxGeneration]
NoTask == [st |-> "Absent", cpu |-> None, generation |-> 0]

Queued(cpu) == {queues[cpu][i] : i \in DOMAIN queues[cpu]}

(* Scheduler::with_online_cpus *)
Init ==
    /\ queues = [c \in Online |-> <<>>]
    /\ tasks = [t \in Tasks |-> NoTask]
    /\ current = [c \in Online |-> None]

Refuse(reason) == UNCHANGED vars

Runnable(record) == [record EXCEPT !.st = "Runnable", !.cpu = None]

(* Scheduler::create_task *)
CreateTask(task, cpu) ==
    \/ cpu \notin Online /\ Refuse("UnknownCpu")
    \/ cpu \in Online /\ tasks[task].st # "Absent" /\ Refuse("DuplicateTask")
    \/ /\ cpu \in Online
       /\ tasks[task].st = "Absent"
       /\ tasks' = [tasks EXCEPT ![task] = Runnable(@)]
       /\ queues' = [queues EXCEPT ![cpu] = Append(@, task)]
       /\ UNCHANGED current

(* Scheduler::steal picks the longest other queue, the lowest CPU on a tie:
   the victim, or no CPU when every other queue is empty. *)
Victims(requester) ==
    LET others == Online \ {requester}
        longer(c, d) == \/ Len(queues[c]) > Len(queues[d])
                        \/ Len(queues[c]) = Len(queues[d]) /\ c <= d
    IN {c \in others : queues[c] # <<>> /\ \A d \in others : longer(c, d)}

(* The end of dispatch: the popped task runs, unless it is not Runnable, when
   it has left its queue all the same. *)
Run(cpu, task) ==
    LET ok == tasks[task].st = "Runnable" IN
    /\ tasks' = IF ok THEN [tasks EXCEPT ![task].st = "Running", ![task].cpu = cpu]
                ELSE tasks
    /\ current' = IF ok THEN [current EXCEPT ![cpu] = task] ELSE current

(* Mutant: steal reads the victim's last task but leaves it queued. *)
StealFromKeepingEntry(cpu, v) ==
    /\ Run(cpu, queues[v][Len(queues[v])])
    /\ UNCHANGED queues

StealFrom(cpu, v) ==
    /\ queues' = [queues EXCEPT ![v] = SubSeq(@, 1, Len(@) - 1)]
    /\ Run(cpu, queues[v][Len(queues[v])])

(* Mutant: the local queue is served last in, first out. *)
RunLocalNewest(cpu) == StealFrom(cpu, cpu)

RunLocal(cpu) ==
    /\ queues' = [queues EXCEPT ![cpu] = Tail(@)]
    /\ Run(cpu, Head(queues[cpu]))

(* Scheduler::dispatch: the front of the local queue, else a stolen task. *)
Dispatch(cpu) ==
    \/ cpu \notin Online /\ Refuse("UnknownCpu")
    \/ cpu \in Online /\ current[cpu] # None /\ Refuse("WrongState")
    \/ /\ cpu \in Online /\ current[cpu] = None
       /\ \/ queues[cpu] # <<>> /\ RunLocal(cpu)
          \/ queues[cpu] = <<>> /\ \E v \in Victims(cpu) : StealFrom(cpu, v)
          \/ queues[cpu] = <<>> /\ Victims(cpu) = {} /\ Refuse("Ok")

(* yield_current, block_current and exit_current all take() the CPU's current
   task before they look at it. *)
LeaveError(cpu) ==
    IF cpu \notin Online THEN "UnknownCpu"
    ELSE IF current[cpu] = None THEN "WrongState"
    ELSE LET record == tasks[current[cpu]] IN
         IF record.st = "Absent" THEN "UnknownTask"
         ELSE IF record.st # "Running" \/ record.cpu # cpu THEN "ForeignCpu"
         ELSE "Ok"

Take(cpu) == current' = [current EXCEPT ![cpu] = None]

(* Scheduler::yield_current; on GenerationOverflow the task has already been
   taken off its CPU and is not queued. *)
YieldCurrent(cpu) ==
    \/ /\ LeaveError(cpu) \in {"UnknownCpu", "WrongState"}
       /\ Refuse(LeaveError(cpu))
    \/ /\ LeaveError(cpu) \notin {"UnknownCpu", "WrongState"}
       /\ Take(cpu)
       /\ LET task == current[cpu]
              e == IF LeaveError(cpu) = "Ok" /\ tasks[task].generation = MaxGeneration
                   THEN "GenerationOverflow" ELSE LeaveError(cpu)
          IN /\ tasks' = IF e = "Ok"
                         THEN [tasks EXCEPT ![task] =
                                  [Runnable(tasks[task]) EXCEPT !.generation = @ + 1]]
                         ELSE tasks
             /\ queues' = IF e = "Ok" THEN [queues EXCEPT ![cpu] = Append(@, task)]
                          ELSE queues

Leave(cpu, st) ==
    \/ /\ LeaveError(cpu) \in {"UnknownCpu", "WrongState"}
       /\ Refuse(LeaveError(cpu))
    \/ /\ LeaveError(cpu) \notin {"UnknownCpu", "WrongState"}
       /\ Take(cpu)
       /\ tasks' = IF LeaveError(cpu) = "Ok"
                   THEN [tasks EXCEPT ![current[cpu]].st = st, ![current[cpu]].cpu = None]
                   ELSE tasks
       /\ UNCHANGED queues

(* Scheduler::block_current *)
BlockCurrent(cpu) == Leave(cpu, "Blocked")

(* Scheduler::exit_current *)
ExitCurrent(cpu) == Leave(cpu, "Exited")

WakeError(task, cpu) ==
    IF cpu \notin Online THEN "UnknownCpu"
    ELSE IF tasks[task].st = "Absent" THEN "UnknownTask"
    ELSE IF tasks[task].st # "Blocked" THEN "WrongState"
    ELSE IF task \in Queued(cpu) THEN "DuplicateQueueEntry"
    ELSE "Ok"

(* Scheduler::wake: only the target's queue is searched for the task. *)
Wake(task, cpu) ==
    \/ WakeError(task, cpu) # "Ok" /\ Refuse(WakeError(task, cpu))
    \/ /\ WakeError(task, cpu) = "Ok"
       /\ tasks' = [tasks EXCEPT ![task] = Runnable(@)]
       /\ queues' = [queues EXCEPT ![cpu] = Append(@, task)]
       /\ UNCHANGED current

(* The bound: a task yields at most MaxYields times. *)
MayYield(cpu) ==
    cpu \in Online /\ current[cpu] # None => tasks[current[cpu]].generation < MaxYields

Yield(cpu) == MayYield(cpu) /\ YieldCurrent(cpu)

Next ==
    \E cpu \in Cpus :
        \/ Dispatch(cpu)
        \/ Yield(cpu)
        \/ BlockCurrent(cpu)
        \/ ExitCurrent(cpu)
        \/ \E task \in Tasks : CreateTask(task, cpu) \/ Wake(task, cpu)

Spec == Init /\ [][Next]_vars

(* Every online CPU keeps asking for work, and a task that holds a CPU sooner
   or later yields, blocks or exits. *)
Fairness ==
    \A cpu \in Online :
        /\ WF_vars(Dispatch(cpu) /\ current[cpu] = None)
        /\ WF_vars(current[cpu] # None
                   /\ (Yield(cpu) \/ BlockCurrent(cpu) \/ ExitCurrent(cpu)))

FairSpec == Spec /\ Fairness

(***************************************************************************)
(* Properties.                                                             *)
(***************************************************************************)

(* The three maps keep their ranges. *)
TypeOK ==
    /\ queues \in [Online -> Seq(Tasks)]
    /\ tasks \in [Tasks -> Task]
    /\ current \in [Online -> Tasks \cup {None}]

(* Places a task is in: queue positions and CPUs. *)
QueuePlaces(t) == {p \in Online \X (1..Cardinality(Tasks)) :
                      p[2] <= Len(queues[p[1]]) /\ queues[p[1]][p[2]] = t}
CpuPlaces(t)   == {c \in Online : current[c] = t}

(* Scheduler::invariant_holds: a Runnable task is in exactly one queue
   position, a Running task is current on exactly the CPU its state names, and
   every other task is nowhere.  No steal, wake or yield duplicates or loses a
   task. *)
UniqueOwnership ==
    /\ \A c \in Online : Len(queues[c]) <= Cardinality(Tasks)
    /\ \A t \in Tasks :
        /\ Cardinality(QueuePlaces(t)) = (IF tasks[t].st = "Runnable" THEN 1 ELSE 0)
        /\ CpuPlaces(t) = (IF tasks[t].st = "Running" THEN {tasks[t].cpu} ELSE {})

(* No starvation: while every CPU dispatches and every running task eventually
   leaves its CPU, a Runnable task runs, in spite of steals, cross-CPU wakes
   and the tasks queued meanwhile. *)
NoStarvation ==
    \A t \in Tasks : tasks[t].st = "Runnable" ~> tasks[t].st = "Running"
=============================================================================
