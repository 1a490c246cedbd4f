------------------------------- MODULE EventPolicy -------------------------------
(***************************************************************************)
(* The kernel's event loop: EventSequencer (thermite-kernel/src/event.rs)  *)
(* numbers events and actions, KernelPolicy (policy.rs) steps a CpuShard   *)
(* and answers with actions, which are issued and completed by an event.   *)
(*                                                                         *)
(* Events and IssuedActions are Copy/Clone values in their callers' hands: *)
(* `events' and `issuedActions' remember all that were returned, `todo'    *)
(* the actions step asked for.  A caller steps any event at any time, and  *)
(* completes any issued action any number of times.  An EventKind is a     *)
(* record of its `tag' and payload.  `eventErr' is the Result of the last  *)
(* call.                                                                   *)
(***************************************************************************)
EXTENDS PlatformActions, FiniteSets

CONSTANTS Cpus,          \* CPU ids callers name
          Topology,      \* the CpuSet of with_topology, or None after new()
          EventKinds,         \* EventKinds the platform raises
          EventActions,  \* actions issued besides those step asks for
          Vectors, DmaSlots,
          MaxSyscall,    \* max_syscall
          MaxId,         \* u64::MAX for event ids
          MaxActionId,   \* u64::MAX for action ids
          MaxTicks,      \* u64::MAX for ticks
          MaxTasks,      \* u32::MAX for runnable_tasks
          ReAdd,         \* may add_cpu and assign_irq name what they know?
          None

ASSUME EventAssumption ==
    /\ MaxId \in Nat \ {0} /\ MaxActionId \in Nat \ {0}
    /\ MaxTicks \in Nat /\ MaxTasks \in Nat

VARIABLES nextEvent, nextAction, irqOwners, dmaSlots,   \* EventSequencer
          shards, lastGlobal,                           \* KernelPolicy
          events, issuedActions, todo, eventErr

sequencer == <<nextEvent, nextAction, irqOwners, dmaSlots>>
policy    == <<shards, lastGlobal>>
eventVars == <<sequencer, policy, events, issuedActions, todo, eventErr>>

Shard    == [last: 0..MaxId, ticks: 0..MaxTicks, runnable: 0..MaxTasks, terminal: BOOLEAN]
NewShard == [last |-> 0, ticks |-> 0, runnable |-> 0, terminal |-> FALSE]

(* EventSequencer::with_topology or new, and KernelPolicy::default *)
EventInit ==
    /\ nextEvent = 1 /\ nextAction = 1
    /\ irqOwners = [v \in Vectors |-> None] /\ dmaSlots = {}
    /\ shards = [c \in Cpus |-> None] /\ lastGlobal = 0
    /\ events = {} /\ issuedActions = {} /\ todo = {}
    /\ eventErr = "Ok"

OnlineOk(cpu) == Topology = None \/ cpu \in Topology

(* EventSequencer::assign_irq: the last test of the || chain is the insert
   itself, so a vector that has an owner gets the new one and an error. *)
AssignIrq(vector, cpu) ==
    LET reached == vector >= 32 /\ OnlineOk(cpu) IN
    /\ irqOwners' = IF reached THEN [irqOwners EXCEPT ![vector] = cpu] ELSE irqOwners
    /\ eventErr' = IF reached /\ irqOwners[vector] = None THEN "Ok" ELSE "UnownedVector"
    /\ UNCHANGED <<nextEvent, nextAction, dmaSlots, policy, events, issuedActions, todo>>

(* EventSequencer::allow_dma_slot *)
AllowDmaSlot(slot) ==
    /\ dmaSlots' = dmaSlots \cup {slot}
    /\ eventErr' = IF slot \in dmaSlots THEN "UnownedDmaSlot" ELSE "Ok"
    /\ UNCHANGED <<nextEvent, nextAction, irqOwners, policy, events, issuedActions, todo>>

(* The checks of ingress before it takes an id. *)
PayloadError(cpu, k) ==
    IF ~OnlineOk(cpu) THEN "UnknownCpu"
    ELSE CASE k.tag = "Irq" /\ (k.vector < 32 \/ irqOwners[k.vector] # cpu) -> "UnownedVector"
           [] k.tag = "Ipi" /\ (k.vector < 32 \/ k.epoch = 0) -> "InvalidPayload"
           [] k.tag = "DmaComplete" /\ k.slot \notin dmaSlots -> "UnownedDmaSlot"
           [] k.tag = "Syscall" /\ k.number > MaxSyscall -> "InvalidPayload"
           [] k.tag = "UserFault" /\ ~k.canonical -> "InvalidTrapOrigin"
           [] OTHER -> "Ok"

CorrelationOk(correlation) ==
    correlation = None \/ (0 < correlation /\ correlation < nextAction)

NextEvent(correlation) == nextEvent + 1

(* EventSequencer::ingress: the id is consumed before the correlation is
   checked. *)
Ingress(cpu, k, correlation) ==
    LET early == IF PayloadError(cpu, k) # "Ok" THEN PayloadError(cpu, k)
                 ELSE IF nextEvent = MaxId THEN "InvalidEventId" ELSE "Ok"
        e == IF early # "Ok" THEN early
             ELSE IF CorrelationOk(correlation) THEN "Ok" ELSE "InvalidCorrelation"
    IN /\ nextEvent' = IF early = "Ok" THEN NextEvent(correlation) ELSE nextEvent
       /\ events' = IF e # "Ok" THEN events
                    ELSE events \cup {[cpu |-> cpu, id |-> nextEvent, kind |-> k,
                                       correlation |-> correlation]}
       /\ eventErr' = e
       /\ UNCHANGED <<nextAction, irqOwners, dmaSlots, policy, issuedActions, todo>>

(* EventSequencer::issue *)
Issue(action) ==
    LET e == IF ValidateAction(action) # "Ok" THEN ValidateAction(action)
             ELSE IF nextAction = MaxActionId THEN "InvalidCorrelation" ELSE "Ok"
    IN /\ nextAction' = IF e = "Ok" THEN nextAction + 1 ELSE nextAction
       /\ issuedActions' = IF e # "Ok" THEN issuedActions
                           ELSE issuedActions \cup {[id |-> nextAction, action |-> action]}
       /\ eventErr' = e
       /\ UNCHANGED <<nextEvent, irqOwners, dmaSlots, policy, events, todo>>

(* EventSequencer::complete; an IssuedAction's id is always in range here. *)
Complete(i, cpu, ok) == Ingress(cpu, CompletionKind(i.action, ok), i.id)

(* KernelPolicy::add_cpu inserts first and reports the duplicate afterwards. *)
AddCpu(cpu) ==
    /\ shards' = [shards EXCEPT ![cpu] = NewShard]
    /\ eventErr' = IF shards[cpu] = None THEN "Ok" ELSE "DuplicateCpu"
    /\ UNCHANGED <<sequencer, lastGlobal, events, issuedActions, todo>>

CompletionEvents == {"CpuOnline", "CpuStartFailed", "DmaComplete"}

(* Mutant: an event may be stepped again. *)
StepErrorReplay(event) ==
    IF shards[event.cpu] = None THEN "UnknownCpu"
    ELSE IF shards[event.cpu].terminal THEN "Terminal"
    ELSE IF event.kind.tag \in CompletionEvents /\ event.correlation = None
    THEN "CorrelationRequired"
    ELSE IF event.kind.tag \notin CompletionEvents /\ event.correlation # None
    THEN "UnexpectedCorrelation" ELSE "Ok"

StepError(event) ==
    IF event.id <= lastGlobal THEN "StaleEvent"
    ELSE IF shards[event.cpu] = None THEN "UnknownCpu"
    ELSE IF shards[event.cpu].terminal THEN "Terminal"
    ELSE IF event.kind.tag \in CompletionEvents /\ event.correlation = None
    THEN "CorrelationRequired"
    ELSE IF event.kind.tag \notin CompletionEvents /\ event.correlation # None
    THEN "UnexpectedCorrelation" ELSE "Ok"

(* The actions step pushes; never more than one, so ActionBatch<4> never
   overflows. *)
Batch(event) ==
    CASE event.kind.tag \in {"Boot", "Timer"} -> {Plain("ArmTimer")}
      [] event.kind.tag = "CpuOnline"         -> {EnqueueTask(event.cpu)}
      [] event.kind.tag = "Irq"               -> {IrqAction("AckIrq", event.kind.vector)}
      [] event.kind.tag = "Ipi"               -> {SendIpi({event.cpu}, event.kind.vector, event.kind.epoch)}
      [] event.kind.tag = "Syscall" /\ event.kind.number = 0 -> {EnqueueTask(event.cpu)}
      [] event.kind.tag = "Syscall" /\ event.kind.number # 0 -> {EnterContext(event.kind.number)}
      [] event.kind.tag = "UserFault"         -> {EnterContext(0)}
      [] event.kind.tag = "DeviceFault"       -> {IrqAction("MaskIrq", 0)}
      [] event.kind.tag = "ShutdownRequest"   -> {Plain("PowerOff")}
      [] OTHER                            -> {}

CounterError(event) ==
    IF event.kind.tag = "Timer" /\ shards[event.cpu].ticks = MaxTicks THEN "TickOverflow"
    ELSE IF event.kind.tag \in {"CpuOnline", "DmaComplete"} /\ shards[event.cpu].runnable = MaxTasks
    THEN "TaskOverflow" ELSE "Ok"

Counted(shard, event) ==
    CASE event.kind.tag = "Timer" -> [shard EXCEPT !.ticks = @ + 1]
      [] event.kind.tag \in {"CpuOnline", "DmaComplete"} -> [shard EXCEPT !.runnable = @ + 1]
      [] event.kind.tag = "ShutdownRequest" -> [shard EXCEPT !.terminal = TRUE]
      [] OTHER -> shard

(* KernelPolicy::step: the event is marked as seen before a counter can
   overflow. *)
Step(event) ==
    LET e    == IF StepError(event) # "Ok" THEN StepError(event) ELSE CounterError(event)
        seen == [shards[event.cpu] EXCEPT !.last = event.id]
    IN /\ eventErr' = e
       /\ lastGlobal' = IF StepError(event) = "Ok" THEN event.id ELSE lastGlobal
       /\ shards' = IF StepError(event) # "Ok" THEN shards
                    ELSE [shards EXCEPT ![event.cpu] =
                             IF e = "Ok" THEN Counted(seen, event) ELSE seen]
       /\ todo' = IF e = "Ok" THEN todo \cup Batch(event) ELSE todo
       /\ UNCHANGED <<sequencer, events, issuedActions>>

EventNext ==
    \/ \E cpu \in Cpus :
          \/ \E v \in Vectors : (ReAdd \/ irqOwners[v] = None) /\ AssignIrq(v, cpu)
          \/ \E k \in EventKinds, c \in {None} \cup 0..MaxActionId : Ingress(cpu, k, c)
          \/ \E i \in issuedActions, ok \in BOOLEAN : Complete(i, cpu, ok)
          \/ (ReAdd \/ shards[cpu] = None) /\ AddCpu(cpu)
    \/ \E slot \in DmaSlots : AllowDmaSlot(slot)
    \/ \E a \in EventActions \cup todo : Issue(a)
    \/ \E event \in events : Step(event)

(***************************************************************************)
(* Properties.                                                             *)
(***************************************************************************)

(* However often and in whatever order callers step the events they hold, no
   event takes effect twice: a shard's ticks and runnable tasks are backed by
   as many distinct events of its CPU. *)
NoEventAppliedTwice ==
    \A c \in Cpus : shards[c] # None =>
        /\ shards[c].ticks <= Cardinality({e \in events : e.cpu = c /\ e.kind.tag = "Timer"})
        /\ shards[c].runnable <= Cardinality({e \in events :
               e.cpu = c /\ e.kind.tag \in {"CpuOnline", "DmaComplete"}})

(* "A failed action returns a typed completion event", and "asynchronous
   actions carry a correlation ID": an unseen completion of an issued action
   is an event the policy of a running CPU accepts. *)
CompletionsAccepted ==
    \A e \in events :
        e.correlation # None /\ shards[e.cpu] # None /\ e.id > lastGlobal
        => StepError(e) # "UnexpectedCorrelation"
=============================================================================
