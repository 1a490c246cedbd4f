------------------------------- MODULE PostFirmware -------------------------------
(***************************************************************************)
(* The post-firmware kernel of the x86_64 UEFI SMP platform                *)
(* (runtime/src/post_firmware.rs): run() on the boot processor, the        *)
(* application processors in thermite_ap_rust_entry, and the two interrupt *)
(* handlers that cut into them.                                            *)
(*                                                                         *)
(* The POST_* statics are the fields of seven records, bit masks are sets  *)
(* of CPUs.  pc[c] is where CPU c is, reg[c] the seed or ticket it holds,  *)
(* sent the APs served so far by the BSP's current send loop; a step makes *)
(* at most one access to state that another CPU changes or reads           *)
(* meanwhile.  The fields without a static: intr.pending and timer.pending *)
(* (what the local APICs hold), intr.handling (CPUs between the invlpg and *)
(* the lock bts of the IPI handler), timer.armed (TSC deadlines), map.tlb  *)
(* (what each CPU has cached for the shootdown address), work.ran (how     *)
(* often each task ran, of which POST_TASK_SUM is the weighted sum).  APs  *)
(* are those left after an injected startup failure.                       *)
(***************************************************************************)
EXTENDS Integers, FiniteSets, FiniteSetsExt

CONSTANTS Bsp, APs,
          Tasks,        \* POST_TASKS
          None          \* 0 in POST_ONCE; an empty TLB entry

ASSUME PostFirmwareAssumption ==
    /\ Bsp \notin APs /\ IsFiniteSet(APs)
    /\ Tasks \in Nat /\ Tasks > Cardinality(APs)
    /\ None \notin {"A", "B"}

VARIABLES pc, reg, sent, boot, intr, msg, work, lock, map, timer

vars == <<pc, reg, sent, boot, intr, msg, work, lock, map, timer>>

Cpus == APs \cup {Bsp}

(* run() has installed the BSP's tables and is about to start the APs. *)
Init ==
    /\ pc = [c \in Cpus |-> IF c = Bsp THEN "start" ELSE "off"]
    /\ reg = [c \in Cpus |-> 0]
    /\ sent = {}
    /\ boot = [online |-> {Bsp}, cpuLocal |-> {Bsp}, ready |-> 0, phase |-> 0]
    /\ intr = [pending |-> {}, handling |-> {}, ack |-> {}, epoch |-> 0]
    /\ msg = [payload |-> FALSE, ready |-> FALSE, mask |-> {}, stale |-> {}]
    /\ work = [ready |-> 0, expected |-> 0, gate |-> FALSE, next |-> 0,
               ran |-> [t \in 0..(Tasks - 1) |-> 0], workers |-> {},
               active |-> 0, maxActive |-> 0, done |-> 0]
    /\ lock = [next |-> 0, owner |-> 0, entries |-> 0, once |-> None]
    /\ map = [pte |-> "A", tlb |-> [c \in Cpus |-> None], pre |-> {}, post |-> {},
              stale |-> {}]
    /\ timer = [armed |-> {}, pending |-> {}, mask |-> {}]

(* CPU c, with no IPI handler active on it, goes from one label to another. *)
Goto(c, from, to) ==
    /\ pc[c] = from /\ c \notin intr.handling
    /\ pc' = [pc EXCEPT ![c] = to]

(***************************************************************************)
(* thermite_ap_rust_entry up to the first phase.                           *)
(***************************************************************************)

(* install_cpu_local and local_apic_enable, then sti. *)
ApInstall(c) ==
    /\ Goto(c, "boot", "announce")
    /\ boot' = [boot EXCEPT !.cpuLocal = @ \cup {c}]
    /\ UNCHANGED <<reg, sent, intr, msg, work, lock, map, timer>>

(* The first fails, or the second, after the first has recorded the CPU: the AP
   halts with interrupts off. *)
ApPark(c) ==
    /\ Goto(c, "boot", "parked")
    /\ \/ UNCHANGED boot
       \/ boot' = [boot EXCEPT !.cpuLocal = @ \cup {c}]
    /\ UNCHANGED <<reg, sent, intr, msg, work, lock, map, timer>>

ApAnnounce(c) ==
    /\ Goto(c, "announce", "ready")
    /\ boot' = [boot EXCEPT !.online = @ \cup {c}]
    /\ UNCHANGED <<reg, sent, intr, msg, work, lock, map, timer>>

ApReady(c) ==
    /\ Goto(c, "ready", "wPhase1")
    /\ boot' = [boot EXCEPT !.ready = @ + 1]
    /\ UNCHANGED <<reg, sent, intr, msg, work, lock, map, timer>>

(* The two spins on POST_PHASE. *)
ApPhase(c) ==
    /\ \/ boot.phase >= 1 /\ Goto(c, "wPhase1", "message")
       \/ boot.phase >= 2 /\ Goto(c, "wPhase2", "postProbe")
    /\ UNCHANGED <<reg, sent, boot, intr, msg, work, lock, map, timer>>

(***************************************************************************)
(* What every CPU does in the first phase.                                 *)
(***************************************************************************)

(* message_probe *)
MessageProbe(c) ==
    /\ msg.ready
    /\ Goto(c, "message", "seed")
    /\ msg' = [msg EXCEPT !.stale = IF msg.payload THEN @ ELSE @ \cup {c},
                          !.mask = @ \cup {c}]
    /\ UNCHANGED <<reg, sent, boot, intr, work, lock, map, timer>>

(* run_tasks: take the next seed and run it.  Nobody reads POST_TASK_SUM and
   POST_TASK_WORKERS before all are done. *)
TakeSeed(c) ==
    LET late == work.ready >= work.expected IN
    /\ Goto(c, "seed", IF late THEN "ticket" ELSE "enter")
    /\ reg' = IF late THEN reg ELSE [reg EXCEPT ![c] = work.ready]
    /\ work' = IF late THEN [work EXCEPT !.ready = @ + 1]
               ELSE [work EXCEPT !.ready = @ + 1, !.ran[work.ready] = @ + 1,
                                 !.workers = @ \cup {c}]
    /\ UNCHANGED <<sent, boot, intr, msg, lock, map, timer>>

(* POST_ACTIVE.fetch_add, and observe_max of its result. *)
EnterInterval(c) ==
    /\ Goto(c, "enter", "open")
    /\ work' = [work EXCEPT !.active = @ + 1, !.maxActive = Max({@, work.active + 1})]
    /\ UNCHANGED <<reg, sent, boot, intr, msg, lock, map, timer>>

(* Mutant: the seeds are counted from one. *)
LastSeedFromOne(c) == reg[c] = work.expected

LastSeed(c) == reg[c] + 1 = work.expected

(* The CPU with the last seed opens the gate. *)
OpenGate(c) ==
    /\ Goto(c, "open", "gate")
    /\ work' = [work EXCEPT !.gate = @ \/ LastSeed(c)]
    /\ UNCHANGED <<reg, sent, boot, intr, msg, lock, map, timer>>

(* Behind the gate: POST_NEXT_TASK.fetch_add until no task is left. *)
PullTask(c) ==
    LET task == work.next
        last == task >= Tasks
    IN /\ pc[c] = "pull" \/ (pc[c] = "gate" /\ work.gate)
       /\ Goto(c, pc[c], IF last THEN "leave" ELSE "pull")
       /\ work' = IF last THEN [work EXCEPT !.next = @ + 1]
                  ELSE [work EXCEPT !.next = @ + 1, !.ran[task] = @ + 1]
       /\ UNCHANGED <<reg, sent, boot, intr, msg, lock, map, timer>>

LeaveInterval(c) ==
    /\ Goto(c, "leave", "ticket")
    /\ work' = [work EXCEPT !.active = @ - 1]
    /\ UNCHANGED <<reg, sent, boot, intr, msg, lock, map, timer>>

(* lock_once: the ticket, the wait, the entry. *)
TakeTicket(c) ==
    /\ Goto(c, "ticket", "acquire")
    /\ reg' = [reg EXCEPT ![c] = lock.next]
    /\ lock' = [lock EXCEPT !.next = @ + 1]
    /\ UNCHANGED <<sent, boot, intr, msg, work, map, timer>>

MyTurn(c) == lock.owner = reg[c]

AcquireLock(c) ==
    /\ MyTurn(c)
    /\ Goto(c, "acquire", "release")
    /\ lock' = [lock EXCEPT !.entries = @ + 1]
    /\ UNCHANGED <<reg, sent, boot, intr, msg, work, map, timer>>

NextOwner(c) == reg[c] + 1

(* The store to the owner, then the compare_exchange of POST_ONCE, which is
   read only after all are done. *)
ReleaseLock(c) ==
    /\ Goto(c, "release", "probe")
    /\ lock' = [lock EXCEPT !.owner = NextOwner(c), !.once = IF @ = None THEN c ELSE @]
    /\ UNCHANGED <<reg, sent, boot, intr, msg, work, map, timer>>

(* shootdown_probe: the read goes through the TLB and fills it. *)
Probed(c, want) ==
    LET seen == IF map.tlb[c] = None THEN map.pte ELSE map.tlb[c] IN
    [map EXCEPT !.tlb[c] = seen, !.stale = IF seen = want THEN @ ELSE @ \cup {c}]

PreProbe(c) ==
    /\ Goto(c, "probe", IF c = Bsp THEN "wDone" ELSE "done")
    /\ map' = [Probed(c, "A") EXCEPT !.pre = @ \cup {c}]
    /\ UNCHANGED <<reg, sent, boot, intr, msg, work, lock, timer>>

ApDone(c) ==
    /\ Goto(c, "done", "wPhase2")
    /\ work' = [work EXCEPT !.done = @ + 1]
    /\ UNCHANGED <<reg, sent, boot, intr, msg, lock, map, timer>>

(***************************************************************************)
(* What every CPU does in the second phase.                                *)
(***************************************************************************)
PostProbe(c) ==
    /\ Goto(c, "postProbe", IF c = Bsp THEN "wPost" ELSE "arm")
    /\ map' = [Probed(c, "B") EXCEPT !.post = @ \cup {c}]
    /\ UNCHANGED <<reg, sent, boot, intr, msg, work, lock, timer>>

(* arm_timer sets the deadline, waits until it has passed, and sends itself
   the timer interrupt if its bit is still clear. *)
ArmTimer(c) ==
    /\ Goto(c, "arm", "deadline")
    /\ timer' = [timer EXCEPT !.armed = @ \cup {c}]
    /\ UNCHANGED <<reg, sent, boot, intr, msg, work, lock, map>>

TimerFallback(c) ==
    /\ Goto(c, "deadline", IF c = Bsp THEN "broker" ELSE "idle")
    /\ timer' = [timer EXCEPT !.pending = IF c \in timer.mask THEN @ ELSE @ \cup {c}]
    /\ UNCHANGED <<reg, sent, boot, intr, msg, work, lock, map>>

(***************************************************************************)
(* Interrupts.                                                             *)
(***************************************************************************)
Interruptible(c) ==
    /\ c \notin intr.handling
    /\ pc[c] \notin {"off", "boot", "parked", "start", "wOnline"}

(* thermite_ipi_handler: invlpg, *)
IpiInvalidate(c) ==
    /\ c \in intr.pending /\ Interruptible(c)
    /\ map' = [map EXCEPT !.tlb[c] = None]
    /\ intr' = [intr EXCEPT !.pending = @ \ {c}, !.handling = @ \cup {c}]
    /\ UNCHANGED <<pc, reg, sent, boot, msg, work, lock, timer>>

(* then lock bts of the acknowledgement, whatever the epoch, and EOI. *)
IpiAcknowledge(c) ==
    /\ c \in intr.handling
    /\ intr' = [intr EXCEPT !.ack = @ \cup {c}, !.handling = @ \ {c}]
    /\ UNCHANGED <<pc, reg, sent, boot, msg, work, lock, map, timer>>

(* thermite_timer_handler, for a deadline (which some hosts never deliver) or
   an IPI with the timer vector. *)
TimerInterrupt(c) ==
    /\ c \in timer.armed \cup timer.pending /\ Interruptible(c)
    /\ timer' = [timer EXCEPT !.mask = @ \cup {c}, !.armed = @ \ {c}, !.pending = @ \ {c}]
    /\ UNCHANGED <<pc, reg, sent, boot, intr, msg, work, lock, map>>

(***************************************************************************)
(* run() on the boot processor.                                            *)
(***************************************************************************)

(* start_ap: an AP that is up ignores the second of the two SIPIs. *)
StartAp(c) ==
    /\ pc[Bsp] = "start" /\ pc[c] = "off"
    /\ pc' = [pc EXCEPT ![c] = "boot"]
    /\ UNCHANGED <<reg, sent, boot, intr, msg, work, lock, map, timer>>

(* Mutant: the payload is stored after the flag and the phase. *)
FollowingPayloadLate ==
    [start |-> "wOnline", wOnline |-> "clear1", clear1 |-> "send1", send1 |-> "wAck1",
     wAck1 |-> "prepare", prepare |-> "flag", flag |-> "phase1", phase1 |-> "payload",
     payload |-> "message", wDone |-> "check", check |-> "pte", pte |-> "clear2",
     clear2 |-> "send2", send2 |-> "wAck2", wAck2 |-> "phase2", phase2 |-> "postProbe",
     wPost |-> "clearTimer", clearTimer |-> "gateTest", gateTest |-> "arm",
     broker |-> "wTimer", wTimer |-> "done"]

(* The straight line of run(): what follows each label once its condition
   holds. *)
Following ==
    [start |-> "wOnline", wOnline |-> "clear1", clear1 |-> "send1", send1 |-> "wAck1",
     wAck1 |-> "prepare", prepare |-> "payload", payload |-> "flag", flag |-> "phase1",
     phase1 |-> "message", wDone |-> "check", check |-> "pte", pte |-> "clear2",
     clear2 |-> "send2", send2 |-> "wAck2", wAck2 |-> "phase2", phase2 |-> "postProbe",
     wPost |-> "clearTimer", clearTimer |-> "gateTest", gateTest |-> "arm",
     broker |-> "wTimer", wTimer |-> "done"]

On(label) == Goto(Bsp, label, Following[label])

(* The conditions of the wait_for_mask and wait_for_count calls, and of the
   end of the send loops. *)
WaitOver ==
    [start   |-> \A c \in APs : pc[c] # "off",
     wOnline |-> /\ Cpus \subseteq boot.online /\ Cpus \subseteq boot.cpuLocal
                 /\ boot.ready >= Cardinality(APs),
     send1   |-> sent = APs,
     wAck1   |-> APs \subseteq intr.ack,
     wDone   |-> /\ work.done >= Cardinality(APs)
                 /\ Cpus \subseteq map.pre /\ Cpus \subseteq msg.mask,
     send2   |-> sent = APs,
     wAck2   |-> APs \subseteq intr.ack,
     wPost   |-> Cpus \subseteq map.post,
     broker  |-> sent = APs,
     wTimer  |-> Cpus \subseteq timer.mask]

Waits == {"start", "wOnline", "send1", "wAck1", "wDone", "send2", "wAck2", "wPost",
          "broker", "wTimer"}

Wait ==
    /\ \E w \in Waits : WaitOver[w] /\ On(w)
    /\ sent' = {}
    /\ UNCHANGED <<reg, boot, intr, msg, work, lock, map, timer>>

(* A wait gives up (also wait_icr in the send loops): run() returns its error. *)
GiveUp ==
    /\ \E w \in Waits : ~WaitOver[w] /\ Goto(Bsp, w, "failed")
    /\ UNCHANGED <<reg, sent, boot, intr, msg, work, lock, map, timer>>

(* Mutant: the acknowledgements of the last epoch are not cleared. *)
ClearedAckKept(e) == [intr EXCEPT !.epoch = e]

ClearedAck(e) == [intr EXCEPT !.ack = {}, !.epoch = e]

ClearAck ==
    /\ \/ On("clear1") /\ intr' = ClearedAck(1)
       \/ On("clear2") /\ intr' = ClearedAck(2)
    /\ UNCHANGED <<reg, sent, boot, msg, work, lock, map, timer>>

(* send_fixed_ipi to one more AP. *)
SendIpi(c) ==
    /\ pc[Bsp] \in {"send1", "send2"} /\ c \notin sent
    /\ sent' = sent \cup {c}
    /\ intr' = [intr EXCEPT !.pending = @ \cup {c}]
    /\ UNCHANGED <<pc, reg, boot, msg, work, lock, map, timer>>

(* Mutant: the shared tasks start at 0 and include the seeds. *)
FirstSharedTaskZero == 0

FirstSharedTask == Cardinality(Cpus)

(* The counters are reset while every AP waits for the phase. *)
Prepare ==
    /\ On("prepare")
    /\ work' = [ready |-> 0, expected |-> Cardinality(Cpus), gate |-> FALSE,
                next |-> FirstSharedTask, ran |-> [t \in 0..(Tasks - 1) |-> 0],
                workers |-> {}, active |-> 0, maxActive |-> 0, done |-> 0]
    /\ boot' = [boot EXCEPT !.ready = 0]
    /\ UNCHANGED <<reg, sent, intr, msg, lock, map, timer>>

StorePayload ==
    /\ On("payload")
    /\ msg' = [msg EXCEPT !.payload = TRUE]
    /\ UNCHANGED <<reg, sent, boot, intr, work, lock, map, timer>>

StoreReady ==
    /\ On("flag")
    /\ msg' = [msg EXCEPT !.ready = TRUE]
    /\ UNCHANGED <<reg, sent, boot, intr, work, lock, map, timer>>

StorePhase ==
    /\ \/ On("phase1") /\ boot' = [boot EXCEPT !.phase = 1]
       \/ On("phase2") /\ boot' = [boot EXCEPT !.phase = 2]
    /\ UNCHANGED <<reg, sent, intr, msg, work, lock, map, timer>>

(* What run() demands of the first phase after its waits, and of the second. *)
TaskSum == MapThenSumSet(LAMBDA t : t * work.ran[t], 0..(Tasks - 1))

Accepted ==
    LET required == IF Cardinality(APs) >= 2 THEN 2 ELSE Cardinality(APs) IN
    /\ msg.stale = {} /\ map.stale = {}
    /\ 2 * TaskSum = Tasks * (Tasks - 1)
    /\ Cardinality(work.workers) >= 1 + required
    /\ lock.entries = Cardinality(Cpus)
    /\ lock.once # None
    /\ Cardinality(APs) >= 2 => work.maxActive >= 2

Check ==
    /\ Accepted /\ On("check")
    /\ map' = [map EXCEPT !.stale = {}]
    /\ UNCHANGED <<reg, sent, boot, intr, msg, work, lock, timer>>

Reject ==
    /\ \/ ~Accepted /\ Goto(Bsp, "check", "rejected")
       \/ map.stale # {} /\ Goto(Bsp, "clearTimer", "rejected")
    /\ UNCHANGED <<reg, sent, boot, intr, msg, work, lock, map, timer>>

(* The PTE write, the fences and the BSP's own invlpg. *)
WritePte ==
    /\ On("pte")
    /\ map' = [map EXCEPT !.pte = "B", !.tlb[Bsp] = None]
    /\ UNCHANGED <<reg, sent, boot, intr, msg, work, lock, timer>>

(* The timer mask is cleared, the gate tested with int 0xf2 (which sets the
   BSP's bit) and the mask cleared again. *)
ClearTimer ==
    /\ \/ On("clearTimer") /\ map.stale = {}
       \/ On("gateTest")
    /\ timer' = [timer EXCEPT !.mask = {}]
    /\ UNCHANGED <<reg, sent, boot, intr, msg, work, lock, map>>

(* Mutant: the broker trusts that an AP whose deadline passed has ticked. *)
BrokerNeededUntilIdle(c) == c \notin timer.mask /\ pc[c] # "idle"

BrokerNeeded(c) == c \notin timer.mask

(* The BSP brokers the deadline of an AP that has not ticked. *)
Broker(c) ==
    /\ pc[Bsp] = "broker" /\ c \notin sent
    /\ sent' = sent \cup {c}
    /\ timer' = [timer EXCEPT !.pending = IF BrokerNeeded(c) THEN @ \cup {c} ELSE @]
    /\ UNCHANGED <<pc, reg, boot, intr, msg, work, lock, map>>

(***************************************************************************)
(* The whole.                                                              *)
(***************************************************************************)
ApStep(c) ==
    \/ ApInstall(c) \/ ApAnnounce(c) \/ ApReady(c) \/ ApPhase(c) \/ ApDone(c)

PhaseStep(c) ==
    \/ MessageProbe(c)
    \/ TakeSeed(c) \/ EnterInterval(c) \/ OpenGate(c) \/ PullTask(c) \/ LeaveInterval(c)
    \/ TakeTicket(c) \/ AcquireLock(c) \/ ReleaseLock(c)
    \/ PreProbe(c) \/ PostProbe(c) \/ ArmTimer(c) \/ TimerFallback(c)

Interrupt(c) == IpiInvalidate(c) \/ IpiAcknowledge(c) \/ TimerInterrupt(c)

BspStep ==
    \/ \E c \in APs : StartAp(c) \/ SendIpi(c) \/ Broker(c)
    \/ Wait \/ ClearAck \/ Prepare \/ StorePayload \/ StoreReady \/ StorePhase
    \/ Check \/ Reject \/ WritePte \/ ClearTimer

Next ==
    \/ \E c \in APs : ApStep(c) \/ ApPark(c)
    \/ \E c \in Cpus : PhaseStep(c) \/ Interrupt(c)
    \/ BspStep \/ GiveUp

Spec == Init /\ [][Next]_vars

(* Every CPU keeps executing and takes its IPIs; a wait that cannot end gives
   up in the end.  A deadline interrupt need not come. *)
Fairness ==
    /\ WF_vars(BspStep \/ GiveUp)
    /\ \A c \in APs : WF_vars(ApStep(c) \/ ApPark(c))
    /\ \A c \in Cpus :
          /\ WF_vars(PhaseStep(c))
          /\ WF_vars(IpiInvalidate(c) \/ IpiAcknowledge(c))

FairSpec == Spec /\ Fairness

(***************************************************************************)
(* Properties.                                                             *)
(***************************************************************************)

(* Nothing stale is read across processors: no CPU that passed the acquire of
   the flag and the phase sees the payload from before its release, and once the
   second phase is open no CPU still translates through the replaced mapping,
   although the handler does not look at the epoch. *)
NothingStale ==
    /\ msg.stale = {}
    /\ boot.phase = 2 => \A c \in Cpus : map.tlb[c] # "A"

(* Nothing is lost or doubled: no task is run twice, seeds and shared tasks
   together, and all have run when the BSP leaves its wait (the sum it then
   checks is right because every term is there once); the timer bits it wipes
   while APs already tick are not lost: when it begins to wait, each CPU's bit
   is set or its interrupt is on its way. *)
NothingLost ==
    /\ \A t \in DOMAIN work.ran : work.ran[t] <= 1
    /\ pc[Bsp] = "check" => \A t \in DOMAIN work.ran : work.ran[t] = 1
    /\ pc[Bsp] = "wTimer" => Cpus \subseteq timer.mask \cup timer.pending

(* run() always returns, although the gate, the lock and the message are
   awaited without a limit. *)
BspReturns == <>(pc[Bsp] \in {"done", "failed", "rejected"})
=============================================================================
