--------------------------- MODULE PostFirmwareProofs ---------------------------
(***************************************************************************)
(* The post-firmware kernel for any number of application processors and   *)
(* any number of tasks.  run() is one line of labels, so that where the    *)
(* boot processor stands says what has been stored, sent and acknowledged. *)
(* NothingStale rests on the rounds of interprocessor interrupts: an AP is *)
(* sent one in each round and acknowledges it, so that none is under way   *)
(* between the rounds, and what is acknowledged in the second round was    *)
(* invalidated after the mapping changed.  NothingLost rests on counting   *)
(* the CPUs that have taken a seed.                                        *)
(***************************************************************************)
EXTENDS PostFirmware, FiniteSetTheorems, TLAPS

(***************************************************************************)
(* The labels of run().                                                    *)
(***************************************************************************)

(* What follows each label. *)
LEMMA Followed ==
    /\ Following["start"] = "wOnline" /\ Following["wOnline"] = "clear1"
    /\ Following["clear1"] = "send1" /\ Following["send1"] = "wAck1"
    /\ Following["wAck1"] = "prepare" /\ Following["prepare"] = "payload"
    /\ Following["payload"] = "flag" /\ Following["flag"] = "phase1"
    /\ Following["phase1"] = "message" /\ Following["wDone"] = "check"
    /\ Following["check"] = "pte" /\ Following["pte"] = "clear2"
    /\ Following["clear2"] = "send2" /\ Following["send2"] = "wAck2"
    /\ Following["wAck2"] = "phase2" /\ Following["phase2"] = "postProbe"
    /\ Following["wPost"] = "clearTimer" /\ Following["clearTimer"] = "gateTest"
    /\ Following["gateTest"] = "arm" /\ Following["broker"] = "wTimer"
    /\ Following["wTimer"] = "done"
BY DEF Following

(* The boot processor moves from one label to another. *)
Moves(from, to) == pc[Bsp] = from /\ Bsp \notin intr.handling /\ pc' = [pc EXCEPT ![Bsp] = to]

(* The waits that the proofs are about, and where each wait leads. *)
LEMMA WaitMoves ==
    ASSUME Wait
    PROVE  /\ \/ Moves("start", "wOnline") \/ Moves("wOnline", "clear1")
              \/ sent = APs /\ Moves("send1", "wAck1")
              \/ APs \subseteq intr.ack /\ Moves("wAck1", "prepare")
              \/ Moves("wDone", "check")
              \/ sent = APs /\ Moves("send2", "wAck2")
              \/ APs \subseteq intr.ack /\ Moves("wAck2", "phase2")
              \/ Moves("wPost", "clearTimer")
              \/ sent = APs /\ Moves("broker", "wTimer")
              \/ Moves("wTimer", "done")
           /\ sent' = {} /\ UNCHANGED <<reg, boot, intr, msg, work, lock, map, timer>>
<1>1. PICK w \in Waits : WaitOver[w] /\ On(w)
  BY DEF Wait
<1>2. Moves(w, Following[w])
  BY <1>1 DEF On, Goto, Moves
<1>3. /\ w = "send1" => sent = APs
      /\ w = "wAck1" => APs \subseteq intr.ack
      /\ w = "send2" => sent = APs
      /\ w = "wAck2" => APs \subseteq intr.ack
      /\ w = "broker" => sent = APs
  <2>1. WaitOver["send1"] = (sent = APs) /\ WaitOver["send2"] = (sent = APs)
    BY DEF WaitOver
  <2>2. WaitOver["wAck1"] = (APs \subseteq intr.ack) /\ WaitOver["wAck2"] = (APs \subseteq intr.ack)
    BY DEF WaitOver
  <2>3. WaitOver["broker"] = (sent = APs)
    BY DEF WaitOver
  <2> QED BY <1>1, <2>1, <2>2, <2>3
<1>4. w \in {"start", "wOnline", "send1", "wAck1", "wDone", "send2", "wAck2", "wPost",
             "broker", "wTimer"}
  BY DEF Waits
<1> QED BY <1>2, <1>3, <1>4, Followed DEF Wait

(* A wait that gives up. *)
LEMMA GiveUpMoves ==
    ASSUME GiveUp
    PROVE  /\ \E w \in Waits : Moves(w, "failed")
           /\ UNCHANGED <<reg, sent, boot, intr, msg, work, lock, map, timer>>
BY DEF GiveUp, Goto, Moves

(***************************************************************************)
(* Nothing stale.                                                          *)
(***************************************************************************)
Rounds == {"send1", "wAck1", "send2", "wAck2"}

Types ==
    /\ pc = [c \in Cpus |-> pc[c]] /\ sent \in SUBSET APs
    /\ boot \in [online : SUBSET Cpus, cpuLocal : SUBSET Cpus, ready : Nat, phase : 0..2]
    /\ intr \in [pending : SUBSET APs, handling : SUBSET APs, ack : SUBSET APs, epoch : 0..2]
    /\ msg \in [payload : BOOLEAN, ready : BOOLEAN, mask : SUBSET Cpus, stale : SUBSET Cpus]
    /\ map \in [pte : {"A", "B"}, tlb : [Cpus -> {"A", "B", None}], pre : SUBSET Cpus,
                post : SUBSET Cpus, stale : SUBSET Cpus]

(* The payload is there before the flag. *)
MessageOrder ==
    /\ msg.stale = {}
    /\ msg.ready = TRUE \/ pc[Bsp] = "flag" => msg.payload = TRUE

(* An AP that was sent the IPI of a round has it pending, handles it or has
   acknowledged it, one of the three; between the rounds none is under way. *)
IpiRounds ==
    /\ intr.pending \cap intr.handling = {} /\ intr.pending \cap intr.ack = {}
    /\ intr.handling \cap intr.ack = {}
    /\ pc[Bsp] \notin {"send1", "send2", "broker", "failed"} => sent = {}
    /\ pc[Bsp] \in {"send1", "send2"} => sent = intr.pending \cup intr.handling \cup intr.ack
    /\ pc[Bsp] \notin Rounds \cup {"failed"} => intr.pending = {} /\ intr.handling = {}

(* Who has invalidated in the second round sees the new mapping. *)
TlbClean ==
    /\ boot.phase = 2 \/ pc[Bsp] \in {"clear2", "send2", "wAck2", "phase2"} =>
          map.pte = "B" /\ map.tlb[Bsp] # "A"
    /\ pc[Bsp] \in {"send2", "wAck2"} =>
          \A c \in intr.handling \cup intr.ack : map.tlb[c] # "A"
    /\ boot.phase = 2 \/ pc[Bsp] = "phase2" => \A c \in Cpus : map.tlb[c] # "A"

StaleInv == Types /\ MessageOrder /\ IpiRounds /\ TlbClean

(* Nothing has been stored or sent when run() begins. *)
LEMMA StaleInitial == Init => StaleInv
<1> SUFFICES ASSUME Init PROVE StaleInv
  OBVIOUS
<1>1. Bsp \in Cpus /\ pc[Bsp] = "start"
  BY DEF Init, Cpus
<1>2. Types
  BY DEF Init, Types, Cpus
<1> QED BY <1>1, <1>2 DEF Init, StaleInv, MessageOrder, IpiRounds, TlbClean, Rounds

(* Labels at which the boot processor has something under way. *)
Busy == Rounds \cup {"flag", "clear2", "phase2", "failed"}

(* A step that moves one CPU between other labels and leaves alone what the
   invariant is about. *)
LEMMA LocalKeeps ==
    ASSUME StaleInv, Types', NEW c \in Cpus, NEW from, NEW to, Goto(c, from, to),
           c = Bsp => from \notin Busy \cup {"broker"} /\ to \notin Busy,
           sent' = sent, intr' = intr, msg' = msg, map' = map, boot'.phase = boot.phase
    PROVE  StaleInv'
<1>1. pc'[Bsp] = IF c = Bsp THEN to ELSE pc[Bsp]
  BY DEF Goto, StaleInv, Types, Cpus
<1>2. c = Bsp => pc[Bsp] = from
  BY DEF Goto
<1>3. MessageOrder'
  BY <1>1, <1>2 DEF StaleInv, MessageOrder, Busy
<1>4. IpiRounds'
  BY <1>1, <1>2 DEF StaleInv, IpiRounds, Busy, Rounds
<1>5. TlbClean'
  BY <1>1, <1>2 DEF StaleInv, TlbClean, Busy, Rounds
<1> QED BY <1>3, <1>4, <1>5 DEF StaleInv

(* thermite_ap_rust_entry. *)
LEMMA ApKeeps ==
    ASSUME StaleInv, NEW c \in APs, ApStep(c) \/ ApPark(c)
    PROVE  StaleInv'
<1> USE PostFirmwareAssumption
<1>1. c \in Cpus /\ c # Bsp
  BY DEF Cpus
<1>2. \E from \in {"boot", "announce", "ready", "wPhase1", "wPhase2", "done"},
         to \in {"announce", "parked", "ready", "wPhase1", "message", "postProbe", "wPhase2"} :
         Goto(c, from, to)
  BY DEF ApStep, ApPark, ApInstall, ApAnnounce, ApReady, ApPhase, ApDone
<1>3. /\ sent' = sent /\ intr' = intr /\ msg' = msg /\ map' = map /\ boot'.phase = boot.phase
      /\ Types'
  <2>1. pc' = [d \in Cpus |-> pc'[d]]
    BY <1>2 DEF Goto, StaleInv, Types
  <2>2. /\ sent' = sent /\ intr' = intr /\ msg' = msg /\ map' = map
        /\ boot' = boot \/ boot' = [boot EXCEPT !.cpuLocal = @ \cup {c}]
           \/ boot' = [boot EXCEPT !.online = @ \cup {c}] \/ boot' = [boot EXCEPT !.ready = @ + 1]
    BY DEF ApStep, ApPark, ApInstall, ApAnnounce, ApReady, ApPhase, ApDone
  <2>3. boot' \in [online : SUBSET Cpus, cpuLocal : SUBSET Cpus, ready : Nat, phase : 0..2]
        /\ boot'.phase = boot.phase
    BY <1>1, <2>2 DEF StaleInv, Types
  <2> QED BY <2>1, <2>2, <2>3 DEF StaleInv, Types
<1> QED BY <1>1, <1>2, <1>3, LocalKeeps

(* run_tasks, lock_once and arm_timer. *)
LEMMA WorkKeeps ==
    ASSUME StaleInv, NEW c \in Cpus,
           \/ TakeSeed(c) \/ EnterInterval(c) \/ OpenGate(c) \/ PullTask(c) \/ LeaveInterval(c)
           \/ TakeTicket(c) \/ AcquireLock(c) \/ ReleaseLock(c) \/ ArmTimer(c) \/ TimerFallback(c)
    PROVE  StaleInv'
<1>1. \E from \in {"seed", "enter", "open", "gate", "pull", "leave", "ticket", "acquire",
                   "release", "arm", "deadline"},
         to \in {"ticket", "enter", "open", "gate", "leave", "pull", "acquire", "release",
                 "probe", "deadline", "broker", "idle"} : Goto(c, from, to)
  BY DEF TakeSeed, EnterInterval, OpenGate, PullTask, LeaveInterval, TakeTicket, AcquireLock,
         ReleaseLock, ArmTimer, TimerFallback
<1>2. sent' = sent /\ intr' = intr /\ msg' = msg /\ map' = map /\ boot' = boot
  BY DEF TakeSeed, EnterInterval, OpenGate, PullTask, LeaveInterval, TakeTicket, AcquireLock,
         ReleaseLock, ArmTimer, TimerFallback
<1>3. Types'
  BY <1>1, <1>2 DEF Goto, StaleInv, Types
<1> QED BY <1>1, <1>2, <1>3, LocalKeeps DEF Busy, Rounds

(* message_probe: who sees the flag sees the payload. *)
LEMMA MessageKeeps ==
    ASSUME StaleInv, NEW c \in Cpus, MessageProbe(c)
    PROVE  StaleInv'
<1> USE PostFirmwareAssumption
<1>1. msg.ready = TRUE /\ msg.payload = TRUE
  BY DEF MessageProbe, StaleInv, MessageOrder, Types
<1>2. msg' = [msg EXCEPT !.mask = @ \cup {c}]
  BY <1>1 DEF MessageProbe, StaleInv, Types
<1>3. /\ Goto(c, "message", "seed") /\ sent' = sent /\ intr' = intr /\ map' = map /\ boot' = boot
  BY DEF MessageProbe
<1>4. Types' /\ msg'.stale = msg.stale /\ msg'.ready = msg.ready /\ msg'.payload = msg.payload
  BY <1>2, <1>3 DEF Goto, StaleInv, Types
<1>5. pc'[Bsp] = pc[Bsp] \/ (pc[Bsp] = "message" /\ pc'[Bsp] = "seed")
  BY <1>3 DEF Goto, StaleInv, Types, Cpus
<1>6. MessageOrder' /\ IpiRounds' /\ TlbClean'
  BY <1>1, <1>3, <1>4, <1>5 DEF StaleInv, MessageOrder, IpiRounds, TlbClean, Rounds
<1> QED BY <1>4, <1>6 DEF StaleInv

(* shootdown_probe: a fill reads the mapping as it is. *)
LEMMA ProbeKeeps ==
    ASSUME StaleInv, NEW c \in Cpus, PreProbe(c) \/ PostProbe(c)
    PROVE  StaleInv'
<1> USE PostFirmwareAssumption
<1> DEFINE seen == IF map.tlb[c] = None THEN map.pte ELSE map.tlb[c]
<1>1. /\ sent' = sent /\ intr' = intr /\ msg' = msg /\ boot' = boot
      /\ \E from \in {"probe", "postProbe"}, to \in {"wDone", "done", "wPost", "arm"} : Goto(c, from, to)
  BY DEF PreProbe, PostProbe
<1>2. /\ map'.pte = map.pte /\ map'.tlb = [map.tlb EXCEPT ![c] = seen]
      /\ map' \in [pte : {"A", "B"}, tlb : [Cpus -> {"A", "B", None}], pre : SUBSET Cpus,
                   post : SUBSET Cpus, stale : SUBSET Cpus]
  <2> DEFINE M == [pte : {"A", "B"}, tlb : [Cpus -> {"A", "B", None}], pre : SUBSET Cpus,
                   post : SUBSET Cpus, stale : SUBSET Cpus]
  <2>1. seen \in {"A", "B", None}
    BY DEF StaleInv, Types
  <2>2. \A want : /\ Probed(c, want).pte = map.pte
                  /\ Probed(c, want).tlb = [map.tlb EXCEPT ![c] = seen]
                  /\ Probed(c, want) \in M
    BY <2>1 DEF Probed, StaleInv, Types
  <2>3. \E want : \/ map' = [Probed(c, want) EXCEPT !.pre = @ \cup {c}]
                  \/ map' = [Probed(c, want) EXCEPT !.post = @ \cup {c}]
    BY DEF PreProbe, PostProbe
  <2> QED BY <2>2, <2>3
<1>3. Types'
  BY <1>1, <1>2 DEF Goto, StaleInv, Types
<1>4. pc'[Bsp] = pc[Bsp] \/ (/\ pc[Bsp] \in {"probe", "postProbe"}
                             /\ pc'[Bsp] \in {"wDone", "done", "wPost", "arm"})
  BY <1>1 DEF Goto, StaleInv, Types, Cpus
<1>5. MessageOrder' /\ IpiRounds'
  BY <1>1, <1>4 DEF StaleInv, MessageOrder, IpiRounds, Rounds
<1>6. \A d \in Cpus : map.pte = "B" /\ map.tlb[d] # "A" => map'.tlb[d] # "A"
  BY <1>2 DEF StaleInv, Types
<1>7. Bsp \in Cpus /\ intr.handling \cup intr.ack \subseteq Cpus
  BY DEF Cpus, StaleInv, Types
<1>8. TlbClean'
  BY <1>1, <1>2, <1>4, <1>6, <1>7 DEF StaleInv, TlbClean, Types
<1> QED BY <1>3, <1>5, <1>8 DEF StaleInv

(* thermite_ipi_handler and thermite_timer_handler. *)
LEMMA InterruptKeeps ==
    ASSUME StaleInv, NEW c \in Cpus, Interrupt(c)
    PROVE  StaleInv'
<1> USE PostFirmwareAssumption
<1>1. CASE IpiInvalidate(c)
  <2>1. /\ c \in intr.pending /\ c \in APs
        /\ pc' = pc /\ sent' = sent /\ msg' = msg /\ boot' = boot
    BY <1>1 DEF IpiInvalidate, StaleInv, Types
  <2>2. /\ map'.pte = map.pte /\ map'.tlb = [map.tlb EXCEPT ![c] = None]
        /\ map' \in [pte : {"A", "B"}, tlb : [Cpus -> {"A", "B", None}], pre : SUBSET Cpus,
                     post : SUBSET Cpus, stale : SUBSET Cpus]
    BY <1>1 DEF IpiInvalidate, StaleInv, Types
  <2>3. /\ intr'.pending = intr.pending \ {c} /\ intr'.handling = intr.handling \cup {c}
        /\ intr'.ack = intr.ack
        /\ intr' \in [pending : SUBSET APs, handling : SUBSET APs, ack : SUBSET APs, epoch : 0..2]
    BY <1>1, <2>1 DEF IpiInvalidate, StaleInv, Types
  <2>4. Types'
    BY <2>1, <2>2, <2>3 DEF StaleInv, Types
  <2>5. \A d \in Cpus : map'.tlb[d] # "A" \/ map'.tlb[d] = map.tlb[d]
    BY <2>2 DEF StaleInv, Types
  <2>6. map'.tlb[c] # "A"
    BY <2>2 DEF StaleInv, Types
  <2>7. MessageOrder' /\ IpiRounds'
    BY <2>1, <2>3 DEF StaleInv, MessageOrder, IpiRounds, Rounds
  <2>8. Bsp \in Cpus /\ intr.handling \cup intr.ack \subseteq Cpus
    BY DEF Cpus, StaleInv, Types
  <2>9. TlbClean'
    BY <2>1, <2>2, <2>3, <2>5, <2>6, <2>8 DEF StaleInv, TlbClean
  <2> QED BY <2>4, <2>7, <2>9 DEF StaleInv
<1>2. CASE IpiAcknowledge(c)
  <2>1. /\ c \in intr.handling
        /\ pc' = pc /\ sent' = sent /\ msg' = msg /\ boot' = boot /\ map' = map
    BY <1>2 DEF IpiAcknowledge
  <2>2. /\ intr'.pending = intr.pending /\ intr'.handling = intr.handling \ {c}
        /\ intr'.ack = intr.ack \cup {c}
        /\ intr' \in [pending : SUBSET APs, handling : SUBSET APs, ack : SUBSET APs, epoch : 0..2]
    BY <1>2 DEF IpiAcknowledge, StaleInv, Types
  <2>3. Types'
    BY <2>1, <2>2 DEF StaleInv, Types
  <2> QED BY <2>1, <2>2, <2>3 DEF StaleInv, MessageOrder, IpiRounds, TlbClean, Rounds
<1>3. CASE TimerInterrupt(c)
  BY <1>3 DEF TimerInterrupt, StaleInv, Types, MessageOrder, IpiRounds, TlbClean
<1> QED BY <1>1, <1>2, <1>3 DEF Interrupt

(* The sends of run(): to the APs that are off, by IPI, and the broker's. *)
LEMMA SendKeeps ==
    ASSUME StaleInv, NEW c \in APs, StartAp(c) \/ SendIpi(c) \/ Broker(c)
    PROVE  StaleInv'
<1> USE PostFirmwareAssumption
<1>0. c \in Cpus /\ c # Bsp /\ Bsp \in Cpus
  BY DEF Cpus
<1>1. CASE StartAp(c)
  <2>1. /\ sent' = sent /\ intr' = intr /\ msg' = msg /\ map' = map /\ boot' = boot
        /\ pc' = [pc EXCEPT ![c] = "boot"]
    BY <1>1 DEF StartAp
  <2>2. Types' /\ pc'[Bsp] = pc[Bsp]
    BY <1>0, <2>1 DEF StaleInv, Types
  <2> QED BY <2>1, <2>2 DEF StaleInv, MessageOrder, IpiRounds, TlbClean
<1>2. CASE SendIpi(c)
  <2>1. /\ pc' = pc /\ pc[Bsp] \in {"send1", "send2"} /\ c \notin sent /\ sent' = sent \cup {c}
        /\ msg' = msg /\ map' = map /\ boot' = boot
    BY <1>2 DEF SendIpi
  <2>2. /\ intr'.pending = intr.pending \cup {c} /\ intr'.handling = intr.handling
        /\ intr'.ack = intr.ack
        /\ intr' \in [pending : SUBSET APs, handling : SUBSET APs, ack : SUBSET APs, epoch : 0..2]
    BY <1>2 DEF SendIpi, StaleInv, Types
  <2>3. Types'
    BY <2>1, <2>2 DEF StaleInv, Types
  <2> QED BY <2>1, <2>2, <2>3 DEF StaleInv, MessageOrder, IpiRounds, TlbClean, Rounds
<1>3. CASE Broker(c)
  <2>1. /\ pc' = pc /\ pc[Bsp] = "broker" /\ sent' = sent \cup {c} /\ intr' = intr
        /\ msg' = msg /\ map' = map /\ boot' = boot
    BY <1>3 DEF Broker
  <2>2. Types'
    BY <2>1 DEF StaleInv, Types
  <2> QED BY <2>1, <2>2 DEF StaleInv, MessageOrder, IpiRounds, TlbClean
<1> QED BY <1>1, <1>2, <1>3

(* The waits: the end of a send loop and of its acknowledgements closes a round. *)
LEMMA WaitKeeps ==
    ASSUME StaleInv, Wait \/ GiveUp
    PROVE  StaleInv'
<1>0. Bsp \in Cpus
  BY DEF Cpus
<1>1. CASE Wait
  <2>1. /\ sent' = {} /\ boot' = boot /\ intr' = intr /\ msg' = msg /\ map' = map
    BY <1>1, WaitMoves
  <2>2. \E from, to : Moves(from, to)
    BY <1>1, WaitMoves
  <2>3. Types'
    BY <1>0, <2>1, <2>2 DEF Moves, StaleInv, Types
  <2>4. \A from, to : Moves(from, to) => pc[Bsp] = from /\ pc'[Bsp] = to
    BY <1>0 DEF Moves, StaleInv, Types
  <2>5. \/ sent = APs /\ pc[Bsp] = "send1" /\ pc'[Bsp] = "wAck1"
        \/ sent = APs /\ pc[Bsp] = "send2" /\ pc'[Bsp] = "wAck2"
        \/ APs \subseteq intr.ack /\ pc[Bsp] = "wAck1" /\ pc'[Bsp] = "prepare"
        \/ APs \subseteq intr.ack /\ pc[Bsp] = "wAck2" /\ pc'[Bsp] = "phase2"
        \/ /\ pc[Bsp] \in {"start", "wOnline", "wDone", "wPost", "broker", "wTimer"}
           /\ pc'[Bsp] \in {"wOnline", "clear1", "check", "clearTimer", "wTimer", "done"}
    BY <1>1, <2>4, WaitMoves
  <2>6. MessageOrder'
    BY <2>1, <2>5 DEF StaleInv, MessageOrder
  <2>7. IpiRounds'
    BY <2>1, <2>5 DEF StaleInv, Types, IpiRounds, Rounds
  <2>8. TlbClean'
    BY <1>0, <2>1, <2>5 DEF StaleInv, Types, TlbClean, Cpus
  <2> QED BY <2>3, <2>6, <2>7, <2>8 DEF StaleInv
<1>2. CASE GiveUp
  <2>1. /\ sent' = sent /\ boot' = boot /\ intr' = intr /\ msg' = msg /\ map' = map
    BY <1>2, GiveUpMoves
  <2>2. PICK w \in Waits : Moves(w, "failed")
    BY <1>2, GiveUpMoves
  <2>3. Types' /\ pc'[Bsp] = "failed" /\ pc[Bsp] \in Waits
    BY <1>0, <2>1, <2>2 DEF Moves, StaleInv, Types
  <2> QED BY <2>1, <2>3 DEF StaleInv, MessageOrder, IpiRounds, TlbClean, Waits, Rounds
<1> QED BY <1>1, <1>2

(* The stores of run(). *)
LEMMA StoreKeeps ==
    ASSUME StaleInv, \/ ClearAck \/ Prepare \/ StorePayload \/ StoreReady \/ StorePhase
                     \/ Check \/ Reject \/ WritePte \/ ClearTimer
    PROVE  StaleInv'
<1> USE PostFirmwareAssumption
<1>0. Bsp \in Cpus
  BY DEF Cpus
<1>m. \A from, to : Goto(Bsp, from, to) =>
         pc' = [d \in Cpus |-> pc'[d]] /\ pc[Bsp] = from /\ pc'[Bsp] = to
  BY <1>0 DEF Goto, StaleInv, Types
<1>1. CASE ClearAck
  <2>1. /\ pc' = [d \in Cpus |-> pc'[d]]
        /\ \/ pc[Bsp] = "clear1" /\ pc'[Bsp] = "send1"
           \/ pc[Bsp] = "clear2" /\ pc'[Bsp] = "send2"
        /\ sent' = sent /\ boot' = boot /\ msg' = msg /\ map' = map
    BY <1>1, <1>m, Followed DEF ClearAck, On
  <2>2. /\ intr'.pending = intr.pending /\ intr'.handling = intr.handling /\ intr'.ack = {}
        /\ intr' \in [pending : SUBSET APs, handling : SUBSET APs, ack : SUBSET APs, epoch : 0..2]
    <3>1. \E e \in 0..2 : intr' = [intr EXCEPT !.ack = {}, !.epoch = e]
      BY <1>1 DEF ClearAck, ClearedAck
    <3>2. {} \in SUBSET APs
      OBVIOUS
    <3>3. PICK e \in 0..2 : intr' = [intr EXCEPT !.ack = {}, !.epoch = e]
      BY <3>1
    <3>4. intr \in [pending : SUBSET APs, handling : SUBSET APs, ack : SUBSET APs, epoch : 0..2]
      BY DEF StaleInv, Types
    <3> QED BY <3>2, <3>3, <3>4
  <2>3. Types'
    BY <2>1, <2>2 DEF StaleInv, Types
  <2> QED BY <2>1, <2>2, <2>3 DEF StaleInv, MessageOrder, IpiRounds, TlbClean, Rounds
<1>2. CASE Prepare
  <2>1. /\ pc' = [d \in Cpus |-> pc'[d]] /\ pc[Bsp] = "prepare" /\ pc'[Bsp] = "payload"
        /\ sent' = sent /\ intr' = intr /\ msg' = msg /\ map' = map
        /\ boot' = [boot EXCEPT !.ready = 0]
    BY <1>2, <1>m, Followed DEF Prepare, On
  <2>2. /\ boot' \in [online : SUBSET Cpus, cpuLocal : SUBSET Cpus, ready : Nat, phase : 0..2]
        /\ boot'.phase = boot.phase
    BY <2>1 DEF StaleInv, Types
  <2>3. Types'
    BY <2>1, <2>2 DEF StaleInv, Types
  <2> QED BY <2>1, <2>2, <2>3 DEF StaleInv, MessageOrder, IpiRounds, TlbClean, Rounds
<1>3. CASE StorePayload \/ StoreReady
  <2>1. /\ pc' = [d \in Cpus |-> pc'[d]]
        /\ \/ /\ pc[Bsp] = "payload" /\ pc'[Bsp] = "flag"
              /\ msg' = [msg EXCEPT !.payload = TRUE]
           \/ /\ pc[Bsp] = "flag" /\ pc'[Bsp] = "phase1"
              /\ msg' = [msg EXCEPT !.ready = TRUE]
        /\ sent' = sent /\ intr' = intr /\ boot' = boot /\ map' = map
    BY <1>3, <1>m, Followed DEF StorePayload, StoreReady, On
  <2>2. /\ msg' \in [payload : BOOLEAN, ready : BOOLEAN, mask : SUBSET Cpus, stale : SUBSET Cpus]
        /\ msg'.stale = msg.stale /\ msg'.payload = TRUE
    <3>1. msg \in [payload : BOOLEAN, ready : BOOLEAN, mask : SUBSET Cpus, stale : SUBSET Cpus]
      BY DEF StaleInv, Types
    <3>2. CASE msg' = [msg EXCEPT !.payload = TRUE]
      BY <3>1, <3>2
    <3>3. CASE pc[Bsp] = "flag" /\ msg' = [msg EXCEPT !.ready = TRUE]
      BY <3>1, <3>3 DEF StaleInv, MessageOrder
    <3> QED BY <2>1, <3>2, <3>3
  <2>3. Types' /\ MessageOrder'
    BY <2>1, <2>2 DEF StaleInv, Types, MessageOrder
  <2> QED BY <2>1, <2>3 DEF StaleInv, IpiRounds, TlbClean, Rounds
<1>4. CASE StorePhase
  <2>1. /\ pc' = [d \in Cpus |-> pc'[d]]
        /\ \/ /\ pc[Bsp] = "phase1" /\ pc'[Bsp] = "message"
              /\ boot' = [boot EXCEPT !.phase = 1]
           \/ /\ pc[Bsp] = "phase2" /\ pc'[Bsp] = "postProbe"
              /\ boot' = [boot EXCEPT !.phase = 2]
        /\ sent' = sent /\ intr' = intr /\ msg' = msg /\ map' = map
    BY <1>4, <1>m, Followed DEF StorePhase, On
  <2>2. /\ boot' \in [online : SUBSET Cpus, cpuLocal : SUBSET Cpus, ready : Nat, phase : 0..2]
        /\ pc[Bsp] = "phase1" => boot'.phase = 1
    BY <2>1 DEF StaleInv, Types
  <2>3. Types'
    BY <2>1, <2>2 DEF StaleInv, Types
  <2> QED BY <2>1, <2>2, <2>3 DEF StaleInv, MessageOrder, IpiRounds, TlbClean, Rounds
<1>5. CASE Check \/ Reject
  <2>1. /\ pc' = [d \in Cpus |-> pc'[d]]
        /\ pc[Bsp] \in {"check", "clearTimer"} /\ pc'[Bsp] \in {"pte", "rejected"}
        /\ sent' = sent /\ intr' = intr /\ msg' = msg /\ boot' = boot
        /\ map' = map \/ map' = [map EXCEPT !.stale = {}]
    BY <1>5, <1>m, Followed DEF Check, Reject, On
  <2>2. /\ map' \in [pte : {"A", "B"}, tlb : [Cpus -> {"A", "B", None}], pre : SUBSET Cpus,
                     post : SUBSET Cpus, stale : SUBSET Cpus]
        /\ map'.pte = map.pte /\ map'.tlb = map.tlb
    BY <2>1 DEF StaleInv, Types
  <2>3. Types'
    BY <2>1, <2>2 DEF StaleInv, Types
  <2> QED BY <2>1, <2>2, <2>3 DEF StaleInv, MessageOrder, IpiRounds, TlbClean, Rounds
<1>6. CASE WritePte
  <2>1. /\ pc' = [d \in Cpus |-> pc'[d]] /\ pc[Bsp] = "pte" /\ pc'[Bsp] = "clear2"
        /\ sent' = sent /\ intr' = intr /\ msg' = msg /\ boot' = boot
        /\ map' = [map EXCEPT !.pte = "B", !.tlb[Bsp] = None]
    BY <1>6, <1>m, Followed DEF WritePte, On
  <2>2. /\ map' \in [pte : {"A", "B"}, tlb : [Cpus -> {"A", "B", None}], pre : SUBSET Cpus,
                     post : SUBSET Cpus, stale : SUBSET Cpus]
        /\ map'.pte = "B" /\ map'.tlb = [map.tlb EXCEPT ![Bsp] = None]
    BY <2>1 DEF StaleInv, Types
  <2>3. map'.tlb[Bsp] # "A" /\ \A c \in Cpus : map.tlb[c] # "A" => map'.tlb[c] # "A"
    BY <1>0, <2>2 DEF StaleInv, Types
  <2>4. Types'
    BY <2>1, <2>2 DEF StaleInv, Types
  <2> QED BY <2>1, <2>2, <2>3, <2>4 DEF StaleInv, MessageOrder, IpiRounds, TlbClean, Rounds
<1>7. CASE ClearTimer
  <2>1. /\ pc' = [d \in Cpus |-> pc'[d]]
        /\ pc[Bsp] \in {"clearTimer", "gateTest"} /\ pc'[Bsp] \in {"gateTest", "arm"}
        /\ sent' = sent /\ intr' = intr /\ msg' = msg /\ boot' = boot /\ map' = map
    BY <1>7, <1>m, Followed DEF ClearTimer, On
  <2>2. Types'
    BY <2>1 DEF StaleInv, Types
  <2> QED BY <2>1, <2>2 DEF StaleInv, MessageOrder, IpiRounds, TlbClean, Rounds
<1> QED BY <1>1, <1>2, <1>3, <1>4, <1>5, <1>6, <1>7

(* Every step keeps the invariant. *)
LEMMA StaleInductive == StaleInv /\ [Next]_vars => StaleInv'
<1> SUFFICES ASSUME StaleInv, [Next]_vars PROVE StaleInv'
  OBVIOUS
<1>1. CASE UNCHANGED vars
  BY <1>1 DEF vars, StaleInv, Types, MessageOrder, IpiRounds, TlbClean
<1>2. ASSUME NEW c \in APs, ApStep(c) \/ ApPark(c) PROVE StaleInv'
  BY <1>2, ApKeeps
<1>3. ASSUME NEW c \in Cpus, PhaseStep(c) \/ Interrupt(c) PROVE StaleInv'
  BY <1>3, WorkKeeps, MessageKeeps, ProbeKeeps, InterruptKeeps DEF PhaseStep
<1>4. CASE BspStep \/ GiveUp
  BY <1>4, SendKeeps, WaitKeeps, StoreKeeps DEF BspStep
<1> QED BY <1>1, <1>2, <1>3, <1>4 DEF Next

(* NothingStale, for any number of APs: no CPU reads the payload from before
   its release, and once POST_PHASE is 2 no CPU translates through the replaced
   mapping. *)
THEOREM NothingIsStale == Spec => []NothingStale
<1>1. Init => StaleInv
  BY StaleInitial
<1>2. StaleInv /\ [Next]_vars => StaleInv'
  BY StaleInductive
<1>3. StaleInv => NothingStale
  BY DEF StaleInv, MessageOrder, TlbClean, NothingStale
<1> QED BY <1>1, <1>2, <1>3, PTL DEF Spec

(***************************************************************************)
(* Nothing lost.                                                           *)
(***************************************************************************)
N == Cardinality(Cpus)

ApEarly == {"off", "boot", "parked", "announce", "ready", "wPhase1"}

BspEarly == {"start", "wOnline", "clear1", "send1", "wAck1", "prepare", "payload", "flag",
             "phase1"}

Before == ApEarly \cup BspEarly \cup {"message", "seed"}

After == {"leave", "ticket", "acquire", "release", "probe", "wDone", "check"}

Reset == {"payload", "flag", "phase1"}

(* The counters have been reset for the first phase. *)
Prepared == boot.phase >= 1 \/ pc[Bsp] \in Reset

(* The CPUs that may have taken a seed. *)
Gone == {c \in Cpus : pc[c] \notin Before}

WorkType == [ready : Nat, expected : Nat, gate : BOOLEAN, next : Nat,
             ran : [0..(Tasks - 1) -> Nat], workers : SUBSET Cpus, active : Int,
             maxActive : Int, done : Nat]

LostTypes ==
    /\ reg \in [Cpus -> Nat] /\ work \in WorkType
    /\ lock \in [next : Nat, owner : Nat, entries : Nat, once : Cpus \cup {None}]
    /\ timer \in [armed : SUBSET Cpus, pending : SUBSET Cpus, mask : SUBSET Cpus]

(* Nobody is past the phase that POST_PHASE announces. *)
PhaseOrder ==
    /\ boot.phase = 0 => /\ \A c \in APs : pc[c] \in ApEarly
                         /\ pc[Bsp] \in BspEarly \cup {"failed"}
    /\ pc[Bsp] \in BspEarly => boot.phase = 0

(* The seeds below ready and the shared tasks below next have run once, no other
   task has; a seed was taken only by a CPU that has gone. *)
Counted ==
    /\ ~Prepared => \A t \in 0..(Tasks - 1) : work.ran[t] = 0
    /\ Prepared =>
          /\ work.expected = N /\ work.next >= N /\ work.ready <= Cardinality(Gone)
          /\ \A t \in 0..(Tasks - 1) :
                work.ran[t] = IF t < (IF t < N THEN work.ready ELSE work.next) THEN 1 ELSE 0

(* The gate opens behind the last seed, and nobody leaves before the last
   task is taken. *)
GateOrder ==
    /\ work.gate = TRUE => work.ready >= N
    /\ \A c \in Cpus :
          /\ pc[c] \in {"enter", "open"} => reg[c] < work.ready
          /\ pc[c] = "pull" => work.ready >= N
          /\ pc[c] \in After => work.ready >= N /\ work.next >= Tasks

(* Who has been brokered has ticked or has the interrupt under way. *)
Ticks ==
    /\ pc[Bsp] = "broker" => {Bsp} \cup sent \subseteq timer.mask \cup timer.pending
    /\ pc[Bsp] = "wTimer" => Cpus \subseteq timer.mask \cup timer.pending

LostInv == LostTypes /\ PhaseOrder /\ Counted /\ GateOrder /\ Ticks

(* There is a task for each CPU's seed. *)
LEMMA CpuCount == IsFiniteSet(Cpus) /\ N \in Nat /\ N <= Tasks /\ Bsp \in Cpus
<1>1. IsFiniteSet(Cpus) /\ Cardinality(Cpus) = Cardinality(APs) + 1
  BY PostFirmwareAssumption, FS_AddElement DEF Cpus
<1>2. Cardinality(APs) \in Nat
  BY PostFirmwareAssumption, FS_CardinalityType
<1> QED BY <1>1, <1>2, PostFirmwareAssumption DEF N, Cpus

(* observe_max stays a number. *)
LEMMA MaxOfTwo ==
    ASSUME NEW a \in Int, NEW b \in Int
    PROVE  Max({a, b}) \in Int
<1>1. \E x \in {a, b} : \A y \in {a, b} : x >= y
  OBVIOUS
<1> QED BY <1>1 DEF Max

(* A CPU that goes on stays gone. *)
LEMMA GoneGrows ==
    ASSUME pc = [d \in Cpus |-> pc[d]], NEW c \in Cpus, NEW to, pc' = [pc EXCEPT ![c] = to],
           to \in Before => pc[c] \in Before
    PROVE  Cardinality(Gone) \in Nat /\ Cardinality(Gone') \in Nat
           /\ Cardinality(Gone) <= Cardinality(Gone')
<1>1. Gone \subseteq Gone' /\ Gone' \subseteq Cpus
  BY DEF Gone
<1>2. IsFiniteSet(Gone')
  BY <1>1, CpuCount, FS_Subset
<1> QED BY <1>1, <1>2, FS_Subset, FS_CardinalityType

(* Two records that agree in what the invariant is about. *)
Agree(v, w) ==
    /\ v.ready = w.ready /\ v.next = w.next /\ v.ran = w.ran
    /\ v.expected = w.expected /\ v.gate = w.gate

(* POST_AP_DONE and POST_ACTIVE do not matter to the tasks. *)
LEMMA DoneApart ==
    ASSUME NEW w \in WorkType, NEW d \in Nat
    PROVE  [w EXCEPT !.done = d] \in WorkType /\ Agree([w EXCEPT !.done = d], w)
BY DEF WorkType, Agree

LEMMA ActiveApart ==
    ASSUME NEW w \in WorkType, NEW a \in Int
    PROVE  [w EXCEPT !.active = a] \in WorkType /\ Agree([w EXCEPT !.active = a], w)
BY DEF WorkType, Agree

LEMMA MaxActiveApart ==
    ASSUME NEW w \in WorkType, NEW m \in Int
    PROVE  [w EXCEPT !.maxActive = m] \in WorkType /\ Agree([w EXCEPT !.maxActive = m], w)
BY DEF WorkType, Agree

(***************************************************************************)
(* The steps that neither take a task nor open a phase.                    *)
(***************************************************************************)

(* A move after which the invariant asks for no more than before. *)
Ordinary(c, from, to) ==
    /\ to \in Before => from \in Before
    /\ to \in After => from \in After
    /\ to = "open" => from = "enter"
    /\ to \notin {"enter", "pull"} /\ from # "failed"
    /\ c = Bsp => /\ from \in BspEarly => to \in BspEarly \cup {"failed"}
                  /\ to \in BspEarly => from \in BspEarly
                  /\ to \in Reset <=> from \in Reset
                  /\ to \notin {"broker", "wTimer"}

LEMMA MoveKeeps ==
    ASSUME StaleInv, LostInv, LostTypes', NEW c \in Cpus, NEW from, NEW to,
           pc[c] = from, pc' = [pc EXCEPT ![c] = to], Ordinary(c, from, to),
           c # Bsp /\ boot.phase = 0 => to \in ApEarly,
           boot'.phase = boot.phase, Agree(work', work),
           \A d \in Cpus : d # c \/ to = "open" => reg'[d] = reg[d],
           c # Bsp => /\ sent' = sent
                      /\ timer.mask \cup timer.pending \subseteq timer'.mask \cup timer'.pending
    PROVE  LostInv'
<1> USE CpuCount
<1>1. /\ pc = [d \in Cpus |-> pc[d]] /\ pc'[c] = to
      /\ \A d \in Cpus : d # c => pc'[d] = pc[d]
      /\ boot.phase \in 0..2
  BY DEF StaleInv, Types
<1>2. PhaseOrder' /\ (Prepared' <=> Prepared)
  <2>1. c # Bsp => pc'[Bsp] = pc[Bsp]
    BY <1>1
  <2>2. boot'.phase = 0 => \A d \in APs : pc'[d] \in ApEarly
    BY <1>1, PostFirmwareAssumption DEF LostInv, PhaseOrder, Cpus
  <2>3. pc'[Bsp] \in BspEarly => boot'.phase = 0
    BY <1>1, <2>1 DEF LostInv, PhaseOrder, Ordinary
  <2>4. boot'.phase = 0 => pc'[Bsp] \in BspEarly \cup {"failed"}
    BY <1>1, <2>1 DEF LostInv, PhaseOrder, Ordinary
  <2>5. Prepared' <=> Prepared
    BY <1>1, <2>1 DEF Prepared, Ordinary
  <2> QED BY <2>2, <2>3, <2>4, <2>5 DEF PhaseOrder
<1>3. Counted'
  <2>1. /\ Cardinality(Gone) \in Nat /\ Cardinality(Gone') \in Nat
        /\ Cardinality(Gone) <= Cardinality(Gone')
    BY <1>1, GoneGrows DEF Ordinary
  <2>2. work.ready \in Nat
    BY DEF LostInv, LostTypes, WorkType
  <2> QED BY <1>2, <2>1, <2>2 DEF LostInv, Counted, Agree
<1>4. GateOrder'
  <2>1. SUFFICES ASSUME NEW d \in Cpus
                 PROVE  /\ pc'[d] \in {"enter", "open"} => reg'[d] < work'.ready
                        /\ pc'[d] = "pull" => work'.ready >= N
                        /\ pc'[d] \in After => work'.ready >= N /\ work'.next >= Tasks
    BY DEF LostInv, GateOrder, Agree
  <2>2. CASE d = c
    BY <1>1, <2>2 DEF LostInv, GateOrder, Agree, Ordinary
  <2>3. CASE d # c
    BY <1>1, <2>3 DEF LostInv, GateOrder, Agree
  <2> QED BY <2>2, <2>3
<1>5. Ticks'
  <2>1. CASE c = Bsp
    BY <1>1, <2>1 DEF Ticks, Ordinary
  <2>2. CASE c # Bsp
    BY <1>1, <2>2 DEF LostInv, Ticks
  <2> QED BY <2>1, <2>2
<1> QED BY <1>2, <1>3, <1>4, <1>5 DEF LostInv

(* A step that leaves every CPU where it is. *)
LEMMA StayKeeps ==
    ASSUME StaleInv, LostInv, LostTypes', pc' = pc, boot' = boot, work' = work, reg' = reg,
           timer.mask \cup timer.pending \subseteq timer'.mask \cup timer'.pending,
           pc[Bsp] = "broker" => sent' \subseteq sent \cup timer'.mask \cup timer'.pending
    PROVE  LostInv'
<1>1. PhaseOrder' /\ Counted' /\ GateOrder'
  BY DEF LostInv, PhaseOrder, Counted, GateOrder, Prepared, Gone
<1>2. Ticks'
  BY DEF LostInv, Ticks
<1> QED BY <1>1, <1>2 DEF LostInv

(* thermite_ap_rust_entry. *)
LEMMA ApCounts ==
    ASSUME StaleInv, LostInv, NEW c \in APs, ApStep(c) \/ ApPark(c)
    PROVE  LostInv'
<1> USE PostFirmwareAssumption
<1>1. c \in Cpus /\ c # Bsp
  BY DEF Cpus
<1>2. /\ \/ Goto(c, "boot", "announce") \/ Goto(c, "boot", "parked")
         \/ Goto(c, "announce", "ready") \/ Goto(c, "ready", "wPhase1")
         \/ boot.phase >= 1 /\ Goto(c, "wPhase1", "message")
         \/ boot.phase >= 2 /\ Goto(c, "wPhase2", "postProbe")
         \/ Goto(c, "done", "wPhase2")
      /\ reg' = reg /\ sent' = sent /\ timer' = timer /\ lock' = lock
      /\ work' = work \/ work' = [work EXCEPT !.done = @ + 1]
      /\ \/ boot' = boot \/ boot' = [boot EXCEPT !.cpuLocal = @ \cup {c}]
         \/ boot' = [boot EXCEPT !.online = @ \cup {c}] \/ boot' = [boot EXCEPT !.ready = @ + 1]
  BY DEF ApStep, ApPark, ApInstall, ApAnnounce, ApReady, ApPhase, ApDone
<1>3. boot'.phase = boot.phase /\ boot.phase \in 0..2
  BY <1>2 DEF StaleInv, Types
<1>4. Agree(work', work) /\ LostTypes'
  <2>1. work \in WorkType /\ work.done + 1 \in Nat
    BY SMTT(40) DEF LostInv, LostTypes, WorkType
  <2>2. work' \in WorkType /\ Agree(work', work)
    <3>1. CASE work' = work
      BY <2>1, <3>1 DEF Agree
    <3>2. CASE work' = [work EXCEPT !.done = @ + 1]
      BY <2>1, <3>2, DoneApart
    <3> QED BY <1>2, <3>1, <3>2
  <2> QED BY <1>2, <2>2 DEF LostInv, LostTypes
<1>6. PICK from, to : /\ Goto(c, from, to)
                      /\ \/ from = "boot" /\ to \in {"announce", "parked"}
                         \/ from = "announce" /\ to = "ready"
                         \/ from = "ready" /\ to = "wPhase1"
                         \/ boot.phase >= 1 /\ from = "wPhase1" /\ to = "message"
                         \/ boot.phase >= 2 /\ from = "wPhase2" /\ to = "postProbe"
                         \/ from = "done" /\ to = "wPhase2"
  BY <1>2
<1>7. Ordinary(c, from, to)
  BY <1>1, <1>6 DEF Ordinary, Before, After, ApEarly, BspEarly
<1>8. boot.phase = 0 => to \in ApEarly
  <2>1. boot.phase = 0 => pc[c] \in ApEarly
    BY DEF LostInv, PhaseOrder
  <2> QED BY <1>3, <1>6, <2>1 DEF Goto, ApEarly
<1>9. pc[c] = from /\ pc' = [pc EXCEPT ![c] = to]
  BY <1>6 DEF Goto
<1> QED BY <1>1, <1>2, <1>3, <1>4, <1>7, <1>8, <1>9, MoveKeeps

(* message_probe, lock_once, shootdown_probe and the deadline. *)
LEMMA PassCounts ==
    ASSUME StaleInv, LostInv, NEW c \in Cpus,
           \/ MessageProbe(c) \/ TakeTicket(c) \/ AcquireLock(c) \/ ReleaseLock(c)
           \/ PreProbe(c) \/ PostProbe(c) \/ ArmTimer(c) \/ (c # Bsp /\ TimerFallback(c))
    PROVE  LostInv'
<1>1. PICK from, to :
         /\ Goto(c, from, to)
         /\ \/ from = "message" /\ to = "seed"
            \/ from = "ticket" /\ to = "acquire"
            \/ from = "acquire" /\ to = "release"
            \/ from = "release" /\ to = "probe"
            \/ from = "probe" /\ to \in {"wDone", "done"}
            \/ from = "postProbe" /\ to \in {"wPost", "arm"}
            \/ from = "arm" /\ to = "deadline"
            \/ c # Bsp /\ from = "deadline" /\ to \in {"broker", "idle"}
  BY DEF MessageProbe, TakeTicket, AcquireLock, ReleaseLock, PreProbe, PostProbe, ArmTimer,
         TimerFallback
<1>2. Ordinary(c, from, to)
  BY <1>1 DEF Ordinary, Before, After, ApEarly, BspEarly, Reset
<1>3. pc[c] = from /\ pc' = [pc EXCEPT ![c] = to]
  BY <1>1 DEF Goto
<1>4. boot' = boot /\ work' = work /\ sent' = sent
  BY DEF MessageProbe, TakeTicket, AcquireLock, ReleaseLock, PreProbe, PostProbe, ArmTimer,
         TimerFallback
<1>5. c # Bsp => boot.phase # 0
  <2>1. c # Bsp /\ boot.phase = 0 => pc[c] \in ApEarly
    BY DEF LostInv, PhaseOrder, Cpus
  <2> QED BY <1>1, <1>3, <2>1 DEF ApEarly
<1>6. \A d \in Cpus : d # c \/ to = "open" => reg'[d] = reg[d]
  <2>1. reg' = reg \/ reg' = [reg EXCEPT ![c] = lock.next]
    BY DEF MessageProbe, TakeTicket, AcquireLock, ReleaseLock, PreProbe, PostProbe, ArmTimer,
           TimerFallback
  <2> QED BY <1>1, <2>1 DEF LostInv, LostTypes
<1>7. timer.mask \cup timer.pending \subseteq timer'.mask \cup timer'.pending
      /\ timer' \in [armed : SUBSET Cpus, pending : SUBSET Cpus, mask : SUBSET Cpus]
  <2>1. \/ timer' = timer \/ timer' = [timer EXCEPT !.armed = @ \cup {c}]
        \/ timer' = [timer EXCEPT !.pending = @ \cup {c}]
    BY DEF MessageProbe, TakeTicket, AcquireLock, ReleaseLock, PreProbe, PostProbe, ArmTimer,
           TimerFallback, LostInv, LostTypes
  <2> QED BY <2>1 DEF LostInv, LostTypes
<1>8. LostTypes'
  <2>1. reg' \in [Cpus -> Nat]
    <3>1. reg' = reg \/ reg' = [reg EXCEPT ![c] = lock.next]
      BY DEF MessageProbe, TakeTicket, AcquireLock, ReleaseLock, PreProbe, PostProbe, ArmTimer,
             TimerFallback
    <3> QED BY <3>1 DEF LostInv, LostTypes
  <2>2. lock' \in [next : Nat, owner : Nat, entries : Nat, once : Cpus \cup {None}]
    <3>1. \/ lock' = lock \/ lock' = [lock EXCEPT !.next = @ + 1]
          \/ lock' = [lock EXCEPT !.entries = @ + 1]
          \/ lock' = [lock EXCEPT !.owner = reg[c] + 1, !.once = IF @ = None THEN c ELSE @]
      BY DEF MessageProbe, TakeTicket, AcquireLock, ReleaseLock, NextOwner, PreProbe, PostProbe,
             ArmTimer, TimerFallback
    <3>2. /\ reg[c] + 1 \in Nat /\ lock.next + 1 \in Nat /\ lock.entries + 1 \in Nat
          /\ (IF lock.once = None THEN c ELSE lock.once) \in Cpus \cup {None}
      BY DEF LostInv, LostTypes
    <3>3. lock \in [next : Nat, owner : Nat, entries : Nat, once : Cpus \cup {None}]
      BY DEF LostInv, LostTypes
    <3>4. CASE lock' = [lock EXCEPT !.owner = reg[c] + 1, !.once = IF @ = None THEN c ELSE @]
      BY <3>2, <3>3, <3>4
    <3>5. CASE \/ lock' = lock \/ lock' = [lock EXCEPT !.next = @ + 1]
               \/ lock' = [lock EXCEPT !.entries = @ + 1]
      BY <3>2, <3>3, <3>5
    <3> QED BY <3>1, <3>4, <3>5
  <2> QED BY <1>4, <1>7, <2>1, <2>2 DEF LostInv, LostTypes
<1>9. /\ Agree(work', work) /\ boot'.phase = boot.phase
      /\ c # Bsp /\ boot.phase = 0 => to \in ApEarly
      /\ c # Bsp =>
           /\ sent' = sent
           /\ timer.mask \cup timer.pending \subseteq timer'.mask \cup timer'.pending
  BY <1>4, <1>5, <1>7 DEF Agree
<1> QED BY <1>2, <1>3, <1>6, <1>8, <1>9, MoveKeeps

(* POST_ACTIVE counts the CPUs in the interval. *)
LEMMA IntervalCounts ==
    ASSUME StaleInv, LostInv, NEW c \in Cpus, EnterInterval(c) \/ LeaveInterval(c)
    PROVE  LostInv'
<1>1. PICK from, to : /\ Goto(c, from, to)
                      /\ \/ from = "enter" /\ to = "open"
                         \/ from = "leave" /\ to = "ticket"
  BY DEF EnterInterval, LeaveInterval
<1>2. Ordinary(c, from, to)
  BY <1>1 DEF Ordinary, Before, After, ApEarly, BspEarly, Reset
<1>3. pc[c] = from /\ pc' = [pc EXCEPT ![c] = to]
  BY <1>1 DEF Goto
<1>4. boot' = boot /\ reg' = reg /\ sent' = sent /\ timer' = timer /\ lock' = lock
  BY DEF EnterInterval, LeaveInterval
<1>5. c # Bsp => boot.phase # 0
  <2>1. c # Bsp /\ boot.phase = 0 => pc[c] \in ApEarly
    BY DEF LostInv, PhaseOrder, Cpus
  <2> QED BY <1>1, <1>3, <2>1 DEF ApEarly
<1>6. work' \in WorkType /\ Agree(work', work)
  <2>1. work \in WorkType /\ work.active \in Int /\ work.maxActive \in Int
    BY DEF LostInv, LostTypes, WorkType
  <2>2. CASE EnterInterval(c)
    <3> DEFINE m == Max({work.maxActive, work.active + 1})
               w == [work EXCEPT !.active = work.active + 1]
    <3>1. m \in Int
      BY <2>1, MaxOfTwo
    <3>2. w \in WorkType /\ Agree(w, work)
      BY <2>1, ActiveApart
    <3>3. work' = [w EXCEPT !.maxActive = m]
      BY <2>1, <2>2 DEF EnterInterval, WorkType
    <3> HIDE DEF m, w
    <3>4. work' \in WorkType /\ Agree(work', w)
      BY <3>1, <3>2, <3>3, MaxActiveApart
    <3> QED BY <3>2, <3>4 DEF Agree
  <2>3. CASE LeaveInterval(c)
    BY <2>1, <2>3, ActiveApart DEF LeaveInterval
  <2> QED BY <2>2, <2>3
<1>7. LostTypes'
  BY <1>4, <1>6 DEF LostInv, LostTypes
<1> QED BY <1>2, <1>3, <1>4, <1>5, <1>6, <1>7, MoveKeeps

(* The interrupts, and the sends that leave run() where it is. *)
LEMMA SignalCounts ==
    ASSUME StaleInv, LostInv,
           \/ \E c \in Cpus : Interrupt(c)
           \/ \E c \in APs : SendIpi(c) \/ Broker(c)
    PROVE  LostInv'
<1>1. ASSUME NEW c \in Cpus, Interrupt(c) PROVE LostInv'
  <2>1. /\ pc' = pc /\ boot' = boot /\ work' = work /\ reg' = reg /\ sent' = sent /\ lock' = lock
        /\ \/ timer' = timer
           \/ timer' = [timer EXCEPT !.mask = @ \cup {c}, !.armed = @ \ {c}, !.pending = @ \ {c}]
    BY <1>1 DEF Interrupt, IpiInvalidate, IpiAcknowledge, TimerInterrupt
  <2>2. /\ timer.mask \cup timer.pending \subseteq timer'.mask \cup timer'.pending
        /\ timer' \in [armed : SUBSET Cpus, pending : SUBSET Cpus, mask : SUBSET Cpus]
    <3>1. timer \in [armed : SUBSET Cpus, pending : SUBSET Cpus, mask : SUBSET Cpus]
      BY DEF LostInv, LostTypes
    <3>2. CASE timer' = [timer EXCEPT !.mask = @ \cup {c}, !.armed = @ \ {c},
                                      !.pending = @ \ {c}]
      <4>1. /\ timer'.mask = timer.mask \cup {c} /\ timer'.pending = timer.pending \ {c}
            /\ timer' \in [armed : SUBSET Cpus, pending : SUBSET Cpus, mask : SUBSET Cpus]
        BY <3>1, <3>2
      <4> QED BY <4>1
    <3> QED BY <2>1, <3>1, <3>2
  <2>3. LostTypes'
    BY <2>1, <2>2 DEF LostInv, LostTypes
  <2> QED BY <2>1, <2>2, <2>3, StayKeeps
<1>2. ASSUME NEW c \in APs, SendIpi(c) \/ Broker(c) PROVE LostInv'
  <2>0. c \in Cpus
    BY DEF Cpus
  <2>1. /\ pc' = pc /\ boot' = boot /\ work' = work /\ reg' = reg /\ lock' = lock
        /\ \/ timer' = timer /\ (pc[Bsp] \in {"send1", "send2"} \/ c \in timer.mask)
           \/ timer' = [timer EXCEPT !.pending = @ \cup {c}]
        /\ sent' = sent \cup {c}
    BY <1>2 DEF SendIpi, Broker, BrokerNeeded, LostInv, LostTypes
  <2>2. /\ timer.mask \cup timer.pending \subseteq timer'.mask \cup timer'.pending
        /\ timer' \in [armed : SUBSET Cpus, pending : SUBSET Cpus, mask : SUBSET Cpus]
        /\ pc[Bsp] \in {"send1", "send2"} \/ c \in timer'.mask \cup timer'.pending
    BY <2>0, <2>1 DEF LostInv, LostTypes
  <2>3. LostTypes'
    BY <2>1, <2>2 DEF LostInv, LostTypes
  <2> QED BY <2>1, <2>2, <2>3, StayKeeps
<1> QED BY <1>1, <1>2

(***************************************************************************)
(* run_tasks.                                                              *)
(***************************************************************************)

(* What holds of a CPU at work in the first phase. *)
LEMMA AtWork ==
    ASSUME StaleInv, LostInv, NEW c \in Cpus, pc[c] \in {"seed", "open", "gate", "pull"}
    PROVE  /\ boot.phase \in 0..2 /\ boot.phase # 0 /\ Prepared
           /\ pc = [d \in Cpus |-> pc[d]] /\ pc[Bsp] \notin BspEarly
           /\ work \in WorkType /\ reg \in [Cpus -> Nat]
           /\ work.expected = N /\ work.next >= N /\ work.ready <= Cardinality(Gone)
           /\ \A t \in 0..(Tasks - 1) :
                 work.ran[t] = IF t < (IF t < N THEN work.ready ELSE work.next) THEN 1 ELSE 0
<1>1. boot.phase \in 0..2 /\ pc = [d \in Cpus |-> pc[d]]
  BY DEF StaleInv, Types
<1>2. pc[c] \notin ApEarly /\ pc[c] \notin BspEarly /\ pc[c] # "failed"
  BY DEF ApEarly, BspEarly
<1>3. boot.phase # 0
  BY <1>2 DEF LostInv, PhaseOrder, Cpus
<1>4. pc[Bsp] \notin BspEarly
  BY <1>3 DEF LostInv, PhaseOrder
<1>5. Prepared
  BY <1>1, <1>3 DEF Prepared
<1>6. work \in WorkType /\ reg \in [Cpus -> Nat]
  BY DEF LostInv, LostTypes
<1> QED BY <1>1, <1>3, <1>4, <1>5, <1>6 DEF LostInv, Counted

(* A CPU at work stays past the line of run(), and the phase with it. *)
LEMMA WorkMove ==
    ASSUME StaleInv, LostInv, NEW c \in Cpus, pc[c] \in {"seed", "open", "gate", "pull"},
           NEW to \in {"enter", "gate", "pull", "leave"}, pc' = [pc EXCEPT ![c] = to],
           boot' = boot, sent' = sent, timer' = timer
    PROVE  PhaseOrder' /\ Prepared' /\ Ticks'
<1> USE CpuCount
<1>1. /\ boot.phase \in 0..2 /\ boot.phase # 0 /\ pc = [d \in Cpus |-> pc[d]]
      /\ pc[Bsp] \notin BspEarly
  BY AtWork
<1>2. pc'[Bsp] = IF c = Bsp THEN to ELSE pc[Bsp]
  BY <1>1
<1>3. to \notin BspEarly /\ to \notin {"broker", "wTimer"}
  BY DEF BspEarly
<1>4. PhaseOrder'
  BY <1>1, <1>2, <1>3 DEF PhaseOrder
<1>5. Ticks'
  BY <1>2, <1>3 DEF LostInv, Ticks
<1> QED BY <1>1, <1>4, <1>5 DEF Prepared

(* run_tasks takes a seed: fewer seeds are taken than there are CPUs, for this
   one has not gone, so that the seed is a task not run before. *)
LEMMA SeedCounts ==
    ASSUME StaleInv, LostInv, NEW c \in Cpus, TakeSeed(c)
    PROVE  LostInv'
<1> USE CpuCount
<1>1. pc[c] = "seed"
  BY DEF TakeSeed, Goto
<1>2. /\ pc = [d \in Cpus |-> pc[d]] /\ work \in WorkType /\ reg \in [Cpus -> Nat]
      /\ work.expected = N /\ work.next >= N /\ work.ready <= Cardinality(Gone)
      /\ \A t \in 0..(Tasks - 1) :
            work.ran[t] = IF t < (IF t < N THEN work.ready ELSE work.next) THEN 1 ELSE 0
  BY <1>1, AtWork
<1>3. /\ work.ready \in Nat /\ work.ran \in [0..(Tasks - 1) -> Nat] /\ work.next \in Nat
      /\ Tasks \in Nat
  BY <1>2, PostFirmwareAssumption DEF WorkType
<1>4. /\ IsFiniteSet(Gone) /\ Cardinality(Gone) \in Nat
      /\ Cardinality(Gone \cup {c}) = Cardinality(Gone) + 1 /\ Cardinality(Gone \cup {c}) <= N
  <2>1. Gone \cup {c} \subseteq Cpus /\ c \notin Gone
    BY <1>1 DEF Gone, Before
  <2>2. IsFiniteSet(Gone \cup {c}) /\ IsFiniteSet(Gone) /\ Cardinality(Gone \cup {c}) <= N
    BY <2>1, FS_Subset DEF N
  <2> QED BY <2>1, <2>2, FS_AddElement, FS_CardinalityType
<1>5. work.ready < N /\ work.ready \in 0..(Tasks - 1)
  BY <1>2, <1>3, <1>4
<1>6. /\ Goto(c, "seed", "enter") /\ reg' = [reg EXCEPT ![c] = work.ready]
      /\ work' = [work EXCEPT !.ready = @ + 1, !.ran[work.ready] = @ + 1,
                              !.workers = @ \cup {c}]
      /\ sent' = sent /\ boot' = boot /\ lock' = lock /\ timer' = timer
  BY <1>2, <1>3, <1>5 DEF TakeSeed
<1>7. /\ work'.ready = work.ready + 1 /\ work'.next = work.next /\ work'.expected = work.expected
      /\ work'.gate = work.gate
      /\ work'.ran = [work.ran EXCEPT ![work.ready] = work.ran[work.ready] + 1]
  BY <1>2, <1>6 DEF WorkType
<1>8. work' \in WorkType
  <2>1. [work.ran EXCEPT ![work.ready] = work.ran[work.ready] + 1] \in [0..(Tasks - 1) -> Nat]
    BY <1>3, <1>5
  <2>2. work.workers \cup {c} \in SUBSET Cpus /\ work.ready + 1 \in Nat
    BY <1>2, <1>3 DEF WorkType
  <2> QED BY <1>2, <1>6, <2>1, <2>2 DEF WorkType
<1>9. pc' = [pc EXCEPT ![c] = "enter"] /\ pc'[c] = "enter" /\ \A d \in Cpus : d # c => pc'[d] = pc[d]
  BY <1>2, <1>6 DEF Goto
<1>10. PhaseOrder' /\ Prepared' /\ Ticks'
  BY <1>1, <1>6, <1>9, WorkMove
<1>11. LostTypes'
  <2>1. reg' \in [Cpus -> Nat]
    BY <1>2, <1>3, <1>6
  <2> QED BY <1>6, <1>8, <2>1 DEF LostInv, LostTypes
<1>12. Counted'
  <2>1. Gone' = Gone \cup {c}
    BY <1>9 DEF Gone, Before, ApEarly, BspEarly
  <2>2. work'.ready <= Cardinality(Gone')
    BY <1>2, <1>3, <1>4, <1>7, <2>1
  <2>3. ASSUME NEW t \in 0..(Tasks - 1)
        PROVE  work'.ran[t] = IF t < (IF t < N THEN work'.ready ELSE work'.next) THEN 1 ELSE 0
    <3>1. CASE t = work.ready
      <4>1. work.ran[t] = 0
        BY <1>2, <1>3, <1>5, <3>1
      <4>2. work'.ran[t] = 1
        BY <1>3, <1>5, <1>7, <3>1, <4>1
      <4> QED BY <1>3, <1>5, <1>7, <3>1, <4>2
    <3>2. CASE t # work.ready
      <4>1. work'.ran[t] = work.ran[t]
        BY <1>3, <1>7, <3>2
      <4> QED BY <1>2, <1>3, <1>7, <3>2, <4>1
    <3> QED BY <3>1, <3>2
  <2> QED BY <1>2, <1>7, <1>10, <2>2, <2>3 DEF Counted
<1>13. GateOrder'
  <2>1. work.ready < work'.ready
    BY <1>3, <1>7
  <2>2. work'.gate = TRUE => work'.ready >= N
    BY <1>3, <1>5, <1>7 DEF LostInv, GateOrder
  <2>3. ASSUME NEW d \in Cpus
        PROVE  /\ pc'[d] \in {"enter", "open"} => reg'[d] < work'.ready
               /\ pc'[d] = "pull" => work'.ready >= N
               /\ pc'[d] \in After => work'.ready >= N /\ work'.next >= Tasks
    <3>1. CASE d = c
      BY <1>2, <1>6, <1>9, <2>1, <3>1 DEF After
    <3>2. CASE d # c
      <4>1. pc'[d] = pc[d] /\ reg'[d] = reg[d] /\ reg[d] \in Nat
        BY <1>2, <1>6, <1>9, <3>2
      <4> QED BY <1>3, <1>7, <2>1, <4>1 DEF LostInv, GateOrder
    <3> QED BY <3>1, <3>2
  <2> QED BY <2>2, <2>3 DEF GateOrder
<1> QED BY <1>10, <1>11, <1>12, <1>13 DEF LostInv

(* The gate opens when the last seed is taken. *)
LEMMA GateCounts ==
    ASSUME StaleInv, LostInv, NEW c \in Cpus, OpenGate(c)
    PROVE  LostInv'
<1> USE CpuCount
<1>1. pc[c] = "open"
  BY DEF OpenGate, Goto
<1>2. /\ pc = [d \in Cpus |-> pc[d]] /\ work \in WorkType /\ reg \in [Cpus -> Nat]
      /\ work.expected = N /\ work.next >= N /\ work.ready <= Cardinality(Gone)
      /\ \A t \in 0..(Tasks - 1) :
            work.ran[t] = IF t < (IF t < N THEN work.ready ELSE work.next) THEN 1 ELSE 0
  BY <1>1, AtWork
<1>3. work.ready \in Nat /\ reg[c] \in Nat /\ reg[c] < work.ready /\ work.gate \in BOOLEAN
  BY <1>1, <1>2 DEF WorkType, LostInv, GateOrder
<1>4. /\ work'.ready = work.ready /\ work'.next = work.next /\ work'.expected = work.expected
      /\ work'.ran = work.ran
      /\ work' \in WorkType
  <2>1. (work.gate \/ LastSeed(c)) \in BOOLEAN
    OBVIOUS
  <2>2. work' = [work EXCEPT !.gate = (work.gate \/ LastSeed(c))]
    BY DEF OpenGate
  <2> QED BY <1>2, <2>1, <2>2 DEF WorkType
<1>5. work'.gate = TRUE => work'.ready >= N
  <2>1. work'.gate = (work.gate \/ LastSeed(c))
    BY <1>2 DEF OpenGate, WorkType
  <2>2. LastSeed(c) => work.ready >= N
    BY <1>2, <1>3 DEF LastSeed
  <2>3. work.gate => work.ready >= N
    BY <1>3 DEF LostInv, GateOrder
  <2> QED BY <1>4, <2>1, <2>2, <2>3
<1>6. /\ reg' = reg /\ sent' = sent /\ boot' = boot /\ lock' = lock /\ timer' = timer
      /\ pc' = [pc EXCEPT ![c] = "gate"] /\ pc'[c] = "gate"
      /\ \A d \in Cpus : d # c => pc'[d] = pc[d]
  BY <1>2 DEF OpenGate, Goto
<1>7. PhaseOrder' /\ Prepared' /\ Ticks'
  BY <1>1, <1>6, WorkMove
<1>8. LostTypes'
  BY <1>4, <1>6 DEF LostInv, LostTypes
<1>9. Counted'
  <2>1. /\ Cardinality(Gone) \in Nat /\ Cardinality(Gone') \in Nat
        /\ Cardinality(Gone) <= Cardinality(Gone')
    BY <1>2, <1>6, GoneGrows DEF Before, ApEarly, BspEarly
  <2>2. work'.ready <= Cardinality(Gone')
    BY <1>2, <1>3, <1>4, <2>1
  <2> QED BY <1>2, <1>4, <1>7, <2>2 DEF Counted
<1>10. GateOrder'
  <2>1. ASSUME NEW d \in Cpus
        PROVE  /\ pc'[d] \in {"enter", "open"} => reg'[d] < work'.ready
               /\ pc'[d] = "pull" => work'.ready >= N
               /\ pc'[d] \in After => work'.ready >= N /\ work'.next >= Tasks
    BY <1>4, <1>6 DEF LostInv, GateOrder, After
  <2> QED BY <1>5, <2>1 DEF GateOrder
<1> QED BY <1>7, <1>8, <1>9, <1>10 DEF LostInv

(* POST_NEXT_TASK hands out the shared tasks one after the other. *)
LEMMA PullCounts ==
    ASSUME StaleInv, LostInv, NEW c \in Cpus, PullTask(c)
    PROVE  LostInv'
<1> USE CpuCount
<1>1. pc[c] \in {"gate", "pull"}
  BY DEF PullTask, Goto
<1>2. /\ pc = [d \in Cpus |-> pc[d]] /\ work \in WorkType /\ reg \in [Cpus -> Nat]
      /\ work.expected = N /\ work.next >= N /\ work.ready <= Cardinality(Gone)
      /\ \A t \in 0..(Tasks - 1) :
            work.ran[t] = IF t < (IF t < N THEN work.ready ELSE work.next) THEN 1 ELSE 0
  BY <1>1, AtWork
<1>3. /\ work.ready \in Nat /\ work.ran \in [0..(Tasks - 1) -> Nat] /\ work.next \in Nat
      /\ work.gate \in BOOLEAN /\ Tasks \in Nat
  BY <1>2, PostFirmwareAssumption DEF WorkType
<1>4. work.ready >= N
  BY <1>3 DEF PullTask, LostInv, GateOrder
<1>5. PICK to \in {"leave", "pull"} :
         /\ to = "leave" => work.next >= Tasks
         /\ pc' = [pc EXCEPT ![c] = to]
  <2>1. work.next >= Tasks \/ ~(work.next >= Tasks)
    OBVIOUS
  <2> QED BY <2>1 DEF PullTask, Goto
<1>6. /\ reg' = reg /\ sent' = sent /\ boot' = boot /\ lock' = lock /\ timer' = timer
      /\ pc'[c] = to /\ \A d \in Cpus : d # c => pc'[d] = pc[d]
  BY <1>2, <1>5 DEF PullTask
<1>7. /\ work'.ready = work.ready /\ work'.next = work.next + 1 /\ work'.expected = work.expected
      /\ work'.gate = work.gate /\ work' \in WorkType
      /\ \A t \in 0..(Tasks - 1) :
            work'.ran[t] = IF t = work.next THEN work.ran[t] + 1 ELSE work.ran[t]
  <2>1. CASE work.next >= Tasks
    <3>1. work' = [work EXCEPT !.next = @ + 1]
      BY <2>1 DEF PullTask
    <3>2. /\ work'.ready = work.ready /\ work'.next = work.next + 1
          /\ work'.expected = work.expected /\ work'.gate = work.gate /\ work'.ran = work.ran
      BY <1>2, <3>1 DEF WorkType
    <3>3. work' \in WorkType
      <4>1. work.next + 1 \in Nat
        BY <1>3
      <4> QED BY <1>2, <3>1, <4>1 DEF WorkType
    <3>4. \A t \in 0..(Tasks - 1) : t # work.next
      BY <1>3, <2>1
    <3> QED BY <3>2, <3>3, <3>4
  <2>2. CASE ~(work.next >= Tasks)
    <3>1. work' = [work EXCEPT !.next = @ + 1, !.ran[work.next] = @ + 1]
      BY <2>2 DEF PullTask
    <3>2. /\ work'.ready = work.ready /\ work'.next = work.next + 1
          /\ work'.expected = work.expected /\ work'.gate = work.gate
          /\ work'.ran = [work.ran EXCEPT ![work.next] = work.ran[work.next] + 1]
      BY <1>2, <3>1 DEF WorkType
    <3>3. work.next \in 0..(Tasks - 1)
      BY <1>3, <2>2
    <3>4. [work.ran EXCEPT ![work.next] = work.ran[work.next] + 1] \in [0..(Tasks - 1) -> Nat]
      BY <1>3, <3>3
    <3>5. work' \in WorkType
      <4>1. work.next + 1 \in Nat
        BY <1>3
      <4>2. work' = [work EXCEPT !.next = work.next + 1,
                                 !.ran = [work.ran EXCEPT ![work.next] = work.ran[work.next] + 1]]
        BY <1>2, <3>1 DEF WorkType
      <4> QED BY <1>2, <3>4, <4>1, <4>2 DEF WorkType
    <3> QED BY <1>3, <3>2, <3>5
  <2> QED BY <2>1, <2>2
<1>8. PhaseOrder' /\ Prepared' /\ Ticks'
  BY <1>1, <1>5, <1>6, WorkMove
<1>9. LostTypes'
  BY <1>6, <1>7 DEF LostInv, LostTypes
<1>10. Counted'
  <2>1. /\ Cardinality(Gone) \in Nat /\ Cardinality(Gone') \in Nat
        /\ Cardinality(Gone) <= Cardinality(Gone')
    BY <1>2, <1>5, GoneGrows DEF Before, ApEarly, BspEarly
  <2>2. work'.ready <= Cardinality(Gone')
    BY <1>2, <1>3, <1>7, <2>1
  <2>3. ASSUME NEW t \in 0..(Tasks - 1)
        PROVE  work'.ran[t] = IF t < (IF t < N THEN work'.ready ELSE work'.next) THEN 1 ELSE 0
    <3>1. t \in Int /\ work.next >= N
      BY <1>2
    <3>2. CASE t = work.next
      <4>1. work.ran[t] = 0
        BY <1>2, <1>3, <3>1, <3>2
      <4>2. work'.ran[t] = 1
        BY <1>7, <3>2, <4>1
      <4> QED BY <1>3, <1>7, <3>1, <3>2, <4>2
    <3>3. CASE t # work.next
      <4>1. work'.ran[t] = work.ran[t]
        BY <1>7, <3>3
      <4> QED BY <1>2, <1>3, <1>7, <3>1, <3>3, <4>1
    <3> QED BY <3>2, <3>3
  <2>4. work'.next >= N
    BY <1>2, <1>3, <1>7
  <2> QED BY <1>2, <1>7, <1>8, <2>2, <2>3, <2>4 DEF Counted
<1>11. GateOrder'
  <2>1. work'.next > work.next /\ (to = "leave" => work'.next >= Tasks)
    BY <1>3, <1>5, <1>7
  <2>2. ASSUME NEW d \in Cpus
        PROVE  /\ pc'[d] \in {"enter", "open"} => reg'[d] < work'.ready
               /\ pc'[d] = "pull" => work'.ready >= N
               /\ pc'[d] \in After => work'.ready >= N /\ work'.next >= Tasks
    <3>1. CASE d = c
      BY <1>4, <1>6, <1>7, <2>1, <3>1 DEF After
    <3>2. CASE d # c
      BY <1>3, <1>6, <1>7, <2>1, <3>2 DEF LostInv, GateOrder
    <3> QED BY <3>1, <3>2
  <2>3. work'.gate = TRUE => work'.ready >= N
    BY <1>4, <1>7
  <2> QED BY <2>2, <2>3 DEF GateOrder
<1> QED BY <1>8, <1>9, <1>10, <1>11 DEF LostInv

(***************************************************************************)
(* run().                                                                  *)
(***************************************************************************)

(* The moves of run() that neither reset nor open anything, and the SIPIs. *)
LEMMA LineCounts ==
    ASSUME StaleInv, LostInv,
           \/ \E c \in APs : StartAp(c)
           \/ Wait /\ ~Moves("broker", "wTimer")
           \/ GiveUp \/ ClearAck \/ StorePayload \/ StoreReady \/ Check \/ Reject \/ WritePte
           \/ ClearTimer
    PROVE  LostInv'
<1> USE CpuCount
<1>1. ASSUME NEW c \in APs, StartAp(c) PROVE LostInv'
  <2>1. /\ c \in Cpus /\ c # Bsp
    BY PostFirmwareAssumption DEF Cpus
  <2>2. /\ pc[c] = "off" /\ pc' = [pc EXCEPT ![c] = "boot"]
        /\ reg' = reg /\ sent' = sent /\ boot' = boot /\ work' = work /\ lock' = lock
        /\ timer' = timer
    BY <1>1 DEF StartAp
  <2>3. Ordinary(c, "off", "boot") /\ "boot" \in ApEarly
    BY <2>1 DEF Ordinary, Before, After, ApEarly
  <2>4. LostTypes' /\ Agree(work', work)
    BY <2>2 DEF LostInv, LostTypes, Agree
  <2> QED BY <2>1, <2>2, <2>3, <2>4, MoveKeeps
<1>2. ASSUME \/ Wait /\ ~Moves("broker", "wTimer")
             \/ GiveUp \/ ClearAck \/ StorePayload \/ StoreReady \/ Check \/ Reject \/ WritePte
             \/ ClearTimer
      PROVE  LostInv'
  <2>1. PICK from, to :
           /\ Moves(from, to)
           /\ \/ from = "start" /\ to = "wOnline"
              \/ from = "wOnline" /\ to = "clear1"
              \/ from = "clear1" /\ to = "send1"
              \/ from = "send1" /\ to = "wAck1"
              \/ from = "wAck1" /\ to = "prepare"
              \/ from = "payload" /\ to = "flag"
              \/ from = "flag" /\ to = "phase1"
              \/ from = "wDone" /\ to = "check"
              \/ from = "check" /\ to = "pte"
              \/ from = "pte" /\ to = "clear2"
              \/ from = "clear2" /\ to = "send2"
              \/ from = "send2" /\ to = "wAck2"
              \/ from = "wAck2" /\ to = "phase2"
              \/ from = "wPost" /\ to = "clearTimer"
              \/ from = "clearTimer" /\ to = "gateTest"
              \/ from = "gateTest" /\ to = "arm"
              \/ from = "wTimer" /\ to = "done"
              \/ from \in Waits /\ to = "failed"
              \/ from \in {"check", "clearTimer"} /\ to = "rejected"
    <3>1. CASE Wait /\ ~Moves("broker", "wTimer")
      BY <3>1, WaitMoves
    <3>2. CASE GiveUp
      BY <3>2, GiveUpMoves
    <3>3. CASE ClearAck \/ StorePayload \/ StoreReady \/ WritePte \/ ClearTimer
      BY <3>3, Followed DEF ClearAck, StorePayload, StoreReady, WritePte, ClearTimer, On, Goto, Moves
    <3>4. CASE Check \/ Reject
      BY <3>4, Followed DEF Check, Reject, On, Goto, Moves
    <3> QED BY <1>2, <3>1, <3>2, <3>3, <3>4
  <2>2. Ordinary(Bsp, from, to)
    BY <2>1 DEF Ordinary, Before, After, ApEarly, BspEarly, Reset, Waits
  <2>3. pc[Bsp] = from /\ pc' = [pc EXCEPT ![Bsp] = to]
    BY <2>1 DEF Moves
  <2>4. /\ reg' = reg /\ boot' = boot /\ work' = work /\ lock' = lock
        /\ timer' = timer \/ timer' = [timer EXCEPT !.mask = {}]
    BY <1>2, WaitMoves, GiveUpMoves
       DEF ClearAck, StorePayload, StoreReady, Check, Reject, WritePte, ClearTimer
  <2>5. timer' \in [armed : SUBSET Cpus, pending : SUBSET Cpus, mask : SUBSET Cpus]
    <3>1. {} \in SUBSET Cpus
      OBVIOUS
    <3> QED BY <2>4, <3>1 DEF LostInv, LostTypes
  <2>6. LostTypes' /\ Agree(work', work) /\ boot'.phase = boot.phase
    BY <2>4, <2>5 DEF LostInv, LostTypes, Agree
  <2>7. \A d \in Cpus : reg'[d] = reg[d]
    BY <2>4
  <2> QED BY <2>2, <2>3, <2>6, <2>7, MoveKeeps
<1> QED BY <1>1, <1>2

(* The BSP stands at a new label behind the first phase, with the counters as
   they were. *)
LEMMA BeyondKeeps ==
    ASSUME StaleInv, LostInv, LostTypes', NEW to, pc' = [pc EXCEPT ![Bsp] = to],
           to \notin BspEarly \cup After \cup {"enter", "open", "pull"},
           Prepared, boot'.phase \in 1..2,
           \A c \in APs : boot.phase = 0 => pc[c] \in ApEarly,
           to \in Before => pc[Bsp] \in Before, reg' = reg, work' = work
    PROVE  PhaseOrder' /\ Counted' /\ GateOrder'
<1> USE CpuCount
<1>1. /\ pc = [d \in Cpus |-> pc[d]] /\ pc'[Bsp] = to
      /\ \A d \in Cpus : d # Bsp => pc'[d] = pc[d]
  BY DEF StaleInv, Types
<1>2. PhaseOrder' /\ Prepared'
  BY <1>1 DEF PhaseOrder, Prepared
<1>3. Counted'
  <2>1. /\ Cardinality(Gone) \in Nat /\ Cardinality(Gone') \in Nat
        /\ Cardinality(Gone) <= Cardinality(Gone')
    BY <1>1, GoneGrows
  <2>2. work.ready \in Nat
    BY DEF LostInv, LostTypes, WorkType
  <2> QED BY <1>2, <2>1, <2>2 DEF LostInv, Counted
<1>4. GateOrder'
  <2>1. SUFFICES ASSUME NEW d \in Cpus
                 PROVE  /\ pc'[d] \in {"enter", "open"} => reg'[d] < work'.ready
                        /\ pc'[d] = "pull" => work'.ready >= N
                        /\ pc'[d] \in After => work'.ready >= N /\ work'.next >= Tasks
    BY DEF LostInv, GateOrder
  <2>2. CASE d = Bsp
    BY <1>1, <2>2
  <2>3. CASE d # Bsp
    BY <1>1, <2>3 DEF LostInv, GateOrder
  <2> QED BY <2>2, <2>3
<1> QED BY <1>2, <1>3, <1>4

(* POST_PHASE is stored. *)
LEMMA PhaseCounts ==
    ASSUME StaleInv, LostInv, StorePhase
    PROVE  LostInv'
<1> USE CpuCount
<1>1. /\ reg' = reg /\ sent' = sent /\ work' = work /\ lock' = lock /\ timer' = timer
      /\ \/ /\ pc[Bsp] = "phase1" /\ pc' = [pc EXCEPT ![Bsp] = "message"]
            /\ boot' = [boot EXCEPT !.phase = 1]
         \/ /\ pc[Bsp] = "phase2" /\ pc' = [pc EXCEPT ![Bsp] = "postProbe"]
            /\ boot' = [boot EXCEPT !.phase = 2]
  BY Followed DEF StorePhase, On, Goto
<1>2. boot'.phase \in 1..2 /\ boot.phase \in 0..2
  BY <1>1 DEF StaleInv, Types
<1>3. LostTypes'
  BY <1>1 DEF LostInv, LostTypes
<1>4. Prepared
  <2>1. pc[Bsp] = "phase2" => boot.phase # 0
    BY DEF LostInv, PhaseOrder, BspEarly
  <2> QED BY <1>1, <1>2, <2>1 DEF Prepared, Reset
<1>5. \E to \in {"message", "postProbe"} :
         /\ pc' = [pc EXCEPT ![Bsp] = to]
         /\ to \in Before => pc[Bsp] \in Before
  BY <1>1 DEF Before, ApEarly, BspEarly
<1>6. \A to \in {"message", "postProbe"} : to \notin BspEarly \cup After \cup {"enter", "open", "pull"}
  BY DEF BspEarly, After
<1>7. \A c \in APs : boot.phase = 0 => pc[c] \in ApEarly
  BY DEF LostInv, PhaseOrder
<1>8. PhaseOrder' /\ Counted' /\ GateOrder'
  BY <1>1, <1>2, <1>3, <1>4, <1>5, <1>6, <1>7, BeyondKeeps
<1>9. Ticks'
  <2>1. pc'[Bsp] \in {"message", "postProbe"}
    BY <1>5 DEF StaleInv, Types
  <2> QED BY <2>1 DEF Ticks
<1> QED BY <1>3, <1>8, <1>9 DEF LostInv

(* The deadline of the BSP passes, and the broker's loop ends. *)
LEMMA TickCounts ==
    ASSUME StaleInv, LostInv,
           TimerFallback(Bsp) \/ (Wait /\ Moves("broker", "wTimer"))
    PROVE  LostInv'
<1> USE CpuCount
<1>0. pc = [d \in Cpus |-> pc[d]] /\ boot.phase \in 0..2
  BY DEF StaleInv, Types
<1>1. CASE TimerFallback(Bsp)
  <2>1. /\ reg' = reg /\ sent' = sent /\ work' = work /\ lock' = lock /\ boot' = boot
        /\ pc[Bsp] = "deadline" /\ pc' = [pc EXCEPT ![Bsp] = "broker"]
        /\ timer' = [timer EXCEPT !.pending = IF Bsp \in timer.mask THEN @ ELSE @ \cup {Bsp}]
    BY <1>1 DEF TimerFallback, Goto
  <2>2. /\ timer' \in [armed : SUBSET Cpus, pending : SUBSET Cpus, mask : SUBSET Cpus]
        /\ Bsp \in timer'.mask \cup timer'.pending
    BY <2>1 DEF LostInv, LostTypes
  <2>3. LostTypes'
    BY <2>1, <2>2 DEF LostInv, LostTypes
  <2>4. boot.phase # 0
    BY <2>1 DEF LostInv, PhaseOrder, BspEarly
  <2>5. "broker" \notin BspEarly \cup After \cup {"enter", "open", "pull"} /\ "broker" \notin Before
    BY DEF BspEarly, After, Before, ApEarly
  <2>6. Prepared /\ boot'.phase \in 1..2
    BY <1>0, <2>1, <2>4 DEF Prepared
  <2>7. PhaseOrder' /\ Counted' /\ GateOrder'
    BY <2>1, <2>3, <2>4, <2>5, <2>6, BeyondKeeps
  <2>8. sent' = {}
    BY <2>1 DEF StaleInv, IpiRounds
  <2>9. Ticks'
    BY <1>0, <2>1, <2>2, <2>8 DEF Ticks
  <2> QED BY <2>3, <2>7, <2>9 DEF LostInv
<1>2. CASE Wait /\ Moves("broker", "wTimer")
  <2>1. /\ reg' = reg /\ work' = work /\ lock' = lock /\ boot' = boot /\ timer' = timer
        /\ pc[Bsp] = "broker" /\ pc' = [pc EXCEPT ![Bsp] = "wTimer"]
    BY <1>2, WaitMoves DEF Moves
  <2>2. sent = APs
    BY <1>2, <2>1, WaitMoves DEF Moves
  <2>3. LostTypes'
    BY <2>1 DEF LostInv, LostTypes
  <2>4. boot.phase # 0
    BY <2>1 DEF LostInv, PhaseOrder, BspEarly
  <2>5. "wTimer" \notin BspEarly \cup After \cup {"enter", "open", "pull"} /\ "wTimer" \notin Before
    BY DEF BspEarly, After, Before, ApEarly
  <2>6. Prepared /\ boot'.phase \in 1..2
    BY <1>0, <2>1, <2>4 DEF Prepared
  <2>7. PhaseOrder' /\ Counted' /\ GateOrder'
    BY <2>1, <2>3, <2>4, <2>5, <2>6, BeyondKeeps
  <2>8. Ticks'
    BY <1>0, <2>1, <2>2 DEF LostInv, Ticks, Cpus
  <2> QED BY <2>3, <2>7, <2>8 DEF LostInv
<1> QED BY <1>1, <1>2

(* The counters are reset while every AP waits for the phase. *)
LEMMA PrepareCounts ==
    ASSUME StaleInv, LostInv, Prepare
    PROVE  LostInv'
<1> USE CpuCount
<1>1. /\ pc[Bsp] = "prepare" /\ pc' = [pc EXCEPT ![Bsp] = "payload"]
      /\ reg' = reg /\ lock' = lock /\ timer' = timer
      /\ boot' = [boot EXCEPT !.ready = 0]
      /\ work' = [ready |-> 0, expected |-> N, gate |-> FALSE, next |-> N,
                  ran |-> [t \in 0..(Tasks - 1) |-> 0], workers |-> {}, active |-> 0,
                  maxActive |-> 0, done |-> 0]
  BY Followed DEF Prepare, On, Goto, FirstSharedTask, N
<1>2. boot.phase = 0 /\ boot'.phase = 0 /\ \A c \in APs : pc[c] \in ApEarly
  BY <1>1 DEF LostInv, PhaseOrder, BspEarly, StaleInv, Types
<1>3. /\ pc'[Bsp] = "payload" /\ \A c \in APs : pc'[c] = pc[c]
  BY <1>1, PostFirmwareAssumption DEF StaleInv, Types, Cpus
<1>4. LostTypes'
  <2>1. /\ [t \in 0..(Tasks - 1) |-> 0] \in [0..(Tasks - 1) -> Nat]
        /\ {} \in SUBSET Cpus
    OBVIOUS
  <2>2. work' \in WorkType
    BY <1>1, <2>1 DEF WorkType
  <2> QED BY <1>1, <2>2 DEF LostInv, LostTypes
<1>5. PhaseOrder'
  BY <1>2, <1>3 DEF PhaseOrder, BspEarly
<1>6. Counted'
  <2>1. Gone' \subseteq Cpus
    BY DEF Gone
  <2>2. Cardinality(Gone') \in Nat
    BY <2>1, FS_Subset, FS_CardinalityType
  <2>3. Prepared'
    BY <1>3 DEF Prepared, Reset
  <2>4. /\ work'.expected = N /\ work'.next = N /\ work'.ready = 0
        /\ \A t \in 0..(Tasks - 1) : work'.ran[t] = 0
    BY <1>1
  <2>5. \A t \in 0..(Tasks - 1) : t \in Nat
    OBVIOUS
  <2> QED BY <2>2, <2>3, <2>4, <2>5 DEF Counted
<1>7. GateOrder'
  <2>1. work'.gate = FALSE
    BY <1>1
  <2>2. ASSUME NEW d \in Cpus
        PROVE  pc'[d] \notin {"enter", "open", "pull"} /\ pc'[d] \notin After
    <3>1. pc'[d] \in ApEarly \cup {"payload"}
      BY <1>2, <1>3 DEF Cpus
    <3> QED BY <3>1 DEF ApEarly, After
  <2> QED BY <2>1, <2>2 DEF GateOrder
<1>8. Ticks'
  BY <1>3 DEF Ticks
<1> QED BY <1>4, <1>5, <1>6, <1>7, <1>8 DEF LostInv

(* No task has run and nothing ticks when run() begins. *)
LEMMA LostInitial == Init => LostInv
<1> SUFFICES ASSUME Init PROVE LostInv
  OBVIOUS
<1> USE CpuCount
<1>1. pc[Bsp] = "start" /\ \A c \in APs : pc[c] = "off"
  BY PostFirmwareAssumption DEF Init, Cpus
<1>2. boot.phase = 0
  BY DEF Init
<1>3. LostTypes
  <2>1. /\ [t \in 0..(Tasks - 1) |-> 0] \in [0..(Tasks - 1) -> Nat]
        /\ {} \in SUBSET Cpus
    OBVIOUS
  <2>2. work \in WorkType
    BY <2>1 DEF Init, WorkType
  <2>3. timer \in [armed : SUBSET Cpus, pending : SUBSET Cpus, mask : SUBSET Cpus]
    BY <2>1 DEF Init
  <2>4. lock \in [next : Nat, owner : Nat, entries : Nat, once : Cpus \cup {None}]
    BY DEF Init
  <2>5. reg \in [Cpus -> Nat]
    BY DEF Init
  <2> QED BY <2>2, <2>3, <2>4, <2>5 DEF LostTypes
<1>4. PhaseOrder
  BY <1>1, <1>2 DEF PhaseOrder, ApEarly, BspEarly
<1>5. Counted
  <2>1. ~Prepared
    BY <1>1, <1>2 DEF Prepared, Reset
  <2> QED BY <2>1 DEF Init, Counted
<1>6. GateOrder
  <2>1. work.gate = FALSE
    BY DEF Init
  <2>2. \A d \in Cpus : pc[d] \in {"start", "off"}
    BY <1>1 DEF Cpus
  <2> QED BY <2>1, <2>2 DEF GateOrder, After
<1>7. Ticks
  BY <1>1 DEF Ticks
<1> QED BY <1>3, <1>4, <1>5, <1>6, <1>7 DEF LostInv

(* Every step keeps the invariant. *)
LEMMA LostInductive == StaleInv /\ LostInv /\ [Next]_vars => LostInv'
<1> SUFFICES ASSUME StaleInv, LostInv, [Next]_vars PROVE LostInv'
  OBVIOUS
<1>1. CASE UNCHANGED vars
  BY <1>1 DEF vars, LostInv, LostTypes, PhaseOrder, Counted, Prepared, Gone, GateOrder, Ticks
<1>2. ASSUME NEW c \in APs, ApStep(c) \/ ApPark(c) PROVE LostInv'
  BY <1>2, ApCounts
<1>3. ASSUME NEW c \in Cpus, PhaseStep(c) PROVE LostInv'
  <2>1. CASE \/ MessageProbe(c) \/ TakeTicket(c) \/ AcquireLock(c) \/ ReleaseLock(c)
             \/ PreProbe(c) \/ PostProbe(c) \/ ArmTimer(c)
    BY <2>1, PassCounts
  <2>2. CASE TimerFallback(c)
    BY <2>2, PassCounts, TickCounts
  <2>3. CASE EnterInterval(c) \/ LeaveInterval(c)
    BY <2>3, IntervalCounts
  <2>4. CASE TakeSeed(c) \/ OpenGate(c) \/ PullTask(c)
    BY <2>4, SeedCounts, GateCounts, PullCounts
  <2> QED BY <1>3, <2>1, <2>2, <2>3, <2>4 DEF PhaseStep
<1>4. ASSUME NEW c \in Cpus, Interrupt(c) PROVE LostInv'
  BY <1>4, SignalCounts
<1>5. CASE BspStep \/ GiveUp
  BY <1>5, SignalCounts, LineCounts, PhaseCounts, TickCounts, PrepareCounts DEF BspStep
<1> QED BY <1>1, <1>2, <1>3, <1>4, <1>5 DEF Next

(* NothingLost, for any number of APs and of tasks: no task is run twice, all
   have run when the BSP leaves its wait, and each timer bit is set or its
   interrupt on its way when the BSP begins to wait for it. *)
THEOREM NothingIsLost == Spec => []NothingLost
<1>1. Init => StaleInv /\ LostInv
  BY StaleInitial, LostInitial
<1>2. StaleInv /\ LostInv /\ [Next]_vars => (StaleInv /\ LostInv)'
  BY StaleInductive, LostInductive
<1>3. StaleInv /\ LostInv => NothingLost
  <2> SUFFICES ASSUME StaleInv, LostInv PROVE NothingLost
    OBVIOUS
  <2> USE CpuCount
  <2>1. /\ work.ran \in [0..(Tasks - 1) -> Nat] /\ work.ready \in Nat /\ work.next \in Nat
        /\ Tasks \in Nat
    BY PostFirmwareAssumption DEF LostInv, LostTypes, WorkType
  <2>2. ASSUME NEW t \in DOMAIN work.ran PROVE work.ran[t] <= 1
    BY <2>1, <2>2 DEF LostInv, Counted
  <2>3. ASSUME pc[Bsp] = "check", NEW t \in DOMAIN work.ran PROVE work.ran[t] = 1
    <3>1. work.ready >= N /\ work.next >= Tasks
      BY <2>3 DEF LostInv, GateOrder, After
    <3>2. Prepared
      <4>1. boot.phase \in 0..2 /\ boot.phase # 0
        BY <2>3 DEF StaleInv, Types, LostInv, PhaseOrder, BspEarly
      <4> QED BY <4>1 DEF Prepared
    <3>3. t \in 0..(Tasks - 1)
      BY <2>1
    <3> QED BY <2>1, <3>1, <3>2, <3>3 DEF LostInv, Counted
  <2> QED BY <2>2, <2>3 DEF NothingLost, LostInv, Ticks
<1> QED BY <1>1, <1>2, <1>3, PTL DEF Spec
=============================================================================
