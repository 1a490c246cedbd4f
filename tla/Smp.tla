----------------------------------- MODULE Smp -----------------------------------
(***************************************************************************)
(* thermite-kernel/src/smp.rs: CPU bring-up, IPI epochs, TLB shootdowns.   *)
(*                                                                         *)
(* ipis and shootdowns map an epoch to its PendingEpoch, or to NoEpoch     *)
(* where the BTreeMap has no entry.  Initiators and acknowledging CPUs     *)
(* call in any order and with any epoch they ever heard of.  What a call   *)
(* returns is not kept: an operator names its error, and a call that is    *)
(* refused changes nothing, Discover excepted.                             *)
(***************************************************************************)
EXTENDS Integers, FiniteSets

CONSTANTS SmpCpus,       \* CPU ids
          MaxEpoch,      \* u64::MAX for both epoch counters
          Rediscover,    \* may discover be called again for a known CPU?
          NoEpoch        \* no entry in the BTreeMap

Epochs  == 1..MaxEpoch
Pending == [targets: SUBSET SmpCpus, acknowledgements: SUBSET SmpCpus]

ASSUME SmpAssumption ==
    MaxEpoch \in Nat /\ Rediscover \in BOOLEAN /\ NoEpoch \notin Pending

VARIABLES cpus, nextIpiEpoch, nextShootdownEpoch, ipis, shootdowns

smpVars == <<cpus, nextIpiEpoch, nextShootdownEpoch, ipis, shootdowns>>

(* The reasons of CpuLifecycle::Failed are not told apart. *)
Lifecycle == {"Discovered", "Prepared", "Starting", "Online", "Failed"}

(* SmpState::online *)
OnlineCpus == {c \in SmpCpus : cpus[c] = "Online"}

Begun(targets) == [targets |-> targets, acknowledgements |-> {}]

(* SmpState::new *)
SmpInit ==
    /\ cpus = [c \in SmpCpus |-> "Unknown"]
    /\ nextIpiEpoch = 0 /\ nextShootdownEpoch = 0
    /\ ipis = [e \in Epochs |-> NoEpoch]
    /\ shootdowns = [e \in Epochs |-> NoEpoch]

epochVars == <<nextIpiEpoch, nextShootdownEpoch, ipis, shootdowns>>

(* SmpState::discover inserts first and reports the duplicate afterwards. *)
Discover(cpu) ==
    /\ cpus' = [cpus EXCEPT ![cpu] = "Discovered"]
    /\ UNCHANGED epochVars

(* Mutant: a CPU may fail after it came online. *)
LegalLateFailure(from, to) ==
    \/ from = "Discovered" /\ to = "Prepared"
    \/ from = "Prepared" /\ to = "Starting"
    \/ from = "Starting" /\ to = "Online"
    \/ from \in {"Prepared", "Starting", "Online"} /\ to = "Failed"

Legal(from, to) ==
    \/ from = "Discovered" /\ to = "Prepared"
    \/ from = "Prepared" /\ to = "Starting"
    \/ from = "Starting" /\ to = "Online"
    \/ from \in {"Prepared", "Starting"} /\ to = "Failed"

(* SmpState::transition *)
Transition(cpu, next) ==
    LET e == IF cpus[cpu] = "Unknown" THEN "UnknownCpu"
             ELSE IF ~Legal(cpus[cpu], next) THEN "IllegalTransition"
             ELSE "Ok"
    IN /\ cpus' = IF e = "Ok" THEN [cpus EXCEPT ![cpu] = next] ELSE cpus
       /\ UNCHANGED epochVars

ValidateOnlineTargets(targets) ==
    IF targets \subseteq OnlineCpus THEN "Ok" ELSE "CpuNotOnline"

BeginIpiError(targets) ==
    IF ValidateOnlineTargets(targets) # "Ok" THEN "CpuNotOnline"
    ELSE IF nextIpiEpoch = MaxEpoch THEN "EpochOverflow"
    ELSE "Ok"

(* SmpState::begin_ipi *)
BeginIpi(targets) ==
    LET e == BeginIpiError(targets) IN
    /\ nextIpiEpoch' = IF e = "Ok" THEN nextIpiEpoch + 1 ELSE nextIpiEpoch
    /\ ipis' = IF e = "Ok" THEN [ipis EXCEPT ![nextIpiEpoch + 1] = Begun(targets)]
               ELSE ipis
    /\ UNCHANGED <<cpus, nextShootdownEpoch, shootdowns>>

(* SmpState::begin_shootdown snapshots the online set. *)
BeginShootdown ==
    LET full == nextShootdownEpoch = MaxEpoch
        e == nextShootdownEpoch + 1
    IN /\ nextShootdownEpoch' = IF full THEN nextShootdownEpoch ELSE e
       /\ shootdowns' = IF full THEN shootdowns
                        ELSE [shootdowns EXCEPT ![e] = Begun(OnlineCpus)]
       /\ UNCHANGED <<cpus, nextIpiEpoch, ipis>>

PendingEpochs(pending) == {e \in Epochs : pending[e] # NoEpoch}

(* Mutant: acknowledgements of superseded epochs are accepted. *)
AcknowledgeErrorAnyEpoch(pending, epoch, cpu) ==
    IF epoch \notin PendingEpochs(pending) THEN "UnknownEpoch"
    ELSE IF cpu \notin pending[epoch].targets THEN "ForeignCpu"
    ELSE IF cpu \in pending[epoch].acknowledgements THEN "DuplicateAcknowledgement"
    ELSE "Ok"

(* Mutant: once an epoch was begun, older ones are refused for ever. *)
AcknowledgeErrorNewestBegun(pending, epoch, cpu) ==
    IF epoch < nextShootdownEpoch THEN "StaleEpoch"
    ELSE IF epoch \notin PendingEpochs(pending) THEN "UnknownEpoch"
    ELSE IF cpu \notin pending[epoch].targets THEN "ForeignCpu"
    ELSE IF cpu \in pending[epoch].acknowledgements THEN "DuplicateAcknowledgement"
    ELSE "Ok"

(* acknowledge: only the newest epoch still pending takes acknowledgements. *)
AcknowledgeError(pending, epoch, cpu) ==
    IF PendingEpochs(pending) = {} THEN "UnknownEpoch"
    ELSE IF \E e \in PendingEpochs(pending) : epoch < e THEN "StaleEpoch"
    ELSE IF epoch \notin PendingEpochs(pending) THEN "UnknownEpoch"
    ELSE IF cpu \notin pending[epoch].targets THEN "ForeignCpu"
    ELSE IF cpu \in pending[epoch].acknowledgements THEN "DuplicateAcknowledgement"
    ELSE "Ok"

Acknowledged(p, cpu) == [p EXCEPT !.acknowledgements = @ \cup {cpu}]

Acknowledge(pending, pending_, epoch, cpu) ==
    pending_ = IF AcknowledgeError(pending, epoch, cpu) = "Ok"
               THEN [pending EXCEPT ![epoch] = Acknowledged(@, cpu)] ELSE pending

(* SmpState::acknowledge_ipi *)
AcknowledgeIpi(epoch, cpu) ==
    /\ Acknowledge(ipis, ipis', epoch, cpu)
    /\ UNCHANGED <<cpus, nextIpiEpoch, nextShootdownEpoch, shootdowns>>

(* SmpState::acknowledge_shootdown *)
AcknowledgeShootdown(epoch, cpu) ==
    /\ Acknowledge(shootdowns, shootdowns', epoch, cpu)
    /\ UNCHANGED <<cpus, nextIpiEpoch, nextShootdownEpoch, ipis>>

CompleteError(epoch) ==
    IF shootdowns[epoch] = NoEpoch THEN "UnknownEpoch"
    ELSE IF shootdowns[epoch].acknowledgements # shootdowns[epoch].targets
    THEN "Incomplete" ELSE "Ok"

(* SmpState::complete_shootdown *)
CompleteShootdown(epoch) ==
    LET e == CompleteError(epoch) IN
    /\ shootdowns' = IF e = "Ok" THEN [shootdowns EXCEPT ![epoch] = NoEpoch]
                     ELSE shootdowns
    /\ UNCHANGED <<cpus, nextIpiEpoch, nextShootdownEpoch, ipis>>

SmpNext ==
    \/ \E cpu \in SmpCpus : (Rediscover \/ cpus[cpu] = "Unknown") /\ Discover(cpu)
    \/ \E cpu \in SmpCpus, next \in Lifecycle : Transition(cpu, next)
    \/ \E targets \in SUBSET SmpCpus : BeginIpi(targets)
    \/ BeginShootdown
    \/ \E epoch \in Epochs, cpu \in SmpCpus :
          AcknowledgeIpi(epoch, cpu) \/ AcknowledgeShootdown(epoch, cpu)
    \/ \E epoch \in Epochs : CompleteShootdown(epoch)

SmpSpec == SmpInit /\ [][SmpNext]_smpVars

(* A CPU told StaleEpoch answers the older epoch again later, and an initiator
   polls complete_shootdown until it succeeds. *)
SmpFairness ==
    \A epoch \in Epochs :
        /\ WF_smpVars(CompleteError(epoch) = "Ok" /\ CompleteShootdown(epoch))
        /\ \A cpu \in SmpCpus :
              WF_smpVars(/\ AcknowledgeError(shootdowns, epoch, cpu) = "Ok"
                      /\ AcknowledgeShootdown(epoch, cpu))

SmpFairSpec == SmpSpec /\ SmpFairness

(***************************************************************************)
(* Properties.                                                             *)
(***************************************************************************)

(* The maps keep their ranges, and both epoch counters stay within u64. *)
SmpTypeOK ==
    /\ cpus \in [SmpCpus -> Lifecycle \cup {"Unknown"}]
    /\ nextIpiEpoch \in 0..MaxEpoch /\ nextShootdownEpoch \in 0..MaxEpoch
    /\ ipis \in [Epochs -> Pending \cup {NoEpoch}]
    /\ shootdowns \in [Epochs -> Pending \cup {NoEpoch}]

(* Whoever an IPI or a shootdown waits for is an online CPU, from the moment it
   begins for as long as it is pending: nobody waits for a CPU that cannot
   answer, and only targets are counted. *)
WaitsOnlyForOnline ==
    \A e \in Epochs :
        /\ ipis[e] # NoEpoch => ipis[e].acknowledgements \subseteq ipis[e].targets
                                /\ ipis[e].targets \subseteq OnlineCpus
        /\ shootdowns[e] # NoEpoch =>
              /\ shootdowns[e].acknowledgements \subseteq shootdowns[e].targets
              /\ shootdowns[e].targets \subseteq OnlineCpus

OlderStandsStill ==
    \A e, newer \in Epochs : e < newer =>
        /\ ipis[newer] # NoEpoch => ipis'[e] = ipis[e]
        /\ shootdowns[e] # NoEpoch /\ shootdowns'[e] # NoEpoch
             /\ shootdowns[newer] # NoEpoch => shootdowns'[e] = shootdowns[e]

(* An acknowledgement that arrives after a newer epoch began cannot complete
   anything: the acknowledgements of a superseded IPI or shootdown stand still
   while the newer one is pending. *)
SupersededStandsStill == [][OlderStandsStill]_smpVars

(* No shootdown is abandoned: overlapping shootdowns refuse the older epoch's
   acknowledgements only while the newer is pending, so every one completes. *)
ShootdownsComplete ==
    \A e \in Epochs : shootdowns[e] # NoEpoch ~> shootdowns[e] = NoEpoch
=============================================================================
