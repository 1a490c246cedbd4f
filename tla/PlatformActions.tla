----------------------------- MODULE PlatformActions -----------------------------
(***************************************************************************)
(* thermite-kernel/src/event.rs: what an Action is, when it is well formed,*)
(* which authority it needs and which event its completion becomes.        *)
(*                                                                         *)
(* An action is a record with its variant in `op' and the fields of the    *)
(* variant that some check reads; written values, permissions, deadlines   *)
(* and the task of EnqueueTask are left out.  Top is u64::MAX.             *)
(***************************************************************************)
EXTENDS Integers

CONSTANT Top

(* Action; SendIpi and TlbShootdown name their targets. *)
StartCpu(cpu)             == [op |-> "StartCpu", cpu |-> cpu]
SendIpi(targets, v, e)    == [op |-> "SendIpi", targets |-> targets, vector |-> v, epoch |-> e]
TlbShootdown(t, b, l)     == [op |-> "TlbShootdown", targets |-> t, base |-> b, len |-> l]
IrqAction(op, vector)     == [op |-> op, vector |-> vector]
MapPages(base, size, n)   == [op |-> "Map", base |-> base, pageSize |-> size, pages |-> n]
PageAction(op, base)      == [op |-> op, base |-> base]
Access(op, address, w)    == [op |-> op, base |-> address, width |-> w]
SubmitDma(slot)           == [op |-> "SubmitDma", slot |-> slot]
EnqueueTask(cpu)          == [op |-> "EnqueueTask", cpu |-> cpu]
EnterContext(context)     == [op |-> "EnterContext", context |-> context]
Plain(op)                 == [op |-> op]

MmioOps  == {"MmioRead", "MmioWrite"}
PioOps   == {"PioRead", "PioWrite"}
TimerOps == {"ArmTimer", "CancelTimer"}
PowerOps == {"Reboot", "PowerOff", "Halt"}

(* validate_action *)
ValidateAction(a) ==
    IF a.op = "TlbShootdown" /\ a.len = 0 THEN "InvalidPayload"
    ELSE IF a.op = "TlbShootdown" /\ a.base + a.len > Top THEN "RangeOverflow"
    ELSE IF a.op \in MmioOps /\ a.width \notin {1, 2, 4, 8} THEN "InvalidWidth"
    ELSE IF a.op \in PioOps /\ a.width \notin {1, 2, 4} THEN "InvalidWidth"
    ELSE "Ok"

Authority(kind, right, base, len) ==
    [kind |-> kind, rights |-> {right}, base |-> base, len |-> len]

(* action_authority, short of the overflow of Map's byte count. *)
ActionAuthority(a) ==
    CASE a.op \in {"StartCpu", "EnqueueTask"}       -> Authority("Cpu", "CONTROL", a.cpu, 1)
      [] a.op \in {"SendIpi", "TlbShootdown"}       -> Authority("CpuSet", "CONTROL", 0, 0)
      [] a.op \in {"AckIrq", "MaskIrq", "UnmaskIrq"} -> Authority("Irq", "CONTROL", a.vector, 1)
      [] a.op = "Map"                -> Authority("AddressSpace", "MAP", a.base, a.pageSize * a.pages)
      [] a.op \in {"Unmap", "Protect"} -> Authority("AddressSpace", "MAP", a.base, 1)
      [] a.op = "MmioRead"           -> Authority("Mmio", "READ", a.base, a.width)
      [] a.op = "MmioWrite"          -> Authority("Mmio", "WRITE", a.base, a.width)
      [] a.op = "PioRead"            -> Authority("IoPort", "READ", a.base, a.width)
      [] a.op = "PioWrite"           -> Authority("IoPort", "WRITE", a.base, a.width)
      [] a.op = "SubmitDma"          -> Authority("Dma", "CONTROL", a.slot, 1)
      [] a.op \in TimerOps           -> Authority("Clock", "CONTROL", 0, 0)
      [] a.op = "EnterContext"       -> Authority("UserContext", "CONTROL", a.context, 1)
      [] a.op \in PowerOps           -> Authority("Power", "CONTROL", 0, 0)

AuthorityOverflows(a) == a.op = "Map" /\ a.pageSize * a.pages > Top

(* completion_kind: the event an action's completion becomes; ok is the
   result, whose error code only fills DeviceFault's code. *)
CompletionKind(a, ok) ==
    CASE ~ok                          -> [tag |-> "DeviceFault"]
      [] ok /\ a.op = "StartCpu"      -> [tag |-> "CpuOnline"]
      [] ok /\ a.op = "SendIpi"       -> [tag |-> "Ipi", vector |-> a.vector, epoch |-> a.epoch]
      [] ok /\ a.op = "SubmitDma"     -> [tag |-> "DmaComplete", slot |-> a.slot]
      [] ok /\ a.op \in TimerOps      -> [tag |-> "Timer"]
      [] ok /\ a.op \in PowerOps      -> [tag |-> "ShutdownRequest"]
      [] OTHER                        -> [tag |-> "ActionComplete"]
=============================================================================
