-------------------------------- MODULE DeviceBus --------------------------------
(***************************************************************************)
(* What devices and the processor share: registers, and below interrupts. *)
(*                                                                         *)
(* thermite-kernel/src/device.rs: memory-mapped and port registers behind  *)
(* capabilities.  A byte holds Base values, so that a value of w bytes is  *)
(* below Base^w; an address that was never written reads as 0.             *)
(***************************************************************************)
EXTENDS Integers, FiniteSets, KernelMaps

CONSTANTS BusCaps,      \* capabilities presented: [kind, rights, base, len]
          MmioTop,      \* one past the last u64 address
          PortTop,      \* one past the last u16 port
          Base,
          BusValues,    \* values written
          MaxBarriers   \* bound on barrier_epoch

(* Every width of a port divides the number of ports. *)
ASSUME BusAssumption ==
    /\ MmioTop \in Nat /\ PortTop \in Nat /\ PortTop % 4 = 0 /\ Base \in Nat \ {0, 1}
    /\ BusCaps \subseteq [kind : {"Mmio", "IoPort"}, rights : SUBSET {"READ", "WRITE"},
                          base : Nat, len : Nat]

VARIABLES mmio, pio, barrierEpoch, busErr
busVars == <<mmio, pio, barrierEpoch, busErr>>

(* DeviceWidth::bytes *)
Widths == {1, 2, 4, 8}

Power[w \in 0..8] == IF w = 0 THEN 1 ELSE Base * Power[w - 1]

BusInit ==
    /\ mmio = [a \in 0..(MmioTop - 1) |-> 0]
    /\ pio = [p \in 0..(PortTop - 1) |-> 0]
    /\ barrierEpoch = 0 /\ busErr = "Ok"

(* Capability::contains_range: an end at 2^64 overflows. *)
ContainsRange(cap, address, len, top) ==
    /\ cap.base + cap.len < top /\ address + len < top
    /\ cap.base <= address /\ address + len <= cap.base + cap.len

(* Mutant: the access may start anywhere. *)
ValidateRangeUnaligned(cap, kind, right, address, w) ==
    IF cap.kind # kind THEN "WrongCapability"
    ELSE IF right \notin cap.rights THEN "MissingRights"
    ELSE IF ~ (cap.base <= address /\ address <= cap.base + cap.len) THEN "OutOfRange"
    ELSE "Ok"

(* validate_range *)
ValidateRange(cap, kind, right, address, w) ==
    IF cap.kind # kind THEN "WrongCapability"
    ELSE IF right \notin cap.rights THEN "MissingRights"
    ELSE IF address % w # 0 THEN "Misaligned"
    ELSE IF ~ContainsRange(cap, address, w, MmioTop) THEN "OutOfRange"
    ELSE "Ok"

(* read_bytes and read_port_bytes: little-endian; a port saturates at the last
   one instead of wrapping. *)
ReadBytes(values, address, w) ==
    LET last == Cardinality(DOMAIN values) - 1
        byte(i) == values[IF address + i > last THEN last ELSE address + i]
        sum[i \in 0..w] == IF i = 0 THEN 0 ELSE sum[i - 1] + byte(i - 1) * Power[i - 1]
    IN  sum[w]

(* write_bytes, and pio_write's loop as far as the ports go. *)
WriteBytes(values, address, w, value) ==
    [a \in DOMAIN values |->
        IF a \in address..(address + w - 1) THEN (value \div Power[a - address]) % Base
        ELSE values[a]]

(* mmio_read returns without a change. *)
MmioRead(cap, address, w) ==
    /\ busErr' = ValidateRange(cap, "Mmio", "READ", address, w)
    /\ UNCHANGED <<mmio, pio, barrierEpoch>>

MmioWrite(cap, address, w, value) ==
    LET e == ValidateRange(cap, "Mmio", "WRITE", address, w)
    IN  /\ busErr' = e
        /\ mmio' = IF e = "Ok" THEN WriteBytes(mmio, address, w, value) ELSE mmio
        /\ UNCHANGED <<pio, barrierEpoch>>

PortError(cap, right, port, w) ==
    IF w = 8 THEN "UnsupportedWidth" ELSE ValidateRange(cap, "IoPort", right, port, w)

PioRead(cap, port, w) ==
    /\ busErr' = PortError(cap, "READ", port, w)
    /\ UNCHANGED <<mmio, pio, barrierEpoch>>

(* pio_write inserts byte after byte and returns RangeOverflow when it runs out
   of ports, with the bytes before that written. *)
PioWrite(cap, port, w, value) ==
    LET e == PortError(cap, "WRITE", port, w)
    IN  /\ busErr' = IF e = "Ok" /\ port + w > PortTop THEN "RangeOverflow" ELSE e
        /\ pio' = IF e = "Ok" THEN WriteBytes(pio, port, w, value) ELSE pio
        /\ UNCHANGED <<mmio, barrierEpoch>>

DeviceBarrier ==
    /\ barrierEpoch < MaxBarriers
    /\ barrierEpoch' = barrierEpoch + 1 /\ busErr' = "Ok"
    /\ UNCHANGED <<mmio, pio>>

Fitting(w) == {v \in BusValues : v < Power[w]}

BusNext ==
    \/ \E cap \in BusCaps, w \in Widths, address \in 0..(MmioTop - 1) :
          \/ MmioRead(cap, address, w)
          \/ \E value \in Fitting(w) : MmioWrite(cap, address, w, value)
    \/ \E cap \in BusCaps, w \in Widths, port \in 0..(PortTop - 1) :
          \/ PioRead(cap, port, w)
          \/ \E value \in Fitting(w) : PioWrite(cap, port, w, value)
    \/ DeviceBarrier

(* Bytes that lie in one aligned word, all of it inside a range that some
   capability of that bus may write. *)
InOneAccess(kind, changed) ==
    \E cap \in BusCaps, w \in Widths :
        /\ cap.kind = kind /\ "WRITE" \in cap.rights
        /\ \E i \in 0..(MmioTop \div w) :
              /\ changed \subseteq (i * w)..(i * w + w - 1)
              /\ cap.base <= i * w /\ i * w + w <= cap.base + cap.len

AtMostOneAccess ==
    LET registers == {a \in DOMAIN mmio : mmio'[a] # mmio[a]}
        ports     == {p \in DOMAIN pio : pio'[p] # pio[p]}
    IN  /\ registers = {} \/ ports = {}
        /\ registers # {} => busErr' = "Ok" /\ InOneAccess("Mmio", registers)
        /\ ports # {} => busErr' = "Ok" /\ InOneAccess("IoPort", ports)

(* Every change of a register or port is one access: the bytes that change lie
   in one aligned word, all of it inside a range that some capability of that
   bus may write, and the access was not refused; no access reaches both buses. *)
BusWritesConfined == [][AtMostOneAccess]_busVars

(***************************************************************************)
(* thermite-kernel/src/irq.rs: CPU-local interrupt state, routes and       *)
(* interrupts in service.                                                  *)
(*                                                                         *)
(* locals and routes are the BTreeMaps of the same name, inService the     *)
(* keys of in_service.  IrqStateToken is Copy: `tokens' remembers every    *)
(* token ever issued and callers present any of them.  `owed' is the token *)
(* of the critical section a CPU is in: its last token, until the caller   *)
(* hands that one back, spentTokens those handed back.  A call that is     *)
(* refused changes nothing, except the two that insert before they look    *)
(* (AddCpu, Route).                                                        *)
(***************************************************************************)
CONSTANTS IrqCpus, Vectors, MaxIrqGeneration, NoToken

IrqTokens == [cpu : IrqCpus, generation : Nat, wasEnabled : BOOLEAN]

ASSUME IrqAssumption == MaxIrqGeneration \in Nat /\ NoToken \notin IrqTokens

VARIABLES locals, routes, inService, tokens, owed, spentTokens

irqVars == <<locals, routes, inService, tokens, owed, spentTokens>>

(* The capability a caller shows: require compares its kind, then its rights. *)
LocalCaps == {"CpuLocal+CONTROL", "CpuLocal", "Irq+ROUTE"}
Shows(cap, needed) == cap = needed

IrqInit ==
    /\ locals = <<>> /\ routes = <<>> /\ inService = {}
    /\ tokens = {} /\ spentTokens = {} /\ owed = [c \in IrqCpus |-> NoToken]

Fresh == [enabled |-> TRUE, generation |-> 0, outstanding |-> FALSE]

(* IrqController::add_cpu: a known CPU is reset all the same, so that a token of
   its earlier life has a generation that will be issued again. *)
AddCpu(cpu) ==
    /\ locals' = Insert(locals, cpu, Fresh)
    /\ UNCHANGED <<routes, inService, tokens, owed, spentTokens>>

(* IrqController::save_disable *)
SaveDisable(cpu, cap) ==
    /\ Shows(cap, "CpuLocal+CONTROL") /\ cpu \in DOMAIN locals
    /\ ~locals[cpu].outstanding
    /\ locals[cpu].generation < MaxIrqGeneration
    /\ LET token == [cpu |-> cpu, generation |-> locals[cpu].generation + 1,
                     wasEnabled |-> locals[cpu].enabled]
       IN /\ locals' = [locals EXCEPT ![cpu] = [enabled |-> FALSE, outstanding |-> TRUE,
                                                generation |-> token.generation]]
          /\ tokens' = tokens \cup {token}
          /\ owed' = [owed EXCEPT ![cpu] = token]
    /\ UNCHANGED <<routes, inService, spentTokens>>

(* Mutant: a token is good as long as it names the CPU. *)
MatchesAnyGeneration(cpu, token) == token.cpu = cpu /\ cpu \in DOMAIN locals

(* The three comparisons of restore. *)
Matches(cpu, token) ==
    /\ token.cpu = cpu /\ cpu \in DOMAIN locals
    /\ token.generation = locals[cpu].generation
    /\ locals[cpu].outstanding

(* IrqController::restore *)
Restore(cpu, cap, token) ==
    /\ Shows(cap, "CpuLocal+CONTROL") /\ Matches(cpu, token)
    /\ locals' = [locals EXCEPT ![cpu].enabled = token.wasEnabled,
                                ![cpu].outstanding = FALSE]
    /\ owed' = IF owed[cpu] = token THEN [owed EXCEPT ![cpu] = NoToken] ELSE owed
    /\ spentTokens' = spentTokens \cup {token}
    /\ UNCHANGED <<routes, inService, tokens>>

(* IrqController::route: a second route for a vector replaces, and unmasks, the
   first one before DuplicateRoute is returned. *)
Route(vector, cpu, cap) ==
    /\ Shows(cap, "Irq+ROUTE") /\ vector >= 32 /\ cpu \in DOMAIN locals
    /\ routes' = Insert(routes, vector, [cpu |-> cpu, masked |-> FALSE])
    /\ UNCHANGED <<locals, inService, tokens, owed, spentTokens>>

(* IrqController::set_masked *)
SetMasked(vector, masked) ==
    /\ vector \in DOMAIN routes
    /\ routes' = [routes EXCEPT ![vector].masked = masked]
    /\ UNCHANGED <<locals, inService, tokens, owed, spentTokens>>

(* IrqController::deliver: the CPU's own mask is not consulted. *)
Deliver(vector) ==
    /\ vector \in DOMAIN routes /\ ~routes[vector].masked
    /\ inService' = inService \cup {<<routes[vector].cpu, vector>>}
    /\ UNCHANGED <<locals, routes, tokens, owed, spentTokens>>

(* IrqController::end_of_interrupt: on the CPU the interrupt was delivered to,
   wherever its vector is routed by now. *)
EndOfInterrupt(cpu, vector) ==
    /\ <<cpu, vector>> \in inService
    /\ inService' = inService \ {<<cpu, vector>>}
    /\ UNCHANGED <<locals, routes, tokens, owed, spentTokens>>

(* Boot code adds each CPU once. *)
IrqNext ==
    \/ \E cpu \in IrqCpus :
          \/ cpu \notin DOMAIN locals /\ AddCpu(cpu)
          \/ \E cap \in LocalCaps :
                \/ SaveDisable(cpu, cap)
                \/ \E token \in tokens : Restore(cpu, cap, token)
                \/ \E v \in Vectors : Route(v, cpu, cap)
          \/ \E v \in Vectors : EndOfInterrupt(cpu, v)
    \/ \E v \in Vectors : Deliver(v) \/ \E m \in BOOLEAN : SetMasked(v, m)

(* A CPU that disabled interrupts keeps them disabled until its own last token
   comes back, and has them enabled again from then on: no copy of an older
   token, and no token of another CPU, ends a critical section. *)
CriticalSectionsStayMasked ==
    \A c \in DOMAIN locals : locals[c].enabled <=> owed[c] = NoToken
=============================================================================
