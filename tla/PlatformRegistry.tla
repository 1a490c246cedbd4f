----------------------------- MODULE PlatformRegistry -----------------------------
(***************************************************************************)
(* The frozen registry of platform operations                              *)
(* (thermite-kernel/src/registry.rs) and the inventory that closes a       *)
(* source's boundary declarations against it (boundary.rs).                *)
(*                                                                         *)
(* An entry is its domain and its name.  The other fields of an entry are  *)
(* only compared, so that a declaration has a set of the fields in which   *)
(* it drifted instead.                                                     *)
(***************************************************************************)
EXTENDS Naturals, Sequences, FiniteSets

CONSTANTS Declarations,       \* what a source may declare: [name, drifted]
          MaxDeclarations     \* bound on the declarations of one source

VARIABLES declared, closed    \* the declarations added so far, what close says of them
inventoryVars == <<declared, closed>>

(* op(..): operations of one domain. *)
Ops(domain, names) == {[domain |-> domain, key |-> n] : n \in names}

FrameOps ==
    Ops("memory", {"frame_split", "frame_join", "frame_lend", "frame_reclaim", "frame_zero", "frame_query",
                   "temporary_map", "temporary_revoke"})

SpaceOps ==
    Ops("memory", {"space_create", "activate", "destroy", "map", "unmap", "protect", "tlb_local", "tlb_space",
                   "inspect", "user_copy_in", "user_copy_out", "translation_validate"})

DeviceOps ==
    Ops("mmio", {"read8", "read16", "read32", "read64", "write8", "write16", "write32", "write64", "feature_query",
                 "compiler_fence", "read_barrier", "write_barrier", "full_barrier"})
    \cup Ops("pio", {"read8", "read16", "read32", "write8", "write16", "write32", "pci_config"})

IrqOps == Ops("irq", {"save_disable", "restore", "mask", "unmask", "eoi", "route", "state_validate"})

CpuOps ==
    Ops("cpu", {"logical_id", "features", "control_state", "msr_read", "supported_widths", "msr_write", "pause",
                "halt_interruptible", "rendezvous", "install_gdt", "install_idt", "install_tss", "install_syscall",
                "install_local", "enter_context", "trap_construct", "return_kernel", "context_switch", "return_user"})

AtomicOps ==
    Ops("atomic", {"load", "store", "swap", "compare_exchange", "compare_exchange_weak", "fetch", "compiler_fence",
                   "hardware_fence"})

SmpOps == Ops("smp", {"discover", "online_snapshot", "start", "ipi", "rendezvous", "stop_request", "shootdown"})

DmaOps == Ops("dma", {"pin", "domain_create", "map", "unmap", "segments", "sync", "unpin"})

ClockPowerOps ==
    Ops("clock", {"read", "arm", "cancel"}) \cup Ops("entropy", {"fill"}) \cup Ops("power", {"reboot", "off", "halt"})

BootOps ==
    Ops("boot", {"handoff", "memcpy", "memmove", "memset", "panic", "contract_violation", "allocation_failure",
                 "stack_probe", "terminal_fault"})

Registry == UNION {FrameOps, SpaceOps, DeviceOps, IrqOps, CpuOps, AtomicOps, SmpOps,
                   DmaOps, ClockPowerOps, BootOps}

(* canonical_name: the domain and the name under kernel::, at version 1. *)
CanonicalName(e) == <<e.domain, e.key>>

(* source_op marks one entry as reachable from source. *)
SourceReachable(e) == CanonicalName(e) = <<"clock", "read">>

(* lookup *)
Lookup(name) ==
    LET found == {e \in Registry : CanonicalName(e) = name}
    IN  IF found = {} THEN "UnknownName"
        ELSE IF Cardinality(found) > 1 THEN "DuplicateName" ELSE "Ok"

(* The fields of a declaration in the order in which close compares them. *)
Fields == <<"Signature", "Contract", "Domain", "Capability", "Rights", "Symbol",
            "SourceContract", "Reachability">>

ASSUME InventoryAssumption ==
    \A d \in Declarations : d.drifted \subseteq {Fields[i] : i \in DOMAIN Fields}

(* The first comparison of close that fails. *)
FirstDrift(drifted) ==
    LET at == {i \in DOMAIN Fields : Fields[i] \in drifted}
    IN  IF at = {} THEN "Ok" ELSE Fields[CHOOSE i \in at : \A j \in at : i <= j]

(* Mutant: a declaration's name alone decides. *)
DeclarationErrorNameOnly(decls, i) ==
    IF \E j \in 1..(i - 1) : decls[j].name = decls[i].name THEN "DuplicateDeclaration"
    ELSE Lookup(decls[i].name)

(* The body of close's loop for the i-th declaration. *)
DeclarationError(decls, i) ==
    IF \E j \in 1..(i - 1) : decls[j].name = decls[i].name THEN "DuplicateDeclaration"
    ELSE IF Lookup(decls[i].name) # "Ok" THEN Lookup(decls[i].name)
    ELSE FirstDrift(decls[i].drifted)

(* BoundaryInventory::close *)
CloseInventory(decls, requireComplete) ==
    LET failed == {i \in DOMAIN decls : DeclarationError(decls, i) # "Ok"}
        names  == {decls[i].name : i \in DOMAIN decls}
    IN  IF failed # {}
        THEN DeclarationError(decls, CHOOSE i \in failed : \A j \in failed : i <= j)
        ELSE IF decls = <<>> THEN "MissingReachableEntry"
        ELSE IF /\ requireComplete
                /\ \E e \in Registry : SourceReachable(e) /\ CanonicalName(e) \notin names
             THEN "UnreachableFrozenEntry"
        ELSE "Ok"

InventoryInit == declared = <<>> /\ closed = <<>>

(* A caller lists its boundary declarations... *)
Declare(d) ==
    /\ closed = <<>> /\ Len(declared) < MaxDeclarations
    /\ declared' = Append(declared, d)
    /\ UNCHANGED closed

(* ... and closes them, for a profile that may require completeness. *)
CloseBoundary(requireComplete) ==
    /\ closed = <<>>
    /\ closed' = [complete |-> requireComplete,
                  result |-> CloseInventory(declared, requireComplete)]
    /\ UNCHANGED declared

InventoryNext ==
    \/ \E d \in Declarations : Declare(d)
    \/ \E c \in BOOLEAN : CloseBoundary(c)

(***************************************************************************)
(* Properties.                                                             *)
(***************************************************************************)

(* BoundaryInventory: what close accepts names operations of the registry, each
   one once and without drift in any of the fields, in whatever order they were
   declared, and under a profile that asks for it every reachable one. *)
InventoryExact ==
    closed # <<>> /\ closed.result = "Ok" =>
        LET names == {declared[i].name : i \in DOMAIN declared}
            reachable == {e \in Registry : SourceReachable(e)}
        IN  /\ declared # <<>> /\ Cardinality(names) = Len(declared)
            /\ \A i \in DOMAIN declared :
                  /\ declared[i].drifted = {}
                  /\ \E e \in Registry : CanonicalName(e) = declared[i].name
            /\ closed.complete => {CanonicalName(e) : e \in reachable} \subseteq names
=============================================================================
