------------------------------- MODULE DmaDomains -------------------------------
(***************************************************************************)
(* thermite-kernel/src/dma.rs: pinned buffers, IOMMU domains and the       *)
(* ownership of a buffer.                                                  *)
(*                                                                         *)
(* mappings, generations, domains and segments are the BTreeMaps of the    *)
(* same name; addresses and lengths count pages.  DmaMapping is Copy:      *)
(* `copies' holds every <<slot, mapping>> a call returned and callers      *)
(* present any of them.  A refused call changes nothing, except that       *)
(* register_domain replaces a domain before it returns DuplicateDomain.    *)
(***************************************************************************)
EXTENDS Integers, KernelMaps

CONSTANTS Slots, Pins,       \* DmaPin requests without their slot
          Region,            \* pages of the caller's region capability
          Domains,           \* IommuDomain records given to register_domain
          DeviceAddresses, MaxDmaGeneration

ASSUME DmaAssumption ==
    /\ Pins \subseteq [device : Int, domain : Int, base : Int, len : Int]
    /\ Domains \subseteq [id : Int, device : Int, base : Int, len : Int,
                          mode : {"AbsentIdentity", "Present"}]
    /\ DeviceAddresses \subseteq Int /\ MaxDmaGeneration \in Nat

VARIABLES mappings, generations, domains, segments, copies

dmaVars == <<mappings, generations, domains, segments, copies>>

Pages(base, len) == base .. base + len - 1

DmaInit ==
    /\ mappings = <<>> /\ generations = <<>> /\ domains = <<>> /\ segments = <<>>
    /\ copies = {}

(* DmaState::pin; regionOk is the region capability's kind and rights. *)
Pin(slot, pin, regionOk) ==
    /\ regionOk /\ pin.len # 0 /\ Pages(pin.base, pin.len) \subseteq Region
    /\ slot \notin DOMAIN mappings
    /\ LET m == [device |-> pin.device, domain |-> pin.domain, base |-> pin.base,
                 len |-> pin.len, ownership |-> "Cpu",
                 generation |-> IF slot \in DOMAIN generations THEN generations[slot] ELSE 0]
       IN /\ mappings' = Insert(mappings, slot, m)
          /\ copies' = copies \cup {<<slot, m>>}
    /\ UNCHANGED <<generations, domains, segments>>

(* DmaState::register_domain *)
RegisterDomain(domain) ==
    /\ domain.len # 0
    /\ domains' = Insert(domains, domain.id, domain)
    /\ UNCHANGED <<mappings, generations, segments, copies>>

(* Mutant: only the presence of the slot is checked. *)
IsLivePresent(slot, m) == slot \in DOMAIN mappings

(* Every operation compares the copy's generation with that of the live slot. *)
IsLive(slot, m) == slot \in DOMAIN mappings /\ mappings[slot].generation = m.generation

(* The address check of map_domain: identity without an IOMMU, else a domain
   capability (its slot, or 0 for none) and the aperture. *)
Reachable(domain, m, capSlot, address) ==
    \/ domain.mode = "AbsentIdentity" /\ capSlot = 0 /\ address = m.base
    \/ /\ domain.mode = "Present" /\ capSlot = domain.id
       /\ Pages(address, m.len) \subseteq Pages(domain.base, domain.len)

(* DmaState::map_domain works on the caller's copy of the mapping and does not
   ask who owns the buffer. *)
MapDomain(slot, m, capSlot, address) ==
    /\ IsLive(slot, m) /\ slot \notin DOMAIN segments
    /\ m.domain \in DOMAIN domains /\ domains[m.domain].device = m.device
    /\ Reachable(domains[m.domain], m, capSlot, address)
    /\ segments' = Insert(segments, slot, [address |-> address, len |-> m.len])
    /\ UNCHANGED <<mappings, generations, domains, copies>>

(* DmaState::unmap_domain *)
UnmapDomain(slot, m) ==
    /\ IsLive(slot, m) /\ mappings[slot].ownership = "Cpu" /\ slot \in DOMAIN segments
    /\ segments' = Without(segments, {slot})
    /\ UNCHANGED <<mappings, generations, domains, copies>>

(* DmaState::validate *)
Validate(slot, m, device, domain) ==
    /\ IsLive(slot, m)
    /\ mappings[slot].device = device /\ m.device = device
    /\ mappings[slot].domain = domain /\ m.domain = domain

(* Mutant: the segments are not looked for. *)
MayUnpinMapped(slot) == mappings[slot].ownership = "Cpu"

MayUnpin(slot) == mappings[slot].ownership = "Cpu" /\ slot \notin DOMAIN segments

(* DmaState::unpin *)
Unpin(slot, m) ==
    /\ IsLive(slot, m) /\ MayUnpin(slot) /\ mappings[slot].generation < MaxDmaGeneration
    /\ mappings' = Without(mappings, {slot})
    /\ generations' = Insert(generations, slot, mappings[slot].generation + 1)
    /\ UNCHANGED <<domains, segments, copies>>

(* DmaState::transition_ownership: the live record and the copy must both have
   the expected owner. *)
TransitionOwnership(slot, m, expected, next) ==
    /\ IsLive(slot, m) /\ mappings[slot].ownership = expected /\ m.ownership = expected
    /\ mappings' = [mappings EXCEPT ![slot].ownership = next]
    /\ copies' = copies \cup {<<slot, mappings'[slot]>>}
    /\ UNCHANGED <<generations, domains, segments>>

SyncForDevice(slot, m) == TransitionOwnership(slot, m, "Cpu", "Device")
SyncForCpu(slot, m)    == TransitionOwnership(slot, m, "Device", "Cpu")

(* Boot code registers each domain once. *)
DmaNext ==
    \/ \E s \in Slots, p \in Pins, ok \in BOOLEAN : Pin(s, p, ok)
    \/ \E d \in Domains : d.id \notin DOMAIN domains /\ RegisterDomain(d)
    \/ \E c \in copies :
          \/ UnmapDomain(c[1], c[2]) \/ Unpin(c[1], c[2])
          \/ SyncForDevice(c[1], c[2]) \/ SyncForCpu(c[1], c[2])
          \/ \E a \in DeviceAddresses, id \in {0} \cup {d.id : d \in Domains} :
                MapDomain(c[1], c[2], id, a)

Same(m, n) == /\ m.device = n.device /\ m.domain = n.domain
              /\ m.base = n.base /\ m.len = n.len

(* No DMA after unpin, none by another device: what a device can reach is the
   buffer that is pinned now, through a domain of its own device and within the
   aperture, and a copy of a mapping that still validates describes exactly the
   pinned buffer, however often the slot was reused. *)
NoStaleDma ==
    /\ \A s \in DOMAIN segments :
          /\ s \in DOMAIN mappings /\ segments[s].len = mappings[s].len
          /\ LET m == mappings[s]  d == domains[m.domain] IN
             /\ d.device = m.device
             /\ d.mode = "AbsentIdentity" => segments[s].address = m.base
             /\ d.mode = "Present" =>
                   Pages(segments[s].address, m.len) \subseteq Pages(d.base, d.len)
    /\ \A c \in copies : Validate(c[1], c[2], c[2].device, c[2].domain)
                            => Same(c[2], mappings[c[1]])
=============================================================================
