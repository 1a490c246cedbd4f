------------------------------ MODULE MCKernelObjects -----------------------------
(* The objects of thermite-kernel that have no field in common: a behaviour     *)
(* follows one of them, focus, and leaves the others as they are created.       *)
(* SyncObjects follows the lock, the barrier and the queue in the same way.     *)
EXTENDS SyncObjects, FrameAllocator, DmaDomains, AddressSpaces, KernelStorage,
        UserContexts, DeviceBus

(* Two boot regions that coalesce; regions and requests that are refused. *)
MCRegions  == {<<2, 2>>, <<6, 1>>, <<1, 1>>, <<0, 0>>, <<8, 2>>}
MCRequests == {<<2, 1>>, <<1, 2>>, <<1, 3>>}

(* Two devices, each with a domain; the second one's pin is out of the region. *)
MCPins == {[device |-> 1, domain |-> 1, base |-> 1, len |-> 1],
           [device |-> 1, domain |-> 2, base |-> 2, len |-> 1],
           [device |-> 2, domain |-> 2, base |-> 1, len |-> 2],
           [device |-> 2, domain |-> 2, base |-> 3, len |-> 2]}
MCDomains == {[id |-> 1, device |-> 1, base |-> 0, len |-> 4, mode |-> "AbsentIdentity"],
              [id |-> 2, device |-> 2, base |-> 5, len |-> 2, mode |-> "Present"]}

(* Registers of two bytes or more, one without rights, one of the other bus, one
   whose range overflows. *)
MCBusCaps ==
    {[kind |-> "Mmio", rights |-> {"READ", "WRITE"}, base |-> 0, len |-> 2],
     [kind |-> "Mmio", rights |-> {"READ"}, base |-> 2, len |-> 2],
     [kind |-> "Mmio", rights |-> {"WRITE"}, base |-> 3, len |-> 3],
     [kind |-> "IoPort", rights |-> {"READ", "WRITE"}, base |-> 1, len |-> 3]}

(* Five virtual bytes, the last one not canonical; pages of one and two bytes. *)
MCFrames == {[base |-> 2, len |-> 2, ok |-> TRUE], [base |-> 0, len |-> 2, ok |-> FALSE]}
MCPermissions == {{}, {"READ", "USER"}, {"READ", "WRITE", "USER"}}

objectVars == <<syncVars, frameVars, irqVars, dmaVars, asVars, storageVars, ctxVars, atomicVars,
                busVars>>

Init0 ==
    /\ Init /\ BarrierInit /\ QueueInit
    /\ FrameInit /\ IrqInit /\ DmaInit /\ AsInit /\ StorageInit /\ CtxInit /\ AtomicInit
    /\ BusInit
    /\ focus \in {"lock", "barrier", "queue", "frame", "irq", "dma", "space", "storage",
                  "context", "atomic", "bus"}

Next0 ==
    \/ SyncNext /\ UNCHANGED <<frameVars, irqVars, dmaVars, asVars, storageVars, ctxVars, atomicVars, busVars>>
    \/ /\ focus = "frame" /\ FrameNext
       /\ UNCHANGED <<syncVars, irqVars, dmaVars, asVars, storageVars, ctxVars, atomicVars, busVars>>
    \/ /\ focus = "irq" /\ IrqNext
       /\ UNCHANGED <<syncVars, frameVars, dmaVars, asVars, storageVars, ctxVars, atomicVars, busVars>>
    \/ /\ focus = "dma" /\ DmaNext
       /\ UNCHANGED <<syncVars, frameVars, irqVars, asVars, storageVars, ctxVars, atomicVars, busVars>>
    \/ /\ focus = "space" /\ AsNext
       /\ UNCHANGED <<syncVars, frameVars, irqVars, dmaVars, storageVars, ctxVars, atomicVars, busVars>>
    \/ /\ focus = "storage" /\ StorageNext
       /\ UNCHANGED <<syncVars, frameVars, irqVars, dmaVars, asVars, ctxVars, atomicVars, busVars>>
    \/ /\ focus = "context" /\ CtxNext
       /\ UNCHANGED <<syncVars, frameVars, irqVars, dmaVars, asVars, storageVars, atomicVars, busVars>>
    \/ /\ focus = "atomic" /\ AtomicNext
       /\ UNCHANGED <<syncVars, frameVars, irqVars, dmaVars, asVars, storageVars, ctxVars, busVars>>
    \/ /\ focus = "bus" /\ BusNext
       /\ UNCHANGED <<syncVars, frameVars, irqVars, dmaVars, asVars, storageVars, ctxVars, atomicVars>>

ObjectsSpec == Init0 /\ [][Next0]_objectVars /\ SyncFairness

(* Two objects for what is claimed of them: the frame allocator until its claim
   fails, and then the event log. *)
ClaimsNext ==
    \/ /\ ReleasedRunsStayDead /\ FrameNext
       /\ UNCHANGED <<syncVars, irqVars, dmaVars, asVars, storageVars, ctxVars, atomicVars, busVars>>
    \/ /\ ~ReleasedRunsStayDead /\ AtomicNext
       /\ UNCHANGED <<syncVars, frameVars, irqVars, dmaVars, asVars, storageVars, ctxVars, busVars>>
ClaimsSpec == Init0 /\ focus = "frame" /\ [][ClaimsNext]_objectVars

(***************************************************************************)
(* Properties, besides those of the extended modules.                      *)
(***************************************************************************)

(* FrameAllocator: no frame is free and granted, granted twice, lost or invented
   through splits, joins, aligned partial allocations and coalescing releases,
   a lent run stays allocated to its owner until it is reclaimed, and without
   splits and joins the handle of a released run is never good again. *)
FramesAccounted ==
    /\ Disjoint /\ Conserved
    /\ LoansStayAllocated /\ UncutRunsStayDead

(* What is put into a container of the kernel comes out as it was: the queue
   keeps each producer's order, full or not; a map or table changed by several
   clients holds what the operations left in it; and an edge of the event log leads
   to the write that was read.  A load always has one; a read-modify-write loses it
   exactly if another event was logged since that write. *)
ContainersFaithful == PerProducerOrder /\ ContentPreserving /\ ReadsTraced

(* Values that a caller may copy are good for one use: an interrupt token that
   was handed back and a trap frame that resumed its context never match again,
   however often the CPU disables interrupts or the context traps meanwhile.  No
   replayed token ends a critical section. *)
SpentStaysSpent ==
    /\ \A t \in spentTokens : ~Matches(t.cpu, t)
    /\ \A f \in spentFrames : ~FrameFits(f.context, f)
    /\ CriticalSectionsStayMasked

(* Writes reach what they were authorised for and nothing else: a user copy
   writes all of its bytes or none, and a device access one aligned word inside
   a range that its capability may write. *)
WritesConfined == UserCopiesAllOrNothing /\ BusWritesConfined

(* "A copied stale value ... returns a typed platform error" (the design of the kernel),
   so a released run stays dead; "Each read records its reads-from edge" (atomic.rs).
   At least one of the two holds of the code. *)
KernelClaimHolds == ReleasedRunsStayDead \/ EveryReadTraced
=============================================================================
