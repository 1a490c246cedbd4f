----------------------------- MODULE MCActionExecutor -----------------------------
(* The two halves of thermite-kernel/src/event.rs with their capabilities and   *)
(* policy: the action executor over the ledger, and the event sequencer with    *)
(* the kernel policy.  They share no field, so that a behaviour is of one or of *)
(* the other.                                                                   *)
(* The inventory of a source's boundary declarations is closed before either.   *)
EXTENDS ActionExecutor, EventPolicy, PlatformRegistry, TLC

VARIABLE focus

(* Capabilities of two kinds share a slot number; their ranges include one that
   overflows, and the actions stay inside, cross the end, or have a wrong width
   or a kind nobody holds. *)
MCRanges == {<<0, 2>>, <<1, 3>>}
MCActions ==
    {Access("MmioRead", 1, 1), Access("PioRead", 0, 1), Access("MmioRead", 1, 2),
     Access("MmioRead", 0, 3), Plain("ArmTimer"), MapPages(0, 4, 1)}

(* An event of each effect on a shard and of each kind of refusal, and an action
   whose completion is accepted, refused, or never issued. *)
K(tag) == [tag |-> tag]
MCEventKinds ==
    {K("Timer"), K("CpuOnline"), K("ShutdownRequest"),
     [tag |-> "Irq", vector |-> 48],
     [tag |-> "Ipi", vector |-> 48, epoch |-> 0], [tag |-> "DmaComplete", slot |-> 3]}
MCEventActions == {StartCpu(1), SubmitDma(3), Access("MmioRead", 0, 3)}

(* The reachable operation, one that is not, one nobody registered, and
   declarations that drifted in a field or two. *)
MCDeclarations ==
    {[name |-> n, drifted |-> {}] : n \in {<<"clock", "read">>, <<"clock", "arm">>, <<"clock", "set">>}}
    \cup {[name |-> <<"clock", "read">>, drifted |-> d] :
             d \in {{"Rights"}, {"Signature", "Reachability"}, {"SourceContract"}}}

MCInit ==
    /\ InitExecutor /\ EventInit /\ InventoryInit
    /\ focus \in {"executor", "events", "inventory"}
MCNext ==
    \/ focus = "executor" /\ NextExecutor /\ UNCHANGED <<eventVars, inventoryVars, focus>>
    \/ focus = "events" /\ EventNext /\ UNCHANGED <<allVars, inventoryVars, focus>>
    \/ focus = "inventory" /\ InventoryNext /\ UNCHANGED <<allVars, eventVars, focus>>
MCSpec == MCInit /\ [][MCNext]_<<allVars, eventVars, inventoryVars, focus>>

(* Only the event half, for the finding about completions. *)
EventSpec == MCInit /\ focus = "events" /\ [][MCNext]_<<allVars, eventVars, inventoryVars, focus>>

(* err and eventErr only report the last result; owners are interchangeable. *)
MCView     == <<records, issued, log, nextEvent, nextAction, irqOwners, dmaSlots, shards,
                lastGlobal, events, issuedActions, todo, focus, declared, closed>>
MCSymmetry == Permutations(Owners)
=============================================================================
