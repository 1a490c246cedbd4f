------------------------------- MODULE UserContexts ------------------------------
(***************************************************************************)
(* thermite-kernel/src/context.rs: user contexts and the trap frames that  *)
(* resume them, with the clock and deadlines of services.rs.               *)
(*                                                                         *)
(* Registers are a model value.  TrapFrame is Copy: `frames' holds every   *)
(* frame ever built, spentFrames those a context was resumed with.         *)
(***************************************************************************)
EXTENDS Integers, KernelMaps

CONSTANTS Contexts, Registers, StartRegisters, BadStarts, MaxContextGeneration,
          ClockCpus, MaxTicks

ASSUME CtxAssumption == MaxContextGeneration \in Nat /\ MaxTicks \in Nat

VARIABLES contexts, frames, spentFrames, now, deadlines, terminal

ctxVars == <<contexts, frames, spentFrames, now, deadlines, terminal>>
contextVars == <<contexts, frames, spentFrames>>
serviceVars == <<now, deadlines, terminal>>

CtxInit ==
    /\ contexts = <<>> /\ frames = {} /\ spentFrames = {}
    /\ now = 0 /\ deadlines = <<>> /\ terminal = "Running"

(* UserContext::create refuses start addresses that are not canonical, not of
   the user half, or a misaligned stack. *)
CreateContext(id, capOk, start) ==
    /\ capOk /\ start \notin BadStarts /\ id \notin DOMAIN contexts
    /\ contexts' = Insert(contexts, id, [registers |-> start, generation |-> 0, runnable |-> TRUE])
    /\ UNCHANGED <<frames, spentFrames, serviceVars>>

TrapFrame(id, registers) ==
    [context |-> id, registers |-> registers, privilege |-> "User",
     generation |-> contexts[id].generation]

MayEnter(id) == id \in DOMAIN contexts /\ contexts[id].runnable

(* UserContext::enter *)
EnterContext(id, capOk) ==
    /\ capOk /\ MayEnter(id)
    /\ contexts' = [contexts EXCEPT ![id].runnable = FALSE]
    /\ frames' = frames \cup {TrapFrame(id, contexts[id].registers)}
    /\ UNCHANGED <<spentFrames, serviceVars>>

(* UserContext::trap builds a frame of the current generation at any time. *)
Trap(id, capOk, registers) ==
    /\ capOk /\ id \in DOMAIN contexts
    /\ frames' = frames \cup {TrapFrame(id, registers)}
    /\ UNCHANGED <<contexts, spentFrames, serviceVars>>

(* Mutant: the generation of a frame is not compared. *)
FrameFitsAnyGeneration(id, frame) == frame.context = id /\ frame.privilege = "User"

FrameFits(id, frame) ==
    /\ frame.context = id /\ frame.generation = contexts[id].generation
    /\ frame.privilege = "User"

(* UserContext::resume does not ask whether the context was entered, nor whether
   it was terminated meanwhile; at the last generation it fails after it has
   taken the registers over. *)
ResumeContext(id, capOk, frame) ==
    /\ capOk /\ id \in DOMAIN contexts /\ FrameFits(id, frame)
    /\ IF contexts[id].generation < MaxContextGeneration
       THEN /\ contexts' = [contexts EXCEPT ![id] = [registers |-> frame.registers,
                                runnable |-> TRUE, generation |-> @.generation + 1]]
            /\ spentFrames' = spentFrames \cup {frame}
       ELSE /\ contexts' = [contexts EXCEPT ![id].registers = frame.registers]
            /\ UNCHANGED spentFrames
    /\ UNCHANGED <<frames, serviceVars>>

(* UserContext::terminate *)
Terminate(id) ==
    /\ id \in DOMAIN contexts
    /\ contexts' = [contexts EXCEPT ![id].runnable = FALSE]
    /\ UNCHANGED <<frames, spentFrames, serviceVars>>

(* PlatformServices::update_clock never goes back. *)
UpdateClock(ticks) ==
    /\ ticks >= now
    /\ now' = ticks
    /\ UNCHANGED <<contextVars, deadlines, terminal>>

(* PlatformServices::arm_deadline replaces the CPU's deadline. *)
ArmDeadline(cpu, deadline) ==
    /\ deadline > now
    /\ deadlines' = Insert(deadlines, cpu, deadline)
    /\ UNCHANGED <<contextVars, now, terminal>>

CancelDeadline(cpu) ==
    /\ cpu \in DOMAIN deadlines
    /\ deadlines' = Without(deadlines, {cpu})
    /\ UNCHANGED <<contextVars, now, terminal>>

(* PlatformServices::due: a due deadline stays armed until it is cancelled. *)
Due == {c \in DOMAIN deadlines : deadlines[c] <= now}

(* PlatformServices::terminal *)
EnterTerminal(state) ==
    /\ terminal = "Running" /\ state # "Running"
    /\ terminal' = state
    /\ UNCHANGED <<contextVars, now, deadlines>>

CtxNext ==
    \/ \E id \in Contexts :
          \/ \E ok \in BOOLEAN :
                \/ \E r \in StartRegisters : CreateContext(id, ok, r)
                \/ EnterContext(id, ok)
                \/ \E r \in Registers : Trap(id, ok, r)
                \/ \E f \in frames : ResumeContext(id, ok, f)
          \/ Terminate(id)
    \/ \E t \in 0..MaxTicks : UpdateClock(t)
    \/ \E c \in ClockCpus : CancelDeadline(c) \/ \E t \in 0..MaxTicks : ArmDeadline(c, t)
    \/ \E s \in {"Running", "Reboot", "PowerOff", "Halt"} : EnterTerminal(s)

=============================================================================
