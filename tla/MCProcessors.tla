------------------------------- MODULE MCProcessors -------------------------------
(* The scheduler and the SMP state: they share no field, so that a behaviour is *)
(* of one or of the other.                                                      *)
EXTENDS Scheduler, Smp

VARIABLE focus

ProcessorsInit == Init /\ SmpInit /\ focus \in {"scheduler", "smp"}

ProcessorsNext ==
    \/ focus = "scheduler" /\ Next /\ UNCHANGED <<smpVars, focus>>
    \/ focus = "smp" /\ SmpNext /\ UNCHANGED <<vars, focus>>

(* The fairness of the two modules; neither has a step to take while the other
   one is followed, because nothing was created in it. *)
ProcessorsSpec ==
    /\ ProcessorsInit /\ [][ProcessorsNext]_<<vars, smpVars, focus>>
    /\ Fairness
    /\ SmpFairness
=============================================================================
