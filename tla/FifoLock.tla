--------------------------------- MODULE FifoLock ---------------------------------
(***************************************************************************)
(* What a ticket lock promises: clients join a queue, the client at its    *)
(* head may enter, and leaves the queue when it lets go.  Who joined first *)
(* enters first, and at most one client is inside.                         *)
(***************************************************************************)
EXTENDS Sequences

CONSTANT Clients

VARIABLES queue,    \* the clients waiting or inside, in the order they joined
          inside    \* {} or the singleton of the client inside

lockVars == <<queue, inside>>

Init == queue = <<>> /\ inside = {}

Join(c) ==
    /\ \A i \in DOMAIN queue : queue[i] # c
    /\ queue' = Append(queue, c)
    /\ UNCHANGED inside

Enter(c) ==
    /\ inside = {} /\ queue # <<>> /\ Head(queue) = c
    /\ inside' = {c}
    /\ UNCHANGED queue

Leave(c) ==
    /\ inside = {c}
    /\ inside' = {}
    /\ queue' = Tail(queue)

Next == \E c \in Clients : Join(c) \/ Enter(c) \/ Leave(c)

Spec == Init /\ [][Next]_lockVars
=============================================================================
