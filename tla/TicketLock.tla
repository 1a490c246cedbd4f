-------------------------------- MODULE TicketLock --------------------------------
(***************************************************************************)
(* TicketLock of thermite-kernel/src/sync.rs and the clients that use it.  *)
(*                                                                         *)
(* next, owner and outstanding are the lock's fields.  A client enqueues,  *)
(* polls acquire with its ticket, and releases its guard; LockGuard is     *)
(* Copy, so a client may also release again the guard of an earlier visit. *)
(***************************************************************************)
EXTENDS Integers, Sequences

CONSTANTS Clients,
          MaxTicket,     \* u64::MAX for next and owner
          NoTicket

ASSUME TicketAssumption == MaxTicket \in Nat /\ NoTicket \notin Nat

VARIABLES next, owner, outstanding,   \* TicketLock
          pc,        \* a client is "idle", "waiting" or "inside"
          ticket     \* the ticket or guard the client holds, or last held

vars == <<next, owner, outstanding, pc, ticket>>

(* TicketLock::new *)
Init ==
    /\ next = 0 /\ owner = 0 /\ outstanding = {}
    /\ pc = [c \in Clients |-> "idle"]
    /\ ticket = [c \in Clients |-> NoTicket]

EnqueueOk == next < MaxTicket

(* TicketLock::enqueue; on TicketOverflow nothing changes. *)
Enqueue(c) ==
    /\ pc[c] = "idle" /\ EnqueueOk
    /\ ticket' = [ticket EXCEPT ![c] = next]
    /\ next' = next + 1
    /\ outstanding' = outstanding \cup {next}
    /\ pc' = [pc EXCEPT ![c] = "waiting"]
    /\ UNCHANGED owner

(* Mutant: acquire accepts any outstanding ticket. *)
AcquireOkOutOfOrder(t) == t \in outstanding

(* TicketLock::acquire succeeds. *)
AcquireOk(t) == t \in outstanding /\ t = owner

Acquire(c) ==
    /\ pc[c] = "waiting" /\ AcquireOk(ticket[c])
    /\ pc' = [pc EXCEPT ![c] = "inside"]
    /\ UNCHANGED <<next, owner, outstanding, ticket>>

(* Mutant: the guard of any ticket served so far may be released. *)
ReleaseOkOutstanding(t) == t <= owner

(* TicketLock::release succeeds. *)
ReleaseOk(t) == t = owner /\ t \in outstanding

(* Mutant: the next client is served only if it has already queued. *)
ReleasedLostTurn(t) ==
    /\ outstanding' = outstanding \ {t}
    /\ owner' = IF owner + 1 \in outstanding THEN owner + 1 ELSE owner

Released(t) ==
    /\ outstanding' = outstanding \ {t}
    /\ owner' = owner + 1

Release(c) ==
    /\ pc[c] = "inside" /\ ReleaseOk(ticket[c])
    /\ Released(ticket[c])
    /\ pc' = [pc EXCEPT ![c] = "idle"]
    /\ UNCHANGED <<next, ticket>>

(* A copy of the guard of an earlier visit is released again. *)
ReleaseCopy(c) ==
    /\ pc[c] = "idle" /\ ticket[c] # NoTicket
    /\ IF ReleaseOk(ticket[c]) THEN Released(ticket[c]) ELSE UNCHANGED <<owner, outstanding>>
    /\ UNCHANGED <<next, pc, ticket>>

Next == \E c \in Clients : Enqueue(c) \/ Acquire(c) \/ Release(c) \/ ReleaseCopy(c)

Spec == Init /\ [][Next]_vars

(* A client with a ticket keeps polling, and one inside comes out. *)
Fairness == \A c \in Clients : WF_vars(Acquire(c)) /\ WF_vars(Release(c))

FairSpec == Spec /\ Fairness

(***************************************************************************)
(* Properties.                                                             *)
(***************************************************************************)

(* The lock's counters and the clients' tickets keep their ranges. *)
TypeOK ==
    /\ next \in 0..MaxTicket /\ owner \in 0..MaxTicket
    /\ outstanding \in SUBSET (0..MaxTicket)
    /\ pc \in [Clients -> {"idle", "waiting", "inside"}]
    /\ ticket \in [Clients -> (0..MaxTicket) \cup {NoTicket}]

(* What makes the lock work: owner never passes next, the tickets between
   them are exactly the outstanding ones, each is held by one waiting or
   inside client, and only the owner's ticket is inside. *)
TicketsAccounted ==
    /\ owner <= next /\ outstanding = owner .. (next - 1)
    /\ \A t \in outstanding : \E c \in Clients : pc[c] # "idle" /\ ticket[c] = t
    /\ \A c \in Clients : pc[c] # "idle" => ticket[c] \in outstanding
    /\ \A c, d \in Clients :
          pc[c] # "idle" /\ pc[d] # "idle" /\ ticket[c] = ticket[d] => c = d
    /\ \A c \in Clients : pc[c] = "inside" => ticket[c] = owner
    /\ \A c \in Clients : pc[c] = "idle" => ticket[c] = NoTicket \/ ticket[c] < owner

(* Mutual exclusion. *)
MutualExclusion ==
    \A c, d \in Clients : pc[c] = "inside" /\ pc[d] = "inside" => c = d

(* A client that enqueued gets the lock. *)
EveryTicketServed == \A c \in Clients : pc[c] = "waiting" ~> pc[c] = "inside"

Holder(t) == CHOOSE c \in Clients : pc[c] # "idle" /\ ticket[c] = t

(* The abstract queue is the clients in the order of their tickets. *)
Line == [i \in 1..(next - owner) |-> Holder(owner + i - 1)]
In   == {c \in Clients : pc[c] = "inside"}

Fifo == INSTANCE FifoLock WITH queue <- Line, inside <- In

(* The ticket lock, replayed guards included, implements the first-come
   first-served lock of FifoLock. *)
ImplementsFifoLock == Fifo!Spec
=============================================================================
