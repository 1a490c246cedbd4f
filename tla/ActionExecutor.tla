------------------------------ MODULE ActionExecutor ------------------------------
(***************************************************************************)
(* ActionExecutor::authorize (thermite-kernel/src/event.rs) over the       *)
(* capability ledger, while other clients transfer and release the         *)
(* capabilities it looks at.  `log' is the sequence of AuthorizedActions   *)
(* in the order they were granted; `by' is the owner who asked, which the  *)
(* AuthorizedAction itself does not carry.                                 *)
(***************************************************************************)
EXTENDS CapabilityLedger, PlatformActions, Sequences

CONSTANTS Actions,      \* the actions presented
          MaxLog        \* bound on the authorizations of one behaviour

ASSUME ExecutorAssumption == Top = MaxAddr /\ MaxLog \in Nat

VARIABLE log

allVars == <<vars, log>>

InitExecutor == Init /\ log = <<>>

(* Mutant: the kind of the capability is not compared. *)
AuthorizeErrorAnyKind(owner, c, a) ==
    IF ValidateAction(a) # "Ok" THEN ValidateAction(a)
    ELSE IF AuthorityOverflows(a) THEN "RangeOverflow"
    ELSE LET need == ActionAuthority(a)
         IN Validate(c, owner, need.rights, need.base, need.len)

(* Mutant: the capability is checked on its own word, not against the ledger. *)
AuthorizeErrorSelfDescribed(owner, c, a) ==
    IF ValidateAction(a) # "Ok" THEN ValidateAction(a)
    ELSE IF AuthorityOverflows(a) THEN "RangeOverflow"
    ELSE LET need == ActionAuthority(a) IN
         IF c.kind # need.kind THEN "WrongKind"
         ELSE IF c.owner # owner THEN "ForeignOwner"
         ELSE IF ~(need.rights \subseteq c.rights) THEN "MissingRights"
         ELSE IF ~ContainsRange(c, need.base, need.len) THEN "OutOfRange" ELSE "Ok"

AuthorizeError(owner, c, a) ==
    IF ValidateAction(a) # "Ok" THEN ValidateAction(a)
    ELSE IF AuthorityOverflows(a) THEN "RangeOverflow"
    ELSE LET need == ActionAuthority(a) IN
         IF c.kind # need.kind THEN "WrongKind"
         ELSE Validate(c, owner, need.rights, need.base, need.len)

(* ActionExecutor::authorize: it borrows the ledger immutably, so a refusal
   changes nothing. *)
Authorize(owner, c, a) ==
    /\ AuthorizeError(owner, c, a) = "Ok"
    /\ log' = Append(log, [action |-> a, slot |-> c.slot,
                           generation |-> c.generation, by |-> owner])
    /\ UNCHANGED vars

NextExecutor ==
    \/ Next /\ UNCHANGED log
    \/ /\ Len(log) < MaxLog
       /\ \E owner \in Owners, c \in issued, a \in Actions : Authorize(owner, c, a)

SpecExecutor == InitExecutor /\ [][NextExecutor]_allVars

(***************************************************************************)
(* Properties.                                                             *)
(***************************************************************************)
SlotOf(entry) == <<ActionAuthority(entry.action).kind, entry.slot>>

(* (slot, generation) names the grantee: although an AuthorizedAction carries
   neither owner nor kind, two authorizations of actions of one kind under one
   slot and generation were given to the same owner, and a later one never
   carries an older generation, however transfers and releases fall between. *)
GenerationNamesOwner ==
    \A i, j \in DOMAIN log : i < j /\ SlotOf(log[i]) = SlotOf(log[j]) =>
        /\ log[i].generation <= log[j].generation
        /\ log[i].generation = log[j].generation => log[i].by = log[j].by

(* Every action authorized so far was covered by the root its slot was minted
   with: its kind, its right and its whole byte range, without overflow. *)
CoveredByRoot ==
    \A i \in DOMAIN log :
        LET need == ActionAuthority(log[i].action) IN
        \E root \in issued :
            /\ root.generation = 0 /\ KeyOf(root) = <<need.kind, log[i].slot>>
            /\ need.rights \subseteq root.rights
            /\ need.base >= root.base
            /\ need.base + need.len <= root.base + root.len
            /\ root.base + root.len <= MaxAddr

(* What was ever authorized was covered by the root of its slot, and names its
   grantee, however transfers and releases fell between. *)
AuthorizationsSound == GenerationNamesOwner /\ CoveredByRoot
=============================================================================
