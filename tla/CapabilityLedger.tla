---------------------------- MODULE CapabilityLedger ----------------------------
(***************************************************************************)
(* thermite-kernel/src/capability.rs: the dynamic uniqueness ledger.       *)
(*                                                                         *)
(* A ledger slot (kind, slot) holds one Record.  A Capability is a plain,  *)
(* cloneable copy of the record's fields, so any client may present any    *)
(* handle it was ever given, in any order: `issued' remembers all of them. *)
(* `err' is the Result of the last call ("Ok" or the CapabilityError).     *)
(* Addr is the u64 address space cut down to 0..MaxAddr, generations are   *)
(* 0..MaxGeneration; both keep the checked_add of the code.                *)
(***************************************************************************)
EXTENDS Integers

CONSTANTS Kinds,          \* CapabilityKind
          Slots,          \* u32 slot numbers
          Owners,         \* OwnerId
          AllRights,      \* Rights::ALL, as the set of its bits
          UnknownRights,  \* bits of the u32 outside Rights::ALL
          Ranges,         \* the (base, len) pairs clients name
          MaxAddr,        \* u64::MAX for addresses
          MaxGeneration,  \* u64::MAX for generations
          Absent          \* no entry in the BTreeMap

ASSUME BoundsAssumption == MaxAddr \in Nat /\ MaxGeneration \in Nat
ASSUME RangesAssumption == Ranges \subseteq (0..MaxAddr) \X (0..MaxAddr)

VARIABLES records, issued, err

vars == <<records, issued, err>>

Key    == Kinds \X Slots
Bits   == AllRights \cup UnknownRights
Addr   == 0..MaxAddr
Record == [owner: Owners, rights: SUBSET AllRights, generation: 0..MaxGeneration,
           base: Addr, len: Addr, live: BOOLEAN]
Capability == [kind: Kinds, slot: Slots, owner: Owners, rights: SUBSET AllRights,
               generation: 0..MaxGeneration, base: Addr, len: Addr]

(* Result<_, CapabilityError>; the ledger itself never answers WrongKind. *)
Results == {"Ok", "DuplicateSlot", "UnknownSlot", "Released", "ForeignOwner",
            "StaleGeneration", "MissingRights", "RightsEscalation",
            "RangeOverflow", "OutOfRange", "GenerationOverflow"}

ASSUME AbsentAssumption == Absent \notin Record

KeyOf(c) == <<c.kind, c.slot>>

(* CapabilityLedger::capability: the handle that copies a record. *)
CapabilityOf(key, r) ==
    [kind |-> key[1], slot |-> key[2], owner |-> r.owner, rights |-> r.rights,
     generation |-> r.generation, base |-> r.base, len |-> r.len]

(* Capability::contains_range, both additions checked. *)
ContainsRange(c, base, len) ==
    /\ c.base + c.len <= MaxAddr
    /\ base + len <= MaxAddr
    /\ base >= c.base
    /\ base + len <= c.base + c.len

(* Mutant: validate without the generation check. *)
ValidateAnyGeneration(c, owner, required, base, len) ==
    LET r == records[KeyOf(c)] IN
    IF r = Absent THEN "UnknownSlot"
    ELSE IF ~r.live THEN "Released"
    ELSE IF r.owner # owner \/ c.owner # owner THEN "ForeignOwner"
    ELSE IF r.rights # c.rights \/ ~(required \subseteq r.rights) THEN "MissingRights"
    ELSE IF ~ContainsRange(c, base, len) THEN "OutOfRange"
    ELSE "Ok"

(* CapabilityLedger::validate, its refusals in source order. *)
Validate(c, owner, required, base, len) ==
    LET r == records[KeyOf(c)] IN
    IF r = Absent THEN "UnknownSlot"
    ELSE IF ~r.live THEN "Released"
    ELSE IF r.generation # c.generation THEN "StaleGeneration"
    ELSE IF r.owner # owner \/ c.owner # owner THEN "ForeignOwner"
    ELSE IF r.rights # c.rights \/ ~(required \subseteq r.rights) THEN "MissingRights"
    ELSE IF r.base # c.base \/ r.len # c.len THEN "OutOfRange"
    ELSE IF ~ContainsRange(c, base, len) THEN "OutOfRange"
    ELSE "Ok"

(* CapabilityLedger::validate_record, behind transfer and release. *)
ValidateRecord(r, c) ==
    IF r = Absent THEN "UnknownSlot"
    ELSE IF ~r.live THEN "Released"
    ELSE IF r.owner # c.owner THEN "ForeignOwner"
    ELSE IF r.generation # c.generation THEN "StaleGeneration"
    ELSE IF r.rights # c.rights \/ r.base # c.base \/ r.len # c.len THEN "OutOfRange"
    ELSE "Ok"

(***************************************************************************)
(* The operations.                                                         *)
(***************************************************************************)
Init ==
    /\ records = [k \in Key |-> Absent]
    /\ issued = {}
    /\ err = "Ok"

Refuse(reason) ==
    /\ err' = reason
    /\ UNCHANGED <<records, issued>>

(* Mutant: mint_root without the check for bits outside Rights::ALL. *)
MintErrorUnknownBits(key, rights, base, len) ==
    IF base + len > MaxAddr THEN "RangeOverflow"
    ELSE IF records[key] # Absent THEN "DuplicateSlot"
    ELSE "Ok"

MintError(key, rights, base, len) ==
    IF ~(rights \subseteq AllRights) THEN "RightsEscalation"
    ELSE IF base + len > MaxAddr THEN "RangeOverflow"
    ELSE IF records[key] # Absent THEN "DuplicateSlot"
    ELSE "Ok"

MintRoot(key, owner, rights, base, len) ==
    LET r == [owner |-> owner, rights |-> rights, generation |-> 0,
              base |-> base, len |-> len, live |-> TRUE]
        e == MintError(key, rights, base, len)
    IN \/ /\ e = "Ok"
          /\ records' = [records EXCEPT ![key] = r]
          /\ issued' = issued \cup {CapabilityOf(key, r)}
          /\ err' = "Ok"
       \/ e # "Ok" /\ Refuse(e)

(* Mutant: transfer without the rights-subset check. *)
TransferErrorUnchecked(c, newRights) ==
    LET r == records[KeyOf(c)] IN
    IF ValidateRecord(r, c) # "Ok" THEN ValidateRecord(r, c)
    ELSE IF ~(newRights \subseteq AllRights) THEN "RightsEscalation"
    ELSE IF r.generation = MaxGeneration THEN "GenerationOverflow"
    ELSE "Ok"

TransferError(c, newRights) ==
    LET r == records[KeyOf(c)] IN
    IF ValidateRecord(r, c) # "Ok" THEN ValidateRecord(r, c)
    ELSE IF ~(newRights \subseteq r.rights) THEN "RightsEscalation"
    ELSE IF r.generation = MaxGeneration THEN "GenerationOverflow"
    ELSE "Ok"

(* Mutant: the generation wraps round one early instead of being refused. *)
TransferredWrapping(r, newOwner, newRights) ==
    [r EXCEPT !.generation = (@ + 1) % MaxGeneration,
              !.owner = newOwner, !.rights = newRights]

Transferred(r, newOwner, newRights) ==
    [r EXCEPT !.generation = @ + 1, !.owner = newOwner, !.rights = newRights]

Transfer(c, newOwner, newRights) ==
    LET r == Transferred(records[KeyOf(c)], newOwner, newRights)
        e == TransferError(c, newRights)
    IN \/ /\ e = "Ok"
          /\ records' = [records EXCEPT ![KeyOf(c)] = r]
          /\ issued' = issued \cup {CapabilityOf(KeyOf(c), r)}
          /\ err' = "Ok"
       \/ e # "Ok" /\ Refuse(e)

ReleaseError(c) ==
    LET r == records[KeyOf(c)] IN
    IF ValidateRecord(r, c) # "Ok" THEN ValidateRecord(r, c)
    ELSE IF r.generation = MaxGeneration THEN "GenerationOverflow"
    ELSE "Ok"

Released(r) == [r EXCEPT !.generation = @ + 1, !.live = FALSE]

Release(c) ==
    LET e == ReleaseError(c)
    IN \/ /\ e = "Ok"
          /\ records' = [records EXCEPT ![KeyOf(c)] = Released(@)]
          /\ err' = "Ok"
          /\ UNCHANGED issued
       \/ e # "Ok" /\ Refuse(e)

Next ==
    \/ \E key \in Key, owner \in Owners, rights \in SUBSET Bits, range \in Ranges :
          MintRoot(key, owner, rights, range[1], range[2])
    \/ \E c \in issued, newOwner \in Owners, newRights \in SUBSET Bits :
          Transfer(c, newOwner, newRights)
    \/ \E c \in issued : Release(c)

Spec == Init /\ [][Next]_vars

(***************************************************************************)
(* Properties.                                                             *)
(***************************************************************************)

(* A handle is usable by its own owner over its own range. *)
Usable(c) == Validate(c, c.owner, {}, c.base, c.len) = "Ok"

(* Records and handles keep their fields' ranges. *)
TypeOK ==
    /\ records \in [Key -> Record \cup {Absent}]
    /\ issued \subseteq Capability
    /\ err \in Results

(* "Dynamic uniqueness": of all the copies of handles ever returned by
   mint_root and transfer, at most one per slot is usable, so no owner keeps
   authority it gave away. *)
OneUsableHandle ==
    \A c, d \in issued : KeyOf(c) = KeyOf(d) /\ Usable(c) /\ Usable(d) => c = d

(* Authority only shrinks along a slot's chain of transfers: a later
   generation's rights are among an earlier one's, over the same range. *)
NoRightsEscalation ==
    \A c, d \in issued :
        KeyOf(c) = KeyOf(d) /\ c.generation <= d.generation
        => d.rights \subseteq c.rights /\ d.base = c.base /\ d.len = c.len

(* A handle that is no longer usable (given away, or released) never becomes
   usable again, whatever calls follow: no generation is ever reused. *)
NoResurrection ==
    [][\A c \in issued : ~Usable(c) => ~Usable(c)']_vars
=============================================================================
