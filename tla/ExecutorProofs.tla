----------------------------- MODULE ExecutorProofs -----------------------------
(***************************************************************************)
(* The ledger's guarantees for every set of slots, owners and rights and   *)
(* every word size.  OneUsableHandle is not inductive: that a stale handle *)
(* fails depends on every issued handle's generation being bounded by its  *)
(* record's, and on the record at that very generation being the handle's  *)
(* own copy (GenerationBound).  The action executor's guarantees follow,   *)
(* from the handle behind each authorization; then those of the event half *)
(* and of the boundary inventory.                                          *)
(***************************************************************************)
EXTENDS MCActionExecutor, SequenceTheorems, FiniteSetTheorems,
        WellFoundedInduction, TLAPS

(* Every handle's slot has a record whose generation has not fallen behind;
   at the handle's own generation the record is live and is the handle. *)
GenerationBound ==
    \A c \in issued :
        LET r == records[KeyOf(c)] IN
        /\ r # Absent
        /\ c.generation <= r.generation
        /\ c.generation = r.generation => r.live /\ c = CapabilityOf(KeyOf(c), r)

(* The record's authority is within every handle ever issued for its slot. *)
RecordShrinks ==
    \A c \in issued :
        LET r == records[KeyOf(c)] IN
        r.rights \subseteq c.rights /\ r.base = c.base /\ r.len = c.len

(* One handle per slot and generation, whatever number of copies. *)
OneHandlePerGeneration ==
    \A c, d \in issued : KeyOf(c) = KeyOf(d) /\ c.generation = d.generation => c = d

(* Every chain of transfers starts at a root within the address space. *)
RootIssued ==
    \A c \in issued : \E root \in issued :
        /\ KeyOf(root) = KeyOf(c) /\ root.generation = 0
        /\ root.base + root.len <= MaxAddr

IInv ==
    /\ TypeOK
    /\ GenerationBound
    /\ RecordShrinks
    /\ NoRightsEscalation
    /\ OneHandlePerGeneration
    /\ RootIssued

LEMMA CapabilityType ==
    ASSUME NEW key \in Key, NEW r \in Record
    PROVE  /\ CapabilityOf(key, r) \in Capability
           /\ KeyOf(CapabilityOf(key, r)) = key
  BY DEF CapabilityOf, Capability, Record, Key, KeyOf

LEMMA KeyType ==
    ASSUME NEW c \in Capability
    PROVE  KeyOf(c) \in Key
  BY DEF Capability, Key, KeyOf

(* validate_record accepts exactly the live record at the handle's own
   generation with the handle's own fields. *)
LEMMA ValidRecord ==
    ASSUME NEW r \in Record \cup {Absent}, NEW c \in Capability,
           ValidateRecord(r, c) = "Ok"
    PROVE  /\ r \in Record
           /\ r.live /\ r.generation = c.generation /\ r.owner = c.owner
           /\ r.rights = c.rights /\ r.base = c.base /\ r.len = c.len
  BY DEF ValidateRecord

LEMMA TransferredRecord ==
    ASSUME NEW old \in Record, NEW newOwner \in Owners, NEW newRights,
           newRights \subseteq old.rights, old.generation # MaxGeneration
    PROVE  LET r == Transferred(old, newOwner, newRights) IN
           /\ r \in Record /\ r.live = old.live /\ r.generation = old.generation + 1
           /\ r.rights = newRights /\ r.base = old.base /\ r.len = old.len
<1>1. newRights \in SUBSET AllRights /\ old.generation + 1 \in 0..MaxGeneration
  BY BoundsAssumption DEF Record
<1> QED BY <1>1 DEF Record, Transferred

LEMMA ReleasedRecord ==
    ASSUME NEW old \in Record, old.generation # MaxGeneration
    PROVE  LET r == Released(old) IN
           /\ r \in Record /\ r.generation = old.generation + 1
           /\ r.rights = old.rights /\ r.base = old.base /\ r.len = old.len
<1>1. old.generation + 1 \in 0..MaxGeneration
  BY BoundsAssumption DEF Record
<1> QED BY <1>1 DEF Record, Released

LEMMA UsableIsCurrent ==
    ASSUME TypeOK, NEW c \in issued, Usable(c)
    PROVE  /\ records[KeyOf(c)] # Absent
           /\ records[KeyOf(c)].live
           /\ records[KeyOf(c)].generation = c.generation
  BY DEF Usable, Validate

LEMMA InitIInv == Init => IInv
  BY DEF Init, IInv, TypeOK, Results, GenerationBound, RecordShrinks,
         NoRightsEscalation, OneHandlePerGeneration, RootIssued

(* A refused call changes nothing but the returned error. *)
LEMMA RefuseIInv ==
    ASSUME IInv, NEW e \in Results, Refuse(e)
    PROVE  IInv'
  BY DEF IInv, Refuse, TypeOK, GenerationBound, RecordShrinks, NoRightsEscalation,
         OneHandlePerGeneration, RootIssued

(* Installing a record that is live, is ahead of every handle of its slot and
   whose authority lies within all of theirs, and issuing its handle, keeps the
   invariant: mint_root and transfer both do this. *)
LEMMA IssueIInv ==
    ASSUME IInv, NEW key \in Key, NEW r \in Record,
           r.live,
           \A c \in issued : KeyOf(c) = key =>
               /\ c.generation < r.generation
               /\ r.rights \subseteq c.rights /\ r.base = c.base /\ r.len = c.len,
           \/ r.generation = 0 /\ r.base + r.len <= MaxAddr
           \/ \E c \in issued : KeyOf(c) = key,
           records' = [records EXCEPT ![key] = r],
           issued' = issued \cup {CapabilityOf(key, r)},
           err' = "Ok"
    PROVE  IInv'
<1> DEFINE h == CapabilityOf(key, r)
<1>1. h \in Capability /\ KeyOf(h) = key
  BY CapabilityType
<1>2. /\ h.generation = r.generation /\ h.rights = r.rights
      /\ h.base = r.base /\ h.len = r.len
  BY DEF CapabilityOf
<1>3. /\ records'[key] = r
      /\ \A k \in Key : k # key => records'[k] = records[k]
      /\ \A c \in issued : c \in Capability /\ KeyOf(c) \in Key
      /\ \A c \in issued : c.generation \in Int
      /\ r.generation \in Int
      /\ r # Absent
  BY KeyType, BoundsAssumption, AbsentAssumption DEF IInv, TypeOK, Capability, Record
<1> HIDE DEF h
<1>4. TypeOK'
  BY <1>1 DEF IInv, TypeOK, Results, h
<1>5. GenerationBound'
  <2> SUFFICES ASSUME NEW c \in issued'
               PROVE  /\ records'[KeyOf(c)] # Absent
                      /\ c.generation <= records'[KeyOf(c)].generation
                      /\ c.generation = records'[KeyOf(c)].generation =>
                           /\ records'[KeyOf(c)].live
                           /\ c = CapabilityOf(KeyOf(c), records'[KeyOf(c)])
    BY DEF GenerationBound
  <2>1. CASE c = h
    BY <2>1, <1>1, <1>2, <1>3 DEF h
  <2>2. CASE c \in issued /\ KeyOf(c) = key
    BY <2>2, <1>3
  <2>3. CASE c \in issued /\ KeyOf(c) # key
    BY <2>3, <1>3 DEF IInv, GenerationBound
  <2> QED BY <2>1, <2>2, <2>3 DEF h
<1>6. RecordShrinks'
  <2> SUFFICES ASSUME NEW c \in issued'
               PROVE  /\ records'[KeyOf(c)].rights \subseteq c.rights
                      /\ records'[KeyOf(c)].base = c.base
                      /\ records'[KeyOf(c)].len = c.len
    BY DEF RecordShrinks
  <2>1. CASE c = h
    BY <2>1, <1>1, <1>2, <1>3
  <2>2. CASE c \in issued /\ KeyOf(c) = key
    BY <2>2, <1>3
  <2>3. CASE c \in issued /\ KeyOf(c) # key
    BY <2>3, <1>3 DEF IInv, RecordShrinks
  <2> QED BY <2>1, <2>2, <2>3 DEF h
<1>7. NoRightsEscalation'
  <2> SUFFICES ASSUME NEW c \in issued', NEW d \in issued',
                      KeyOf(c) = KeyOf(d), c.generation <= d.generation
               PROVE  d.rights \subseteq c.rights /\ d.base = c.base /\ d.len = c.len
    BY DEF NoRightsEscalation
  <2>1. CASE c \in issued /\ d \in issued
    BY <2>1 DEF IInv, NoRightsEscalation
  <2>2. CASE d = h
    BY <2>2, <1>1, <1>2 DEF h
  <2>3. CASE c = h /\ d \in issued
    <3>1. d.generation < r.generation /\ c.generation = r.generation
      BY <2>3, <1>1, <1>2
    <3> QED BY <3>1, <2>3, <1>3
  <2> QED BY <2>1, <2>2, <2>3 DEF h
<1>8. OneHandlePerGeneration'
  <2> SUFFICES ASSUME NEW c \in issued', NEW d \in issued',
                      KeyOf(c) = KeyOf(d), c.generation = d.generation
               PROVE  c = d
    BY DEF OneHandlePerGeneration
  <2>1. CASE c \in issued /\ d \in issued
    BY <2>1 DEF IInv, OneHandlePerGeneration
  <2>2. ASSUME NEW x \in issued, KeyOf(x) = key PROVE x.generation # r.generation
    BY <2>2, <1>3
  <2> QED BY <2>1, <2>2, <1>1, <1>2 DEF h
<1>9. RootIssued'
  <2> SUFFICES ASSUME NEW c \in issued'
               PROVE  \E root \in issued' :
                         /\ KeyOf(root) = KeyOf(c) /\ root.generation = 0
                         /\ root.base + root.len <= MaxAddr
    BY DEF RootIssued
  <2>1. CASE c \in issued
    BY <2>1 DEF IInv, RootIssued
  <2>2. CASE c = h
    <3>1. CASE r.generation = 0 /\ r.base + r.len <= MaxAddr
      BY <2>2, <3>1, <1>2
    <3>2. CASE \E d \in issued : KeyOf(d) = key
      BY <2>2, <3>2, <1>1 DEF IInv, RootIssued
    <3> QED BY <3>1, <3>2
  <2> QED BY <2>1, <2>2 DEF h
<1> QED BY <1>4, <1>5, <1>6, <1>7, <1>8, <1>9 DEF IInv

LEMMA MintIInv ==
    ASSUME IInv, NEW key \in Key, NEW owner \in Owners, NEW rights \in SUBSET Bits,
           NEW base \in Addr, NEW len \in Addr, MintRoot(key, owner, rights, base, len)
    PROVE  IInv'
<1> DEFINE e == MintError(key, rights, base, len)
           r == [owner |-> owner, rights |-> rights, generation |-> 0,
                 base |-> base, len |-> len, live |-> TRUE]
<1>1. CASE e = "Ok"
  <2>1. /\ records[key] = Absent /\ rights \subseteq AllRights
        /\ ~(base + len > MaxAddr) /\ base + len \in Nat
    BY <1>1 DEF MintError, Addr
  <2>2. r \in Record
    BY <2>1, BoundsAssumption DEF Record
  <2>3. \A c \in issued : KeyOf(c) # key
    BY <2>1 DEF IInv, GenerationBound
  <2>4. /\ records' = [records EXCEPT ![key] = r]
        /\ issued' = issued \cup {CapabilityOf(key, r)}
        /\ err' = "Ok"
    BY <1>1 DEF MintRoot, Refuse
  <2> HIDE DEF r
  <2>5. r.live /\ r.generation = 0 /\ r.base + r.len <= MaxAddr
    BY <2>1, BoundsAssumption DEF r
  <2> QED BY <2>2, <2>3, <2>4, <2>5, IssueIInv
<1>2. CASE e # "Ok"
  <2>1. e \in Results
    BY DEF MintError, Results
  <2> QED BY <1>2, <2>1, RefuseIInv DEF MintRoot
<1> QED BY <1>1, <1>2

LEMMA TransferIInv ==
    ASSUME IInv, NEW c \in issued, NEW newOwner \in Owners,
           NEW newRights \in SUBSET Bits, Transfer(c, newOwner, newRights)
    PROVE  IInv'
<1> DEFINE e == TransferError(c, newRights)
           old == records[KeyOf(c)]
           r == Transferred(old, newOwner, newRights)
<1>1. c \in Capability /\ KeyOf(c) \in Key /\ old \in Record \cup {Absent}
  BY KeyType DEF IInv, TypeOK
<1>2. CASE e = "Ok"
  <2>1. /\ ValidateRecord(old, c) = "Ok" /\ newRights \subseteq old.rights
        /\ old.generation # MaxGeneration
    BY <1>2 DEF TransferError
  <2>2. old \in Record /\ old.live
    BY <1>1, <2>1, ValidRecord
  <2>3. /\ r \in Record /\ r.live /\ r.generation = old.generation + 1
        /\ r.rights = newRights /\ r.base = old.base /\ r.len = old.len
    BY <2>1, <2>2, TransferredRecord
  <2>4. \A d \in issued : KeyOf(d) = KeyOf(c) =>
            /\ d.generation < r.generation
            /\ r.rights \subseteq d.rights /\ r.base = d.base /\ r.len = d.len
    <3> SUFFICES ASSUME NEW d \in issued, KeyOf(d) = KeyOf(c)
                 PROVE  /\ d.generation < r.generation
                        /\ r.rights \subseteq d.rights
                        /\ r.base = d.base /\ r.len = d.len
      OBVIOUS
    <3>1. /\ d.generation <= old.generation /\ old.rights \subseteq d.rights
          /\ old.base = d.base /\ old.len = d.len
      BY DEF IInv, GenerationBound, RecordShrinks
    <3>2. d.generation \in Int /\ old.generation \in Int
      BY <2>2, BoundsAssumption DEF IInv, TypeOK, Capability, Record
    <3> QED BY <3>1, <3>2, <2>1, <2>3
  <2>5. /\ records' = [records EXCEPT ![KeyOf(c)] = r]
        /\ issued' = issued \cup {CapabilityOf(KeyOf(c), r)}
        /\ err' = "Ok"
    BY <1>2 DEF Transfer
  <2> HIDE DEF r
  <2> QED BY <1>1, <2>3, <2>4, <2>5, IssueIInv
<1>3. CASE e # "Ok"
  <2>1. e \in Results
    BY DEF TransferError, ValidateRecord, Results
  <2> QED BY <1>3, <2>1, RefuseIInv DEF Transfer
<1> QED BY <1>2, <1>3

LEMMA ReleaseIInv ==
    ASSUME IInv, NEW c \in issued, Release(c)
    PROVE  IInv'
<1> DEFINE e == ReleaseError(c)
           old == records[KeyOf(c)]
           r == Released(old)
<1>1. c \in Capability /\ KeyOf(c) \in Key /\ old \in Record \cup {Absent}
  BY KeyType DEF IInv, TypeOK
<1>2. CASE e = "Ok"
  <2>1. ValidateRecord(old, c) = "Ok" /\ old.generation # MaxGeneration
    BY <1>2 DEF ReleaseError
  <2>2. old \in Record
    BY <1>1, <2>1, ValidRecord
  <2>3. /\ r \in Record /\ r.generation = old.generation + 1
        /\ r.rights = old.rights /\ r.base = old.base /\ r.len = old.len
    BY <2>1, <2>2, ReleasedRecord
  <2>4. /\ records' = [records EXCEPT ![KeyOf(c)] = r]
        /\ issued' = issued /\ err' = "Ok"
    BY <1>2 DEF Release
  <2>5. /\ records'[KeyOf(c)] = r /\ r # Absent
        /\ \A k \in Key : k # KeyOf(c) => records'[k] = records[k]
        /\ \A d \in issued : KeyOf(d) \in Key /\ d.generation \in Int
        /\ old.generation \in Int
    BY <1>1, <2>2, <2>3, <2>4, KeyType, BoundsAssumption, AbsentAssumption
       DEF IInv, TypeOK, Capability, Record
  <2> HIDE DEF r
  <2>6. TypeOK'
    BY <1>1, <2>3, <2>4 DEF IInv, TypeOK, Results
  <2>7. GenerationBound'
    BY <2>3, <2>4, <2>5 DEF IInv, GenerationBound
  <2>8. RecordShrinks'
    BY <2>3, <2>4, <2>5 DEF IInv, RecordShrinks
  <2>9. NoRightsEscalation'
    BY <2>4 DEF IInv, NoRightsEscalation
  <2>10. OneHandlePerGeneration' /\ RootIssued'
    BY <2>4 DEF IInv, OneHandlePerGeneration, RootIssued
  <2> QED BY <2>6, <2>7, <2>8, <2>9, <2>10 DEF IInv
<1>3. CASE e # "Ok"
  <2>1. e \in Results
    BY DEF ReleaseError, ValidateRecord, Results
  <2> QED BY <1>3, <2>1, RefuseIInv DEF Release
<1> QED BY <1>2, <1>3

LEMMA NextIInv == IInv /\ [Next]_vars => IInv'
<1> SUFFICES ASSUME IInv, [Next]_vars PROVE IInv'
  OBVIOUS
<1>1. CASE UNCHANGED vars
  BY <1>1 DEF IInv, vars, TypeOK, GenerationBound, RecordShrinks, NoRightsEscalation,
              OneHandlePerGeneration, RootIssued
<1>2. ASSUME NEW key \in Key, NEW owner \in Owners, NEW rights \in SUBSET Bits,
             NEW range \in Ranges, MintRoot(key, owner, rights, range[1], range[2])
      PROVE  IInv'
  <2>1. range[1] \in Addr /\ range[2] \in Addr
    BY RangesAssumption DEF Addr
  <2> QED BY <1>2, <2>1, MintIInv
<1>3. ASSUME NEW c \in issued, NEW newOwner \in Owners, NEW newRights \in SUBSET Bits,
             Transfer(c, newOwner, newRights)
      PROVE  IInv'
  BY <1>3, TransferIInv
<1>4. ASSUME NEW c \in issued, Release(c)
      PROVE  IInv'
  BY <1>4, ReleaseIInv
<1> QED BY <1>1, <1>2, <1>3, <1>4 DEF Next

(* Every reachable ledger satisfies the inductive invariant. *)
THEOREM LedgerInvariant == Spec => []IInv
  BY InitIInv, NextIInv, PTL DEF Spec

(* capability.rs keeps its records and handles well typed. *)
THEOREM LedgerTypes == Spec => []TypeOK
<1>1. IInv => TypeOK
  BY DEF IInv
<1> QED BY <1>1, LedgerInvariant, PTL

(* Of all handles mint_root and transfer ever returned for a slot, at most one
   is usable, for any number of slots, owners and copies. *)
THEOREM LedgerUniqueness == Spec => []OneUsableHandle
<1>1. IInv => OneUsableHandle
  <2> SUFFICES ASSUME IInv, NEW c \in issued, NEW d \in issued,
                      KeyOf(c) = KeyOf(d), Usable(c), Usable(d)
               PROVE  c = d
    BY DEF OneUsableHandle
  <2> QED BY UsableIsCurrent DEF IInv, GenerationBound
<1> QED BY <1>1, LedgerInvariant, PTL

(* Along a slot's transfers rights only shrink and the range never moves. *)
THEOREM LedgerNoEscalation == Spec => []NoRightsEscalation
<1>1. IInv => NoRightsEscalation
  BY DEF IInv
<1> QED BY <1>1, LedgerInvariant, PTL

(* A step leaves a handle's record alone or moves it past the handle. *)
LEMMA RecordAdvances ==
    ASSUME IInv, [Next]_vars, NEW c \in issued
    PROVE  \/ records'[KeyOf(c)] = records[KeyOf(c)]
           \/ /\ records'[KeyOf(c)] \in Record
              /\ c.generation < records'[KeyOf(c)].generation
<1>1. /\ c \in Capability /\ KeyOf(c) \in Key /\ records[KeyOf(c)] # Absent
      /\ c.generation <= records[KeyOf(c)].generation
  BY KeyType DEF IInv, TypeOK, GenerationBound
<1>2. ASSUME NEW key \in Key, NEW owner \in Owners, NEW rights \in SUBSET Bits,
             NEW range \in Ranges, MintRoot(key, owner, rights, range[1], range[2])
      PROVE  records'[KeyOf(c)] = records[KeyOf(c)]
  <2>1. CASE MintError(key, rights, range[1], range[2]) = "Ok"
    <3>1. records[key] = Absent
      BY <2>1 DEF MintError
    <3> QED BY <1>1, <1>2, <3>1 DEF MintRoot, Refuse, IInv, TypeOK
  <2>2. CASE MintError(key, rights, range[1], range[2]) # "Ok"
    BY <1>2, <2>2 DEF MintRoot, Refuse
  <2> QED BY <2>1, <2>2
<1>3. ASSUME NEW d \in issued, NEW new \in Record,
             records' = [records EXCEPT ![KeyOf(d)] = new],
             records[KeyOf(d)] \in Record,
             new.generation = records[KeyOf(d)].generation + 1
      PROVE  \/ records'[KeyOf(c)] = records[KeyOf(c)]
             \/ /\ records'[KeyOf(c)] \in Record
                /\ c.generation < records'[KeyOf(c)].generation
  <2>1. CASE KeyOf(c) = KeyOf(d)
    <3>1. records'[KeyOf(c)] = new
      BY <1>1, <1>3, <2>1 DEF IInv, TypeOK
    <3>2. c.generation \in Int /\ records[KeyOf(d)].generation \in Int
      BY <1>1, <1>3, BoundsAssumption DEF Capability, Record
    <3> QED BY <1>1, <1>3, <2>1, <3>1, <3>2
  <2>2. CASE KeyOf(c) # KeyOf(d)
    BY <1>1, <1>3, <2>2 DEF IInv, TypeOK
  <2> QED BY <2>1, <2>2
<1>4. ASSUME NEW d \in issued, NEW newOwner \in Owners, NEW newRights \in SUBSET Bits,
             Transfer(d, newOwner, newRights)
      PROVE  \/ records'[KeyOf(c)] = records[KeyOf(c)]
             \/ /\ records'[KeyOf(c)] \in Record
                /\ c.generation < records'[KeyOf(c)].generation
  <2> DEFINE old == records[KeyOf(d)]
  <2>1. d \in Capability /\ old \in Record \cup {Absent}
    BY KeyType DEF IInv, TypeOK
  <2>2. CASE TransferError(d, newRights) = "Ok"
    <3>1. /\ ValidateRecord(old, d) = "Ok" /\ newRights \subseteq old.rights
          /\ old.generation # MaxGeneration
      BY <2>2 DEF TransferError
    <3>2. old \in Record
      BY <2>1, <3>1, ValidRecord
    <3>3. /\ Transferred(old, newOwner, newRights) \in Record
          /\ Transferred(old, newOwner, newRights).generation = old.generation + 1
      BY <3>1, <3>2, TransferredRecord
    <3>4. records' = [records EXCEPT ![KeyOf(d)] = Transferred(old, newOwner, newRights)]
      BY <1>4, <2>2 DEF Transfer
    <3> QED BY <1>3, <3>2, <3>3, <3>4
  <2>3. CASE TransferError(d, newRights) # "Ok"
    BY <1>4, <2>3 DEF Transfer, Refuse
  <2> QED BY <2>2, <2>3
<1>5. ASSUME NEW d \in issued, Release(d)
      PROVE  \/ records'[KeyOf(c)] = records[KeyOf(c)]
             \/ /\ records'[KeyOf(c)] \in Record
                /\ c.generation < records'[KeyOf(c)].generation
  <2> DEFINE old == records[KeyOf(d)]
  <2>1. d \in Capability /\ old \in Record \cup {Absent}
    BY KeyType DEF IInv, TypeOK
  <2>2. CASE ReleaseError(d) = "Ok"
    <3>1. ValidateRecord(old, d) = "Ok" /\ old.generation # MaxGeneration
      BY <2>2 DEF ReleaseError
    <3>2. old \in Record
      BY <2>1, <3>1, ValidRecord
    <3>3. Released(old) \in Record /\ Released(old).generation = old.generation + 1
      BY <3>1, <3>2, ReleasedRecord
    <3>4. records' = [records EXCEPT ![KeyOf(d)] = Released(old)]
      BY <1>5, <2>2 DEF Release
    <3> QED BY <1>3, <3>2, <3>3, <3>4
  <2>3. CASE ReleaseError(d) # "Ok"
    BY <1>5, <2>3 DEF Release, Refuse
  <2> QED BY <2>2, <2>3
<1> QED BY <1>2, <1>4, <1>5 DEF Next, vars

(* A handle that stopped being usable stays unusable for ever: a generation of
   a slot is never reused, not even at the end of its range. *)
THEOREM LedgerNoResurrection == Spec => NoResurrection
<1>1. IInv /\ [Next]_vars => [\A c \in issued : ~Usable(c) => ~Usable(c)']_vars
  <2> SUFFICES ASSUME IInv, [Next]_vars, NEW c \in issued, ~Usable(c)
               PROVE  ~Usable(c)'
    OBVIOUS
  <2>1. CASE records'[KeyOf(c)] = records[KeyOf(c)]
    BY <2>1 DEF Usable, Validate
  <2>2. CASE /\ records'[KeyOf(c)] \in Record
             /\ c.generation < records'[KeyOf(c)].generation
    <3>1. c.generation \in Int /\ records'[KeyOf(c)].generation \in Int
      BY <2>2, BoundsAssumption DEF IInv, TypeOK, Capability, Record
    <3>2. records'[KeyOf(c)].generation # c.generation
      BY <2>2, <3>1
    <3> QED BY <3>2 DEF Usable, Validate
  <2> QED BY <2>1, <2>2, RecordAdvances
<1> QED BY <1>1, LedgerInvariant, PTL DEF Spec, NoResurrection

-----------------------------------------------------------------------------
(***************************************************************************)
(* The action executor.                                                    *)
(***************************************************************************)

Entry == [action: Actions, slot: Slots, generation: 0..MaxGeneration, by: Owners]

(* The handle that stands behind an authorization. *)
Behind(c, entry) ==
    LET need == ActionAuthority(entry.action) IN
    /\ KeyOf(c) = SlotOf(entry)
    /\ c.generation = entry.generation /\ c.owner = entry.by
    /\ need.rights \subseteq c.rights
    /\ ContainsRange(c, need.base, need.len)

(* Every authorization was given on an issued handle. *)
LogBacked ==
    /\ log \in Seq(Entry)
    /\ \A i \in 1..Len(log) : \E c \in issued : Behind(c, log[i])

ExecutorInv == IInv /\ LogBacked /\ GenerationNamesOwner

(* authorize accepts the live handle of the slot at its present generation. *)
LEMMA AuthorizedHandle ==
    ASSUME IInv, NEW owner \in Owners, NEW c \in issued, NEW a \in Actions,
           AuthorizeError(owner, c, a) = "Ok"
    PROVE  LET entry == [action |-> a, slot |-> c.slot,
                         generation |-> c.generation, by |-> owner]
           IN /\ entry \in Entry
              /\ Behind(c, entry)
              /\ records[KeyOf(c)].generation = c.generation
<1> DEFINE need == ActionAuthority(a)
<1>1. c.kind = need.kind /\ Validate(c, owner, need.rights, need.base, need.len) = "Ok"
  <2> HIDE DEF need
  <2>1. AuthorizeError(owner, c, a) =
           IF ValidateAction(a) # "Ok" THEN ValidateAction(a)
           ELSE IF AuthorityOverflows(a) THEN "RangeOverflow"
           ELSE IF c.kind # need.kind THEN "WrongKind"
           ELSE Validate(c, owner, need.rights, need.base, need.len)
    BY DEF AuthorizeError, need
  <2> QED BY <2>1
<1> HIDE DEF need
<1>2. /\ records[KeyOf(c)].generation = c.generation
      /\ records[KeyOf(c)].rights = c.rights /\ need.rights \subseteq c.rights
      /\ c.owner = owner /\ ContainsRange(c, need.base, need.len)
  BY <1>1 DEF Validate
<1>3. c \in Capability
  BY DEF IInv, TypeOK
<1>4. KeyOf(c) = <<need.kind, c.slot>>
  BY <1>1 DEF KeyOf
<1>5. [action |-> a, slot |-> c.slot, generation |-> c.generation, by |-> owner] \in Entry
  BY <1>3 DEF Capability, Entry
<1> QED
  BY <1>2, <1>4, <1>5 DEF Behind, SlotOf, need

(* What one more authorization leaves and adds. *)
LEMMA LogAppend ==
    ASSUME log \in Seq(Entry), NEW entry \in Entry, log' = Append(log, entry)
    PROVE  /\ log' \in Seq(Entry) /\ Len(log) \in Nat /\ Len(log') = Len(log) + 1
           /\ \A i \in 1..Len(log) : log'[i] = log[i]
           /\ log'[Len(log) + 1] = entry
           /\ DOMAIN log = 1..Len(log) /\ DOMAIN log' = 1..Len(log')
BY AppendProperties, LenProperties

LEMMA ExecutorNextInv == ExecutorInv /\ [NextExecutor]_allVars => ExecutorInv'
<1> SUFFICES ASSUME ExecutorInv, [NextExecutor]_allVars PROVE ExecutorInv'
  OBVIOUS
<1>1. CASE [Next]_vars /\ UNCHANGED log
  <2>1. IInv'
    BY <1>1, NextIInv DEF ExecutorInv
  <2>2. issued \subseteq issued'
    BY <1>1 DEF Next, MintRoot, Transfer, Release, Refuse, vars
  <2>4. LogBacked'
    BY <1>1, <2>2 DEF ExecutorInv, LogBacked, Behind, ContainsRange, KeyOf, SlotOf
  <2>5. GenerationNamesOwner'
    BY <1>1 DEF ExecutorInv, GenerationNamesOwner
  <2> QED BY <2>1, <2>4, <2>5 DEF ExecutorInv
<1>2. ASSUME NEW owner \in Owners, NEW c \in issued, NEW a \in Actions,
             Authorize(owner, c, a)
      PROVE  ExecutorInv'
  <2> DEFINE entry == [action |-> a, slot |-> c.slot,
                       generation |-> c.generation, by |-> owner]
             n == Len(log)
  <2>1. /\ entry \in Entry /\ Behind(c, entry)
        /\ records[KeyOf(c)].generation = c.generation
    BY <1>2, AuthorizedHandle DEF Authorize, ExecutorInv
  <2>2. log' = Append(log, entry) /\ UNCHANGED vars
    BY <1>2 DEF Authorize
  <2> HIDE DEF entry
  <2>3. /\ log' \in Seq(Entry) /\ n \in Nat /\ Len(log') = n + 1
        /\ \A i \in 1..n : log'[i] = log[i]
        /\ log'[n + 1] = entry
        /\ DOMAIN log = 1..n /\ DOMAIN log' = 1..(n + 1)
    BY <2>1, <2>2, LogAppend DEF ExecutorInv, LogBacked
  <2>4. IInv'
    BY <2>2, NextIInv DEF ExecutorInv
  <2>5. ASSUME NEW i \in 1..(n + 1)
        PROVE  \E d \in issued' : Behind(d, log'[i])
    <3>1. CASE i = n + 1
      BY <2>1, <2>2, <2>3, <3>1 DEF vars
    <3>2. CASE i \in 1..n
      BY <2>2, <2>3, <3>2 DEF vars, ExecutorInv, LogBacked
    <3> QED BY <2>3, <3>1, <3>2
  <2>6. LogBacked'
    BY <2>3, <2>5 DEF LogBacked, Behind, ContainsRange, KeyOf, SlotOf
  <2>7. ASSUME NEW i \in 1..n, SlotOf(log[i]) = SlotOf(entry)
        PROVE  /\ log[i].generation <= entry.generation
               /\ log[i].generation = entry.generation => log[i].by = entry.by
    <3>1. PICK d \in issued : Behind(d, log[i])
      BY DEF ExecutorInv, LogBacked
    <3>2. /\ KeyOf(d) = KeyOf(c) /\ d.generation = log[i].generation /\ d.owner = log[i].by
          /\ c.generation = entry.generation /\ c.owner = entry.by
      BY <2>1, <2>7, <3>1 DEF Behind
    <3>3. d.generation <= c.generation
      BY <2>1, <3>2 DEF ExecutorInv, IInv, GenerationBound
    <3>4. d.generation = c.generation => d = c
      BY <3>2 DEF ExecutorInv, IInv, OneHandlePerGeneration
    <3> QED BY <3>2, <3>3, <3>4
  <2>8. GenerationNamesOwner'
    <3> SUFFICES ASSUME NEW i \in 1..(n + 1), NEW j \in 1..(n + 1), i < j,
                        SlotOf(log'[i]) = SlotOf(log'[j])
                 PROVE  /\ log'[i].generation <= log'[j].generation
                        /\ log'[i].generation = log'[j].generation
                              => log'[i].by = log'[j].by
      BY <2>3 DEF GenerationNamesOwner, SlotOf
    <3>1. i \in 1..n /\ log'[i] = log[i]
      BY <2>3
    <3>2. CASE j = n + 1
      BY <2>3, <2>7, <3>1, <3>2
    <3>3. CASE j \in 1..n
      BY <2>3, <3>1, <3>3 DEF ExecutorInv, GenerationNamesOwner
    <3> QED BY <2>3, <3>2, <3>3
  <2> QED BY <2>4, <2>6, <2>8 DEF ExecutorInv
<1> QED
  BY <1>1, <1>2 DEF NextExecutor, allVars

(* The handle behind an authorization is no wider than the root of its chain. *)
LEMMA BackedIsCovered == ExecutorInv => CoveredByRoot
<1> SUFFICES ASSUME ExecutorInv, NEW i \in 1..Len(log)
             PROVE  LET need == ActionAuthority(log[i].action) IN
                    \E root \in issued :
                       /\ root.generation = 0 /\ KeyOf(root) = <<need.kind, log[i].slot>>
                       /\ need.rights \subseteq root.rights
                       /\ need.base >= root.base
                       /\ need.base + need.len <= root.base + root.len
                       /\ root.base + root.len <= MaxAddr
  BY LenProperties DEF CoveredByRoot, ExecutorInv, LogBacked
<1> DEFINE need == ActionAuthority(log[i].action)
<1>1. PICK c \in issued : Behind(c, log[i])
  BY DEF ExecutorInv, LogBacked
<1>2. PICK root \in issued :
         /\ KeyOf(root) = KeyOf(c) /\ root.generation = 0
         /\ root.base + root.len <= MaxAddr
  BY DEF ExecutorInv, IInv, RootIssued
<1>3. c.generation \in 0..MaxGeneration
  BY DEF ExecutorInv, IInv, TypeOK, Capability
<1>4. c.rights \subseteq root.rights /\ c.base = root.base /\ c.len = root.len
  BY <1>2, <1>3, BoundsAssumption DEF ExecutorInv, IInv, NoRightsEscalation
<1> HIDE DEF need
<1>5. /\ KeyOf(c) = <<need.kind, log[i].slot>> /\ need.rights \subseteq c.rights
      /\ need.base >= c.base /\ need.base + need.len <= c.base + c.len
  BY <1>1 DEF Behind, SlotOf, ContainsRange, need
<1> QED
  BY <1>2, <1>4, <1>5 DEF need

(* ActionExecutor::authorize, while other clients transfer and release: for any
   ledger and any actions, what was ever authorized lies within the root of its
   slot, and slot and generation name the one owner it was granted to. *)
THEOREM ExecutorAuthorizations == SpecExecutor => []AuthorizationsSound
<1>1. InitExecutor => ExecutorInv
  <2> SUFFICES ASSUME InitExecutor PROVE ExecutorInv
    OBVIOUS
  <2>1. IInv
    BY InitIInv DEF InitExecutor
  <2>2. log = <<>> /\ log \in Seq(Entry) /\ Len(log) = 0 /\ DOMAIN log = {}
    BY EmptySeq DEF InitExecutor
  <2> QED BY <2>1, <2>2 DEF ExecutorInv, LogBacked, GenerationNamesOwner
<1>2. ExecutorInv => AuthorizationsSound
  BY BackedIsCovered DEF ExecutorInv, AuthorizationsSound
<1> QED
  BY <1>1, <1>2, ExecutorNextInv, PTL DEF SpecExecutor

(***************************************************************************)
(* The event half.  A shard's counters stay within the events that the     *)
(* policy has been past: stepping an event moves lastGlobal to it, so that *)
(* it joins the events past, which it was not among.                       *)
(***************************************************************************)
mcVars == <<allVars, eventVars, inventoryVars, focus>>

(* The sequencer and the policy are changed by the event half only. *)
LEMMA EventStep == [MCNext]_mcVars => [EventNext]_eventVars
BY DEF MCNext, mcVars

(* The inventory is changed by its own steps only. *)
LEMMA InventoryStep == [MCNext]_mcVars => [InventoryNext]_inventoryVars
BY DEF MCNext, mcVars

TickKinds == {"Timer"}
TaskKinds == {"CpuOnline", "DmaComplete"}

(* The events of a CPU up to an id, among those ever returned. *)
Past(es, last, c, tags) == {e \in es : e.cpu = c /\ e.kind.tag \in tags /\ e.id <= last}

Events(es) == IsFiniteSet(es) /\ \A e \in es : e.cpu \in Cpus /\ e.id \in 1..MaxId

EventTypes ==
    /\ Events(events) /\ nextEvent \in 1..MaxId /\ lastGlobal \in 0..MaxId
    /\ shards \in [Cpus -> Shard \cup {None}]

CountersBacked ==
    \A c \in Cpus : shards[c] # None =>
        /\ shards[c].ticks <= Cardinality(Past(events, lastGlobal, c, TickKinds))
        /\ shards[c].runnable <= Cardinality(Past(events, lastGlobal, c, TaskKinds))

EventInv == EventTypes /\ CountersBacked

(* The events past are finitely many. *)
LEMMA PastFinite ==
    ASSUME NEW es, Events(es), NEW last, NEW c, NEW tags
    PROVE  IsFiniteSet(Past(es, last, c, tags)) /\ Cardinality(Past(es, last, c, tags)) \in Nat
<1>1. IsFiniteSet(Past(es, last, c, tags))
  BY FS_Subset DEF Past, Events
<1> QED BY <1>1, FS_CardinalityType

(* They never become fewer: events are not forgotten, lastGlobal only grows. *)
LEMMA PastGrows ==
    ASSUME NEW es, NEW fs, Events(es), Events(fs), es \subseteq fs,
           NEW m \in Nat, NEW n \in Nat, m <= n, NEW c, NEW tags
    PROVE  Cardinality(Past(es, m, c, tags)) <= Cardinality(Past(fs, n, c, tags))
<1>1. Past(es, m, c, tags) \subseteq Past(fs, n, c, tags)
  BY EventAssumption DEF Past, Events
<1> QED BY <1>1, PastFinite, FS_Subset

(* An event beyond m adds one to the events past when the policy moves to it. *)
LEMMA PastAdds ==
    ASSUME NEW es, Events(es), NEW e \in es, NEW m \in Nat, m < e.id, NEW tags, e.kind.tag \in tags
    PROVE  Cardinality(Past(es, m, e.cpu, tags)) + 1 <= Cardinality(Past(es, e.id, e.cpu, tags))
<1> DEFINE before == Past(es, m, e.cpu, tags)
           after  == Past(es, e.id, e.cpu, tags)
<1>1. e.id \in Nat /\ e \notin before
  BY EventAssumption DEF Past, Events
<1>2. before \cup {e} \subseteq after
  BY EventAssumption DEF Past, Events
<1>3. IsFiniteSet(before) /\ IsFiniteSet(after)
  BY PastFinite
<1> HIDE DEF before, after
<1>4. IsFiniteSet(before \cup {e}) /\ Cardinality(before \cup {e}) = Cardinality(before) + 1
  BY <1>1, <1>3, FS_AddElement
<1>5. Cardinality(before \cup {e}) <= Cardinality(after)
  BY <1>2, <1>3, FS_Subset
<1> QED BY <1>4, <1>5 DEF before, after

(* A sequencer without events and a policy without CPUs. *)
LEMMA EventInitial == EventInit => EventInv
<1> SUFFICES ASSUME EventInit PROVE EventInv
  OBVIOUS
<1>1. IsFiniteSet(events)
  BY FS_EmptySet DEF EventInit
<1> QED BY <1>1, EventAssumption DEF EventInit, EventInv, EventTypes, CountersBacked, Events

(* EventSequencer::ingress: the events past are past for good. *)
LEMMA IngressKeeps ==
    ASSUME EventInv, NEW cpu \in Cpus, NEW k, NEW correlation, Ingress(cpu, k, correlation)
    PROVE  EventInv'
<1> DEFINE new == [cpu |-> cpu, id |-> nextEvent, kind |-> k, correlation |-> correlation]
<1>1. /\ events' = events \/ events' = events \cup {new}
      /\ nextEvent' = nextEvent \/ (nextEvent # MaxId /\ nextEvent' = nextEvent + 1)
      /\ shards' = shards /\ lastGlobal' = lastGlobal
  BY DEF Ingress, NextEvent, policy
<1>2. IsFiniteSet(events')
  <2>1. IsFiniteSet(events)
    BY DEF EventInv, EventTypes, Events
  <2> HIDE DEF new
  <2>2. IsFiniteSet(events \cup {new})
    BY <2>1, FS_AddElement
  <2> QED BY <1>1, <2>1, <2>2
<1>3. EventTypes' /\ events \subseteq events' /\ lastGlobal \in Nat
  BY <1>1, <1>2, EventAssumption DEF EventInv, EventTypes, Events
<1>4. \A c \in Cpus, tags \in {TickKinds, TaskKinds} :
         /\ Cardinality(Past(events, lastGlobal, c, tags)) <= Cardinality(Past(events', lastGlobal', c, tags))
         /\ Cardinality(Past(events, lastGlobal, c, tags)) \in Nat
         /\ Cardinality(Past(events', lastGlobal', c, tags)) \in Nat
  BY <1>1, <1>3, PastGrows, PastFinite DEF EventInv, EventTypes
<1>6. CountersBacked'
  BY <1>1, <1>3, <1>4 DEF CountersBacked, EventInv, EventTypes, Shard
<1> QED BY <1>3, <1>6 DEF EventInv

(* KernelPolicy::add_cpu: a shard starts from zero, a known one too. *)
LEMMA AddCpuKeeps ==
    ASSUME EventInv, NEW cpu \in Cpus, AddCpu(cpu)
    PROVE  EventInv'
<1>1. events' = events /\ lastGlobal' = lastGlobal /\ nextEvent' = nextEvent
  BY DEF AddCpu, sequencer
<1>2. NewShard \in Shard /\ NewShard.ticks = 0 /\ NewShard.runnable = 0
  BY EventAssumption DEF NewShard, Shard
<1>3. EventTypes'
  BY <1>1, <1>2 DEF AddCpu, EventInv, EventTypes
<1>4. \A c \in Cpus, tags \in {TickKinds, TaskKinds} :
         Cardinality(Past(events, lastGlobal, c, tags)) \in Nat
  BY PastFinite DEF EventInv, EventTypes
<1>5. \A c \in Cpus : shards'[c] = IF c = cpu THEN NewShard ELSE shards[c]
  BY DEF AddCpu, EventInv, EventTypes
<1>6. CountersBacked'
  BY <1>1, <1>2, <1>4, <1>5 DEF CountersBacked, EventInv
<1> QED BY <1>3, <1>6 DEF EventInv

(* KernelPolicy::step: an event that counts is one the policy was not past. *)
LEMMA StepKeeps ==
    ASSUME EventInv, NEW event \in events, Step(event)
    PROVE  EventInv'
<1>1. events' = events /\ nextEvent' = nextEvent
  BY DEF Step, sequencer
<1>2. CASE StepError(event) # "Ok"
  BY <1>1, <1>2 DEF Step, EventInv, EventTypes, CountersBacked
<1>3. CASE StepError(event) = "Ok"
  <2> DEFINE cpu  == event.cpu
             old  == shards[cpu]
             seen == [old EXCEPT !.last = event.id]
             new  == IF CounterError(event) = "Ok" THEN Counted(seen, event) ELSE seen
             Backed(last, c, shard) ==
                /\ shard.ticks <= Cardinality(Past(events, last, c, TickKinds))
                /\ shard.runnable <= Cardinality(Past(events, last, c, TaskKinds))
  <2>1. cpu \in Cpus /\ event.id \in 1..MaxId /\ event.id \in Nat /\ lastGlobal \in Nat
    BY EventAssumption DEF EventInv, EventTypes, Events
  <2>2. ~(event.id <= lastGlobal) /\ old # None
    BY <1>3 DEF StepError
  <2>3. old \in Shard
    BY <2>1, <2>2 DEF EventInv, EventTypes
  <2>4. lastGlobal' = event.id /\ shards' = [shards EXCEPT ![cpu] = new]
    BY <1>3 DEF Step
  <2>5. seen \in Shard /\ seen.ticks = old.ticks /\ seen.runnable = old.runnable
    BY <2>1, <2>3 DEF Shard
  <2>6. /\ new \in Shard
        /\ new.ticks = old.ticks
           \/ (new.ticks = old.ticks + 1 /\ event.kind.tag \in TickKinds)
        /\ new.runnable = old.runnable
           \/ (new.runnable = old.runnable + 1 /\ event.kind.tag \in TaskKinds)
    <3> HIDE DEF seen
    <3> USE <2>3, <2>5
    <3>1. CASE CounterError(event) = "Ok" /\ event.kind.tag = "Timer"
      BY <3>1, EventAssumption DEF CounterError, Counted, Shard, TickKinds, TaskKinds
    <3>2. CASE CounterError(event) = "Ok" /\ event.kind.tag \in TaskKinds
      BY <3>2, EventAssumption DEF CounterError, Counted, Shard, TickKinds, TaskKinds
    <3>3. CASE CounterError(event) = "Ok" /\ event.kind.tag = "ShutdownRequest"
      BY <3>3, EventAssumption DEF CounterError, Counted, Shard, TickKinds, TaskKinds
    <3>4. CASE CounterError(event) # "Ok"
      BY <3>4
    <3>5. CASE /\ CounterError(event) = "Ok"
               /\ event.kind.tag \notin TaskKinds \cup {"Timer", "ShutdownRequest"}
      BY <3>5 DEF Counted, TaskKinds
    <3> QED BY <3>1, <3>2, <3>3, <3>4, <3>5
  <2> HIDE DEF new, seen
  <2>7. \A c \in Cpus, tags \in {TickKinds, TaskKinds} :
           /\ Cardinality(Past(events, lastGlobal, c, tags)) <= Cardinality(Past(events, event.id, c, tags))
           /\ Cardinality(Past(events, lastGlobal, c, tags)) \in Nat
           /\ Cardinality(Past(events, event.id, c, tags)) \in Nat
    BY <2>1, <2>2, PastGrows, PastFinite DEF EventInv, EventTypes
  <2>8. \A tags \in {TickKinds, TaskKinds} : event.kind.tag \in tags =>
           Cardinality(Past(events, lastGlobal, cpu, tags)) + 1 <= Cardinality(Past(events, event.id, cpu, tags))
    BY <2>1, <2>2, PastAdds DEF EventInv, EventTypes
  <2>9. Backed(event.id, cpu, new)
    <3>1. Backed(lastGlobal, cpu, old)
      BY <2>1, <2>2 DEF EventInv, CountersBacked
    <3>2. old.ticks \in Nat /\ old.runnable \in Nat
      BY <2>3, EventAssumption DEF Shard
    <3> QED BY <2>1, <2>6, <2>7, <2>8, <3>1, <3>2
  <2>10. \A c \in Cpus : c # cpu /\ shards[c] # None => Backed(event.id, c, shards[c])
    <3> SUFFICES ASSUME NEW c \in Cpus, shards[c] # None PROVE Backed(event.id, c, shards[c])
      OBVIOUS
    <3>1. Backed(lastGlobal, c, shards[c])
      BY DEF EventInv, CountersBacked
    <3>2. shards[c].ticks \in Nat /\ shards[c].runnable \in Nat
      BY EventAssumption DEF Shard, EventInv, EventTypes
    <3> QED BY <2>7, <3>1, <3>2
  <2>11. EventTypes'
    BY <1>1, <2>1, <2>4, <2>6 DEF EventInv, EventTypes
  <2>12. \A c \in Cpus : shards'[c] = IF c = cpu THEN new ELSE shards[c]
    BY <2>1, <2>4 DEF EventInv, EventTypes
  <2>13. CountersBacked'
    BY <1>1, <2>1, <2>4, <2>9, <2>10, <2>12 DEF CountersBacked
  <2> QED BY <2>11, <2>13 DEF EventInv
<1> QED BY <1>2, <1>3

(* Every step of the event half. *)
LEMMA EventInductive == EventInv /\ [EventNext]_eventVars => EventInv'
<1> SUFFICES ASSUME EventInv, [EventNext]_eventVars PROVE EventInv'
  OBVIOUS
<1>1. ASSUME NEW cpu \in Cpus, NEW v \in Vectors, AssignIrq(v, cpu) PROVE EventInv'
  BY <1>1 DEF AssignIrq, EventInv, EventTypes, CountersBacked, policy
<1>2. ASSUME NEW cpu \in Cpus, NEW i, NEW ok, Complete(i, cpu, ok) PROVE EventInv'
  BY <1>2, IngressKeeps DEF Complete
<1>3. ASSUME NEW slot, AllowDmaSlot(slot) PROVE EventInv'
  BY <1>3 DEF AllowDmaSlot, EventInv, EventTypes, CountersBacked, policy
<1>4. ASSUME NEW a, Issue(a) PROVE EventInv'
  BY <1>4 DEF Issue, EventInv, EventTypes, CountersBacked, policy
<1>5. CASE UNCHANGED eventVars
  BY <1>5 DEF eventVars, sequencer, policy, EventInv, EventTypes, CountersBacked
<1> QED
  BY <1>1, <1>2, <1>3, <1>4, <1>5, IngressKeeps, AddCpuKeeps, StepKeeps DEF EventNext

(* KernelPolicy::step: whatever callers do with the events and completions they
   hold, and for any CPUs, ids and counter widths, a shard's counters are backed
   by as many distinct events. *)
THEOREM EventsApplyOnce == MCSpec => []NoEventAppliedTwice
<1>1. MCInit => EventInv
  BY EventInitial DEF MCInit
<1>2. EventInv /\ [MCNext]_mcVars => EventInv'
  BY EventStep, EventInductive
<1>3. EventInv => NoEventAppliedTwice
  <2> SUFFICES ASSUME EventInv, NEW c \in Cpus, shards[c] # None
               PROVE  /\ shards[c].ticks <= Cardinality({e \in events : e.cpu = c /\ e.kind.tag = "Timer"})
                      /\ shards[c].runnable <= Cardinality({e \in events :
                             e.cpu = c /\ e.kind.tag \in {"CpuOnline", "DmaComplete"}})
    BY DEF NoEventAppliedTwice
  <2>1. lastGlobal <= MaxId /\ lastGlobal \in Nat /\ MaxId \in Nat
    BY EventAssumption DEF EventInv, EventTypes
  <2>2. \A tags \in {TickKinds, TaskKinds} :
           /\ Cardinality(Past(events, lastGlobal, c, tags)) <= Cardinality(Past(events, MaxId, c, tags))
           /\ Cardinality(Past(events, lastGlobal, c, tags)) \in Nat
           /\ Cardinality(Past(events, MaxId, c, tags)) \in Nat
    BY <2>1, PastGrows, PastFinite DEF EventInv, EventTypes
  <2>3. /\ Past(events, MaxId, c, TickKinds) = {e \in events : e.cpu = c /\ e.kind.tag = "Timer"}
        /\ Past(events, MaxId, c, TaskKinds) = {e \in events :
              e.cpu = c /\ e.kind.tag \in {"CpuOnline", "DmaComplete"}}
    BY EventAssumption DEF Past, TickKinds, TaskKinds, EventInv, EventTypes, Events
  <2>4. shards[c].ticks \in Nat /\ shards[c].runnable \in Nat
    BY EventAssumption DEF Shard, EventInv, EventTypes
  <2>5. /\ shards[c].ticks <= Cardinality(Past(events, MaxId, c, TickKinds))
        /\ shards[c].runnable <= Cardinality(Past(events, MaxId, c, TaskKinds))
    BY <2>2, <2>4 DEF EventInv, CountersBacked
  <2> QED BY <2>3, <2>5, Zenon
<1> QED
  BY <1>1, <1>2, <1>3, PTL DEF MCSpec, mcVars

(***************************************************************************)
(* The inventory.  close reports the first declaration that fails, so that *)
(* it accepts only when none does.                                         *)
(***************************************************************************)

(* A set of positions has a first one. *)
LEMMA FirstPosition ==
    ASSUME NEW S \in SUBSET Nat, S # {}
    PROVE  \E i \in S : \A j \in S : i <= j
<1>1. PICK i \in S : \A j \in S : <<j, i>> \notin OpToRel(<, Nat)
  BY NatLessThanWellFounded, WFMin
<1>2. ASSUME NEW j \in S PROVE i <= j
  <2>1. i \in Nat /\ j \in Nat
    OBVIOUS
  <2>2. ~(j < i)
    BY <1>1, <2>1 DEF OpToRel
  <2> QED BY <2>1, <2>2
<1> QED BY <1>2

(* exact_match: a declaration without a first drift has none. *)
LEMMA NoFirstDrift ==
    ASSUME NEW d \in Declarations, FirstDrift(d.drifted) = "Ok"
    PROVE  d.drifted = {}
<1> DEFINE at == {i \in DOMAIN Fields : Fields[i] \in d.drifted}
<1>1. DOMAIN Fields = 1..8 /\ \A i \in 1..8 : Fields[i] # "Ok"
  BY DEF Fields
<1>2. at = {}
  <2> SUFFICES ASSUME at # {} PROVE FALSE
    OBVIOUS
  <2>1. \E i \in at : \A j \in at : i <= j
    <3>1. at \in SUBSET Nat
      BY <1>1
    <3> HIDE DEF at
    <3> QED BY <3>1, FirstPosition
  <2> DEFINE first == CHOOSE i \in at : \A j \in at : i <= j
  <2>2. first \in at
    <3> HIDE DEF at
    <3> QED BY <2>1
  <2>3. FirstDrift(d.drifted) = Fields[first]
    BY DEF FirstDrift
  <2> QED BY <1>1, <2>2, <2>3
<1> QED BY <1>2, InventoryAssumption

(* close: accepted means that no declaration failed. *)
LEMMA NoneFailed ==
    ASSUME NEW decls \in Seq(Declarations), NEW c, CloseInventory(decls, c) = "Ok"
    PROVE  /\ \A i \in DOMAIN decls : DeclarationError(decls, i) = "Ok"
           /\ decls # <<>>
           /\ c => \A e \in Registry : SourceReachable(e) =>
                 CanonicalName(e) \in {decls[i].name : i \in DOMAIN decls}
<1> DEFINE failed == {i \in DOMAIN decls : DeclarationError(decls, i) # "Ok"}
<1>1. failed = {}
  <2> SUFFICES ASSUME failed # {} PROVE FALSE
    OBVIOUS
  <2>1. failed \in SUBSET Nat
    OBVIOUS
  <2> DEFINE first == CHOOSE i \in failed : \A j \in failed : i <= j
  <2>2. first \in failed
    <3> HIDE DEF failed
    <3> QED BY <2>1, FirstPosition
  <2>3. CloseInventory(decls, c) = DeclarationError(decls, first)
    BY DEF CloseInventory
  <2> QED BY <2>2, <2>3
<1> QED BY <1>1 DEF CloseInventory

InventoryInv ==
    /\ declared \in Seq(Declarations)
    /\ closed # <<>> => closed.result = CloseInventory(declared, closed.complete)

(* Closing is the last step, so that the answer stays the one for what was
   declared. *)
LEMMA InventoryInductive == InventoryInv /\ [InventoryNext]_inventoryVars => InventoryInv'
<1> SUFFICES ASSUME InventoryInv, [InventoryNext]_inventoryVars PROVE InventoryInv'
  OBVIOUS
<1>1. ASSUME NEW d \in Declarations, Declare(d) PROVE InventoryInv'
  BY <1>1, AppendProperties DEF Declare, InventoryInv
<1>2. ASSUME NEW c \in BOOLEAN, CloseBoundary(c) PROVE InventoryInv'
  BY <1>2 DEF CloseBoundary, InventoryInv
<1>3. CASE UNCHANGED inventoryVars
  BY <1>3 DEF inventoryVars, InventoryInv
<1> QED BY <1>1, <1>2, <1>3 DEF InventoryNext

(* Distinct names are as many as the declarations. *)
LEMMA NamesCounted ==
    ASSUME NEW decls \in Seq(Declarations),
           \A i, j \in DOMAIN decls : j < i => decls[j].name # decls[i].name
    PROVE  Cardinality({decls[i].name : i \in DOMAIN decls}) = Len(decls)
<1> DEFINE names == {decls[i].name : i \in DOMAIN decls}
           f == [i \in 1..Len(decls) |-> decls[i].name]
<1>1. Len(decls) \in Nat /\ DOMAIN decls = 1..Len(decls)
  OBVIOUS
<1>2. f \in [1..Len(decls) -> names] /\ \A t \in names : \E s \in 1..Len(decls) : f[s] = t
  BY <1>1
<1>3. \A i, j \in 1..Len(decls) : f[i] = f[j] => i = j
  BY <1>1
<1>4. f \in Bijection(1..Len(decls), names)
  BY <1>2, <1>3 DEF Bijection, Injection, Surjection, IsInjective
<1> HIDE DEF f, names
<1>5. ExistsBijection(1..Len(decls), names)
  BY <1>4 DEF ExistsBijection
<1> QED BY <1>1, <1>5, FS_CountingElements DEF names

(* BoundaryInventory::close, for any declarations in any order: what it accepts
   is exact. *)
THEOREM InventoryIsExact == MCSpec => []InventoryExact
<1>1. MCInit => InventoryInv
  BY EmptySeq DEF MCInit, InventoryInit, InventoryInv
<1>2. InventoryInv /\ [MCNext]_mcVars => InventoryInv'
  BY InventoryStep, InventoryInductive
<1>3. InventoryInv => InventoryExact
  <2> SUFFICES ASSUME InventoryInv, closed # <<>>, closed.result = "Ok"
               PROVE  InventoryExact
    BY DEF InventoryExact
  <2>1. /\ \A i \in DOMAIN declared : DeclarationError(declared, i) = "Ok"
        /\ declared # <<>>
        /\ closed.complete => \A e \in Registry : SourceReachable(e) =>
              CanonicalName(e) \in {declared[i].name : i \in DOMAIN declared}
    BY NoneFailed DEF InventoryInv
  <2>2. ASSUME NEW i \in DOMAIN declared
        PROVE  /\ \A j \in 1..(i - 1) : declared[j].name # declared[i].name
               /\ Lookup(declared[i].name) = "Ok" /\ FirstDrift(declared[i].drifted) = "Ok"
    BY <2>1 DEF DeclarationError
  <2>3. Cardinality({declared[i].name : i \in DOMAIN declared}) = Len(declared)
    <3>1. \A i, j \in DOMAIN declared : j < i => declared[j].name # declared[i].name
      BY <2>2 DEF InventoryInv
    <3> QED BY <3>1, NamesCounted DEF InventoryInv
  <2>4. ASSUME NEW i \in DOMAIN declared
        PROVE  /\ declared[i].drifted = {}
               /\ \E e \in Registry : CanonicalName(e) = declared[i].name
    <3>1. declared[i] \in Declarations
      BY DEF InventoryInv
    <3>2. declared[i].drifted = {}
      BY <2>2, <3>1, NoFirstDrift
    <3>3. {e \in Registry : CanonicalName(e) = declared[i].name} # {}
      BY <2>2 DEF Lookup
    <3> QED BY <3>2, <3>3
  <2>5. closed.complete =>
           {CanonicalName(e) : e \in {x \in Registry : SourceReachable(x)}}
              \subseteq {declared[i].name : i \in DOMAIN declared}
    BY <2>1
  <2> QED BY <2>1, <2>3, <2>4, <2>5 DEF InventoryExact
<1> QED
  BY <1>1, <1>2, <1>3, PTL DEF MCSpec, mcVars
=============================================================================
