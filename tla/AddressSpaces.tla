------------------------------ MODULE AddressSpaces -----------------------------
(***************************************************************************)
(* thermite-kernel/src/memory.rs: one address space, the user memory behind*)
(* it and the temporary mapping window.                                    *)
(*                                                                         *)
(* Addresses count bytes of a small space in which Hole are the            *)
(* non-canonical ones; PageBytes gives the sizes of a page.  A frames      *)
(* capability is [base, len, ok], ok standing for its kind and READ right; *)
(* that of the space is spaceOk (kind and MAP).  `writes' counts the       *)
(* copies to user memory and is the value each of them writes; tempCopies  *)
(* holds every TemporaryMapping ever returned.                             *)
(***************************************************************************)
EXTENDS Integers, FiniteSets, KernelMaps

CONSTANTS MaxVirtual, Hole, PageBytes, Frames, Permissions,
          AsCpus, MaxAsEpoch, CopyLen, MaxCopies, Window, MaxTempGeneration, Unmapped

ASSUME AsAssumption ==
    /\ MaxVirtual \in Nat /\ CopyLen \in Nat /\ MaxCopies \in Nat /\ MaxAsEpoch \in Nat
    /\ PageBytes \subseteq Nat \ {0}
    /\ Frames \subseteq [base : Nat, len : Nat, ok : BOOLEAN]

VARIABLES maps, epoch, activeCpus, destroyed, bytes, writes, tempActive, nextTemp, tempCopies

asVars == <<maps, epoch, activeCpus, destroyed, bytes, writes, tempActive, nextTemp, tempCopies>>
spaceVars == <<maps, epoch, activeCpus, destroyed>>
tempVars  == <<tempActive, nextTemp, tempCopies>>

Span(base, len) == base .. base + len - 1
IsCanonical(a)  == a \notin Hole
Covers(m, a)    == a \in Span(m.virtualBase, m.pageSize * m.pages)

AsInit ==
    /\ maps = <<>> /\ epoch = 0 /\ activeCpus = {} /\ destroyed = FALSE
    /\ bytes = <<>> /\ writes = 0
    /\ tempActive = Unmapped /\ nextTemp = 1 /\ tempCopies = {}

(* Mutant: only the first byte of the new mapping is compared. *)
OverlapsStart(base, len) == \E b \in DOMAIN maps : Covers(maps[b], base)

Overlaps(base, len) ==
    \E b \in DOMAIN maps : \E a \in Span(base, len) : Covers(maps[b], a)

(* AddressSpace::map: the permissions granted are not compared with the rights
   of the frames capability, of which only READ is asked. *)
MapPages(spaceOk, frames, base, size, pages, perms) ==
    /\ ~destroyed /\ spaceOk /\ frames.ok /\ IsCanonical(base)
    /\ pages # 0 /\ perms # {}
    /\ base % size = 0 /\ frames.base % size = 0
    /\ size * pages <= frames.len /\ base + size * pages <= MaxVirtual
    /\ ~Overlaps(base, size * pages) /\ epoch < MaxAsEpoch
    /\ epoch' = epoch + 1
    /\ maps' = Insert(maps, base, [virtualBase |-> base, physicalBase |-> frames.base,
                                  pageSize |-> size, pages |-> pages,
                                  permissions |-> perms, epoch |-> epoch'])
    /\ UNCHANGED <<activeCpus, destroyed, bytes, writes, tempVars>>

(* AddressSpace::unmap asks for no capability, and removes the mapping before it
   finds out that the epochs are used up. *)
UnmapPages(base) ==
    /\ ~destroyed /\ base \in DOMAIN maps
    /\ maps' = Without(maps, {base})
    /\ epoch' = IF epoch < MaxAsEpoch THEN epoch + 1 ELSE epoch
    /\ UNCHANGED <<activeCpus, destroyed, bytes, writes, tempVars>>

(* AddressSpace::protect: the epoch is spent even if nothing is mapped. *)
Protect(spaceOk, base, perms) ==
    /\ ~destroyed /\ spaceOk /\ perms # {} /\ epoch < MaxAsEpoch
    /\ epoch' = epoch + 1
    /\ maps' = IF base \in DOMAIN maps
               THEN [maps EXCEPT ![base].permissions = perms, ![base].epoch = epoch']
               ELSE maps
    /\ UNCHANGED <<activeCpus, destroyed, bytes, writes, tempVars>>

(* AddressSpace::translate: the physical address and the permissions, or
   Unmapped for each of its errors. *)
Translate(a) ==
    LET hit == {b \in DOMAIN maps : Covers(maps[b], a)} IN
    IF destroyed \/ ~IsCanonical(a) \/ hit = {} THEN Unmapped
    ELSE LET m == maps[CHOOSE b \in hit : \A c \in hit : b <= c]
         IN [physical |-> m.physicalBase + (a - m.virtualBase), permissions |-> m.permissions]

Activate(spaceOk, cpu) ==
    /\ spaceOk /\ ~destroyed
    /\ activeCpus' = activeCpus \cup {cpu}
    /\ UNCHANGED <<maps, epoch, destroyed, bytes, writes, tempVars>>

Deactivate(spaceOk, cpu) ==
    /\ spaceOk /\ cpu \in activeCpus
    /\ activeCpus' = activeCpus \ {cpu}
    /\ UNCHANGED <<maps, epoch, destroyed, bytes, writes, tempVars>>

Destroy(spaceOk) ==
    /\ spaceOk /\ activeCpus = {} /\ maps = <<>>
    /\ destroyed' = TRUE
    /\ UNCHANGED <<maps, epoch, activeCpus, bytes, writes, tempVars>>

Permits(a, right) ==
    Translate(a) # Unmapped /\ {"USER", right} \subseteq Translate(a).permissions

(* Mutant: the copy stops at the first fault and keeps what it has written. *)
WritableSomeBytes(start) ==
    {Translate(start + i).physical :
        i \in {j \in 0..CopyLen - 1 : \A k \in 0..j : Permits(start + k, "WRITE")}}

(* validate_user_range: the physical addresses if the whole range may be
   written, else none. *)
WritableBytes(start) ==
    IF start + CopyLen <= MaxVirtual
       /\ \A a \in Span(start, CopyLen) : Permits(a, "WRITE")
    THEN {Translate(a).physical : a \in Span(start, CopyLen)} ELSE {}

(* AddressSpace::copy_to_user.  copy_from_user changes only the caller's buffer,
   after the same validation. *)
CopyToUser(start) ==
    /\ writes < MaxCopies
    /\ writes' = writes + 1
    /\ bytes' = Overlay(bytes, WritableBytes(start), writes')
    /\ UNCHANGED <<spaceVars, tempVars>>

(* TemporaryMapWindow::map *)
MapTemporary(windowOk, frames) ==
    /\ windowOk /\ frames.ok /\ tempActive = Unmapped
    /\ frames.len <= Cardinality(Window)
    /\ tempActive' = [physical |-> frames.base, len |-> frames.len, generation |-> nextTemp]
    /\ tempCopies' = tempCopies \cup {tempActive'}
    /\ UNCHANGED <<spaceVars, bytes, writes, nextTemp>>

(* TemporaryMapWindow::revoke *)
RevokeTemporary(temp) ==
    /\ tempActive = temp /\ nextTemp < MaxTempGeneration
    /\ tempActive' = Unmapped /\ nextTemp' = nextTemp + 1
    /\ UNCHANGED <<spaceVars, bytes, writes, tempCopies>>

AsNext ==
    \/ \E ok \in BOOLEAN :
          \/ \E f \in Frames, b \in 0..MaxVirtual - 1, s \in PageBytes, n \in 0..2,
                perms \in Permissions : MapPages(ok, f, b, s, n, perms)
          \/ \E b \in 0..MaxVirtual - 1, perms \in Permissions : Protect(ok, b, perms)
          \/ \E c \in AsCpus : Activate(ok, c) \/ Deactivate(ok, c)
          \/ Destroy(ok)
          \/ \E f \in Frames : MapTemporary(ok, f)
    \/ \E b \in DOMAIN maps : UnmapPages(b)
    \/ \E a \in 0..MaxVirtual - 1 : CopyToUser(a)
    \/ \E t \in tempCopies : RevokeTemporary(t)

(* What a step may do to user memory. *)
CopyIsWhole ==
    \/ bytes' = bytes
    \/ \E start \in 0..MaxVirtual - CopyLen :
          /\ \A a \in Span(start, CopyLen) :
                /\ Cardinality({b \in DOMAIN maps : Covers(maps[b], a)}) = 1
                /\ Permits(a, "WRITE")
          /\ {p \in DOMAIN bytes' : bytes'[p] = writes'}
               = {Translate(a).physical : a \in Span(start, CopyLen)}

(* "No partial-success ambiguity": every copy that writes anything writes the
   whole of one contiguous user range, each byte of which was mapped, once,
   writable for the user when the copy began: never a prefix, never a byte of a
   range that crosses into an unmapped, read-only or kernel page. *)
UserCopiesAllOrNothing == [][CopyIsWhole]_asVars
=============================================================================
