---------------------------- MODULE KernelMemoryProofs ---------------------------
(***************************************************************************)
(* What holds of the containers, the atomic event log, the user copies and *)
(* the device bus of thermite-kernel for every capacity, set of keys and   *)
(* cells, layout of the address space and set of capabilities.  As in      *)
(* KernelObjectsProofs, a step of ObjectsSpec is for each of them a step   *)
(* of its own or none.                                                     *)
(***************************************************************************)
EXTENDS KernelObjectsProofs

(* Registers and ports are changed by DeviceBus's methods only. *)
LEMMA BusStep == [Next0]_objectVars => [BusNext]_busVars
BY DEF Next0, objectVars

(* User memory is changed by AddressSpace's methods only. *)
LEMMA AsStep == [Next0]_objectVars => [AsNext]_asVars
BY DEF Next0, objectVars

(* The containers are changed by their own methods only. *)
LEMMA StorageStep == [Next0]_objectVars => [StorageNext]_storageVars
BY DEF Next0, objectVars

(* The event log is changed by AtomicMemoryModel's methods only. *)
LEMMA AtomicStep == [Next0]_objectVars => [AtomicNext]_atomicVars
BY DEF Next0, objectVars

(***************************************************************************)
(* The device bus.                                                         *)
(***************************************************************************)

Registered == {a \in DOMAIN mmio : mmio'[a] # mmio[a]}
Ported     == {p \in DOMAIN pio : pio'[p] # pio[p]}

(* A write changes no byte outside of its word. *)
LEMMA WritesItsWord ==
    ASSUME NEW values, NEW address, NEW w, NEW value, NEW a \in DOMAIN values,
           WriteBytes(values, address, w, value)[a] # values[a]
    PROVE  a \in address .. address + w - 1
BY DEF WriteBytes

(* A word that validate_range accepts is aligned and inside the capability. *)
LEMMA ValidatedIsOneAccess ==
    ASSUME NEW cap \in BusCaps, NEW w \in Widths, NEW address \in 0..MmioTop - 1,
           NEW kind, NEW changed, changed \subseteq address .. address + w - 1,
           ValidateRange(cap, kind, "WRITE", address, w) = "Ok"
    PROVE  InOneAccess(kind, changed)
<1>1. /\ cap.kind = kind /\ "WRITE" \in cap.rights /\ address % w = 0
      /\ ContainsRange(cap, address, w, MmioTop)
  BY DEF ValidateRange
<1>2. cap.base <= address /\ address + w <= cap.base + cap.len
  BY <1>1 DEF ContainsRange
<1>3. PICK i \in 0..(MmioTop \div w) : i * w = address
  <2> DEFINE i == address \div w
  <2>1. MmioTop \in Nat
    BY BusAssumption
  <2>2. w = 1 \/ w = 2 \/ w = 4 \/ w = 8
    BY DEF Widths
  <2>3. i * w = address /\ i \in 0..(MmioTop \div w)
    BY <1>1, <2>1, <2>2
  <2> QED
    BY <2>3
<1> QED
  BY <1>1, <1>2, <1>3 DEF InOneAccess

LEMMA BusConfined ==
    ASSUME [BusNext]_busVars
    PROVE  AtMostOneAccess
<1> SUFFICES /\ Registered = {} \/ Ported = {}
             /\ Registered # {} => busErr' = "Ok" /\ InOneAccess("Mmio", Registered)
             /\ Ported # {} => busErr' = "Ok" /\ InOneAccess("IoPort", Ported)
  BY DEF AtMostOneAccess, Registered, Ported
<1>1. ASSUME mmio' = mmio, pio' = pio PROVE Registered = {} /\ Ported = {}
  BY <1>1 DEF Registered, Ported
<1>2. ASSUME NEW cap \in BusCaps, NEW w \in Widths, NEW address \in 0..MmioTop - 1, NEW value,
             MmioWrite(cap, address, w, value)
      PROVE  /\ Ported = {}
             /\ Registered # {} => busErr' = "Ok" /\ InOneAccess("Mmio", Registered)
  <2>1. Ported = {}
    BY <1>2 DEF MmioWrite, Ported
  <2>2. CASE ValidateRange(cap, "Mmio", "WRITE", address, w) # "Ok"
    BY <1>2, <2>1, <2>2 DEF MmioWrite, Registered
  <2>3. CASE ValidateRange(cap, "Mmio", "WRITE", address, w) = "Ok"
    <3>1. busErr' = "Ok" /\ mmio' = WriteBytes(mmio, address, w, value)
      BY <1>2, <2>3 DEF MmioWrite
    <3>2. Registered \subseteq address .. address + w - 1
      BY <3>1, WritesItsWord DEF Registered
    <3>3. InOneAccess("Mmio", Registered)
      BY <2>3, <3>2, ValidatedIsOneAccess
    <3> QED
      BY <2>1, <3>1, <3>3
  <2> QED
    BY <2>2, <2>3
<1>3. ASSUME NEW cap \in BusCaps, NEW w \in Widths, NEW port \in 0..PortTop - 1, NEW value,
             PioWrite(cap, port, w, value)
      PROVE  /\ Registered = {}
             /\ Ported # {} => busErr' = "Ok" /\ InOneAccess("IoPort", Ported)
  <2>1. Registered = {}
    BY <1>3 DEF PioWrite, Registered
  <2>2. CASE PortError(cap, "WRITE", port, w) # "Ok"
    BY <1>3, <2>1, <2>2 DEF PioWrite, Ported
  <2>3. CASE PortError(cap, "WRITE", port, w) = "Ok"
    <3>1. w # 8 /\ ValidateRange(cap, "IoPort", "WRITE", port, w) = "Ok"
      BY <2>3 DEF PortError
    <3>2. port % w = 0 /\ ContainsRange(cap, port, w, MmioTop)
      BY <3>1 DEF ValidateRange
    <3>3. port + w <= PortTop
      <4>1. w = 1 \/ w = 2 \/ w = 4
        BY <3>1 DEF Widths
      <4>2. PortTop \in Nat /\ PortTop % 4 = 0 /\ port \in Nat /\ port < PortTop
        BY BusAssumption
      <4> QED
        BY <3>2, <4>1, <4>2
    <3>4. busErr' = "Ok" /\ pio' = WriteBytes(pio, port, w, value)
      <4>1. PortTop \in Nat /\ port + w \in Nat
        BY BusAssumption DEF Widths
      <4> QED
        BY <1>3, <2>3, <3>3, <4>1 DEF PioWrite
    <3>5. Ported \subseteq port .. port + w - 1
      BY <3>4, WritesItsWord DEF Ported
    <3>6. port \in 0..MmioTop - 1
      BY <3>2, BusAssumption DEF ContainsRange, Widths
    <3>7. InOneAccess("IoPort", Ported)
      BY <3>1, <3>5, <3>6, ValidatedIsOneAccess
    <3> QED
      BY <2>1, <3>4, <3>7
  <2> QED
    BY <2>2, <2>3
<1>4. ASSUME NEW cap, NEW w, NEW address, MmioRead(cap, address, w) \/ PioRead(cap, address, w)
      PROVE  mmio' = mmio /\ pio' = pio
  BY <1>4 DEF MmioRead, PioRead
<1>5. CASE DeviceBarrier \/ UNCHANGED busVars
  BY <1>1, <1>5 DEF DeviceBarrier, busVars
<1> QED
  BY <1>1, <1>2, <1>3, <1>4, <1>5 DEF BusNext

(***************************************************************************)
(* Copies to user memory.                                                  *)
(***************************************************************************)

Mappings == [virtualBase : Int, physicalBase : Int, pageSize : Int, pages : Int,
             permissions : Permissions, epoch : Int]

(* No two mappings of the space cover one address, and no byte holds a value of
   a copy that has not been made. *)
AsInv ==
    /\ epoch \in Nat
    /\ \A b \in DOMAIN maps : maps[b] \in Mappings
    /\ \A b, c \in DOMAIN maps : \A a \in Int : Covers(maps[b], a) /\ Covers(maps[c], a) => b = c
    /\ writes \in Nat /\ bytes \in [DOMAIN bytes -> 0..writes]

LEMMA AsInitial == AsInit => AsInv
BY DEF AsInit, AsInv

LEMMA MapPagesKeeps ==
    ASSUME AsInv, NEW ok, NEW f \in Frames, NEW b \in 0..MaxVirtual - 1, NEW s \in PageBytes,
           NEW n \in 0..2, NEW perms \in Permissions, MapPages(ok, f, b, s, n, perms)
    PROVE  AsInv'
<1> DEFINE new == [virtualBase |-> b, physicalBase |-> f.base, pageSize |-> s, pages |-> n,
                   permissions |-> perms, epoch |-> epoch + 1]
<1>1. /\ ~Overlaps(b, s * n) /\ maps' = Insert(maps, b, new) /\ epoch' = epoch + 1
      /\ UNCHANGED <<bytes, writes>>
  BY DEF MapPages
<1>2. new \in Mappings
  BY AsAssumption DEF Mappings, AsInv
<1>3. \A a : Covers(new, a) <=> a \in Span(b, s * n)
  BY DEF Covers
<1> HIDE DEF new
<1>4. \A c \in DOMAIN maps : \A a : Covers(new, a) => ~Covers(maps[c], a)
  BY <1>1, <1>3 DEF Overlaps
<1>5. /\ DOMAIN maps' = DOMAIN maps \cup {b} /\ maps'[b] = new
      /\ \A c \in DOMAIN maps : c # b => maps'[c] = maps[c]
  BY <1>1 DEF Insert
<1>6. \A c, d \in DOMAIN maps' : \A a \in Int : Covers(maps'[c], a) /\ Covers(maps'[d], a) => c = d
  BY <1>4, <1>5 DEF AsInv
<1>7. \A c \in DOMAIN maps' : maps'[c] \in Mappings
  BY <1>2, <1>5 DEF AsInv
<1> QED
  BY <1>1, <1>6, <1>7 DEF AsInv

LEMMA ProtectKeeps ==
    ASSUME AsInv, NEW ok, NEW base, NEW perms \in Permissions, Protect(ok, base, perms)
    PROVE  AsInv'
<1>1. epoch' = epoch + 1 /\ UNCHANGED <<bytes, writes>>
  BY DEF Protect
<1>2. CASE base \notin DOMAIN maps
  BY <1>1, <1>2 DEF Protect, AsInv
<1>3. CASE base \in DOMAIN maps
  <2> DEFINE new == [maps[base] EXCEPT !.permissions = perms, !.epoch = epoch + 1]
  <2>1. maps' = [maps EXCEPT ![base] = new]
    BY <1>1, <1>3 DEF Protect
  <2>2. maps[base] \in Mappings /\ epoch + 1 \in Int
    BY <1>3 DEF AsInv
  <2>3. /\ new \in Mappings /\ new.virtualBase = maps[base].virtualBase
        /\ new.pageSize = maps[base].pageSize /\ new.pages = maps[base].pages
    BY <2>2 DEF Mappings
  <2>4. \A a : Covers(new, a) <=> Covers(maps[base], a)
    BY <2>3 DEF Covers
  <2> HIDE DEF new
  <2>5. /\ DOMAIN maps' = DOMAIN maps /\ maps'[base] = new
        /\ \A c \in DOMAIN maps : c # base => maps'[c] = maps[c]
    BY <1>3, <2>1
  <2>6. \A c \in DOMAIN maps : \A a : Covers(maps'[c], a) <=> Covers(maps[c], a)
    BY <2>4, <2>5
  <2>7. \A c \in DOMAIN maps' : maps'[c] \in Mappings
    BY <2>3, <2>5 DEF AsInv
  <2> QED
    BY <1>1, <2>5, <2>6, <2>7 DEF AsInv
<1> QED
  BY <1>2, <1>3

LEMMA CopyKeeps ==
    ASSUME AsInv, NEW start, CopyToUser(start)
    PROVE  AsInv'
<1>1. /\ writes' = writes + 1 /\ bytes' = Overlay(bytes, WritableBytes(start), writes + 1)
      /\ UNCHANGED <<maps, epoch>>
  BY DEF CopyToUser, spaceVars
<1>2. bytes' \in [DOMAIN bytes' -> 0..writes']
  <2>1. /\ DOMAIN bytes' = DOMAIN bytes \cup WritableBytes(start)
        /\ \A p \in DOMAIN bytes' : bytes'[p] = IF p \in WritableBytes(start) THEN writes + 1 ELSE bytes[p]
        /\ bytes' = [p \in DOMAIN bytes' |-> bytes'[p]]
    BY <1>1 DEF Overlay
  <2>2. \A p \in DOMAIN bytes' : bytes'[p] \in 0..writes'
    BY <1>1, <2>1 DEF AsInv
  <2> QED
    BY <2>1, <2>2
<1> QED
  BY <1>1, <1>2 DEF AsInv

LEMMA AsInductive == AsInv /\ [AsNext]_asVars => AsInv'
<1> SUFFICES ASSUME AsInv, [AsNext]_asVars PROVE AsInv'
  OBVIOUS
<1>1. CASE UNCHANGED <<maps, epoch, bytes, writes>>
  BY <1>1 DEF AsInv
<1>2. ASSUME NEW ok, NEW c, NEW f, NEW t,
             \/ Activate(ok, c) \/ Deactivate(ok, c) \/ Destroy(ok)
             \/ MapTemporary(ok, f) \/ RevokeTemporary(t)
      PROVE  AsInv'
  BY <1>1, <1>2 DEF Activate, Deactivate, Destroy, MapTemporary, RevokeTemporary, spaceVars
<1>3. CASE UNCHANGED asVars
  BY <1>1, <1>3 DEF asVars
<1>4. ASSUME NEW b, UnmapPages(b) PROVE AsInv'
  <2>1. /\ DOMAIN maps' \subseteq DOMAIN maps /\ \A c \in DOMAIN maps' : maps'[c] = maps[c]
        /\ epoch' \in {epoch, epoch + 1} /\ UNCHANGED <<bytes, writes>>
    BY <1>4 DEF UnmapPages, Without
  <2> QED
    BY <2>1 DEF AsInv
<1> QED
  BY <1>2, <1>3, <1>4, MapPagesKeeps, ProtectKeeps, CopyKeeps DEF AsNext

(* What a copy that was begun does. *)
LEMMA CopyIsWholeOrNone ==
    ASSUME AsInv, NEW start \in 0..MaxVirtual - 1, CopyToUser(start)
    PROVE  CopyIsWhole
<1>1. CASE WritableBytes(start) = {}
  BY <1>1 DEF CopyToUser, Overlay, AsInv, CopyIsWhole
<1>2. CASE WritableBytes(start) # {}
  <2>1. /\ start + CopyLen <= MaxVirtual
        /\ \A a \in Span(start, CopyLen) : Permits(a, "WRITE")
        /\ WritableBytes(start) = {Translate(a).physical : a \in Span(start, CopyLen)}
    BY <1>2 DEF WritableBytes
  <2>2. start \in 0..MaxVirtual - CopyLen
    BY <2>1, AsAssumption
  <2>3. ASSUME NEW a \in Span(start, CopyLen)
        PROVE  Cardinality({b \in DOMAIN maps : Covers(maps[b], a)}) = 1
    <3>1. PICK b \in DOMAIN maps : Covers(maps[b], a)
      BY <2>1 DEF Permits, Translate
    <3>2. a \in Int
      BY AsAssumption DEF Span
    <3>3. {c \in DOMAIN maps : Covers(maps[c], a)} = {b}
      BY <3>1, <3>2 DEF AsInv
    <3> QED
      BY <3>3, FS_Singleton
  <2>4. {p \in DOMAIN bytes' : bytes'[p] = writes'} = WritableBytes(start)
    <3>1. /\ writes' = writes + 1 /\ DOMAIN bytes' = DOMAIN bytes \cup WritableBytes(start)
          /\ \A p \in DOMAIN bytes' :
                bytes'[p] = IF p \in WritableBytes(start) THEN writes + 1 ELSE bytes[p]
      BY DEF CopyToUser, Overlay
    <3>2. \A p \in DOMAIN bytes : bytes[p] # writes + 1
      BY DEF AsInv
    <3> QED
      BY <3>1, <3>2
  <2> QED
    BY <2>1, <2>2, <2>3, <2>4 DEF CopyIsWhole
<1> QED
  BY <1>1, <1>2

LEMMA CopiesWhole == AsInv /\ [AsNext]_asVars => CopyIsWhole
<1> SUFFICES ASSUME AsInv, [AsNext]_asVars PROVE CopyIsWhole
  OBVIOUS
<1>1. CASE bytes' = bytes
  BY <1>1 DEF CopyIsWhole
<1>2. ASSUME NEW ok, NEW f, NEW b, NEW s, NEW n, NEW perms,
             MapPages(ok, f, b, s, n, perms) \/ Protect(ok, b, perms) \/ UnmapPages(b)
      PROVE  bytes' = bytes
  BY <1>2 DEF MapPages, Protect, UnmapPages
<1>3. ASSUME NEW ok, NEW c, NEW f, NEW t,
             \/ Activate(ok, c) \/ Deactivate(ok, c) \/ Destroy(ok)
             \/ MapTemporary(ok, f) \/ RevokeTemporary(t)
      PROVE  bytes' = bytes
  BY <1>3 DEF Activate, Deactivate, Destroy, MapTemporary, RevokeTemporary
<1>4. CASE UNCHANGED asVars
  BY <1>1, <1>4 DEF asVars
<1> QED
  BY <1>1, <1>2, <1>3, <1>4, CopyIsWholeOrNone DEF AsNext

(* AddressSpace and DeviceBus: a user copy writes the whole of one range, every
   byte of it mapped once and writable, or nothing; a device access writes one
   aligned word inside its capability or nothing, for any layout of the address
   space and any capabilities. *)
THEOREM WritesAreConfined == ObjectsSpec => WritesConfined
<1>1. Init0 => AsInv
  BY AsInitial DEF Init0
<1>2. AsInv /\ [Next0]_objectVars => AsInv'
  BY AsStep, AsInductive
<1>3. AsInv /\ [Next0]_objectVars => [CopyIsWhole]_asVars
  BY AsStep, CopiesWhole
<1>4. [Next0]_objectVars => [AtMostOneAccess]_busVars
  BY BusStep, BusConfined
<1> QED
  BY <1>1, <1>2, <1>3, <1>4, PTL
     DEF ObjectsSpec, WritesConfined, UserCopiesAllOrNothing, BusWritesConfined

(***************************************************************************)
(* The fixed-capacity containers.                                          *)
(***************************************************************************)

Storable == Values \cup {Empty}
Entered  == (Keys \X Values) \cup {Empty}

(* FixedVec: the live prefix of the array, in order. *)
VecInv ==
    /\ vec \in [values : [Indices -> Storable], len : 0..N]
    /\ stack \in Seq(Storable) /\ Len(stack) = vec.len
    /\ \A i \in 1..vec.len : stack[i] = vec.values[i - 1]

(* RingBuffer: the live entries follow the head, around the end of the array. *)
RingInv ==
    /\ ring \in [values : [Indices -> Storable], head : Nat, len : 0..N]
    /\ N # 0 => ring.head < N
    /\ line \in Seq(Storable) /\ Len(line) = ring.len
    /\ \A i \in 1..ring.len : line[i] = ring.values[(ring.head + i - 1) % N]

(* FixedMap: the first len entries are filled and no others, their keys differ,
   and they are the pairs of the client's table. *)
MapInv ==
    /\ map \in [entries : [Indices -> Entered], len : 0..N]
    /\ \A i \in Indices : map.entries[i] # Empty <=> i < map.len
    /\ \A i, j \in Indices : i < map.len /\ j < map.len /\ map.entries[i][1] = map.entries[j][1]
          => i = j
    /\ IsFiniteSet(DOMAIN table) /\ Cardinality(DOMAIN table) = map.len
    /\ \A k \in DOMAIN table : \E i \in Indices : i < map.len /\ map.entries[i][1] = k
    /\ \A i \in Indices : i < map.len =>
          map.entries[i][1] \in DOMAIN table /\ table[map.entries[i][1]] = map.entries[i][2]

StorageInv == VecInv /\ RingInv /\ MapInv /\ cell = once

LEMMA StorageInitial == StorageInit => StorageInv
<1> SUFFICES ASSUME StorageInit PROVE StorageInv
  OBVIOUS
<1>0. N \in Nat /\ Blank \in [Indices -> {Empty}]
  BY StorageAssumption DEF Blank, Indices
<1>1. VecInv
  BY <1>0 DEF StorageInit, VecInv, Storable
<1>2. RingInv
  BY <1>0 DEF StorageInit, RingInv, Storable
<1>3. MapInv
  <2>1. map.entries = Blank /\ map.len = 0 /\ table = <<>> /\ DOMAIN table = {}
    BY DEF StorageInit
  <2>2. IsFiniteSet(DOMAIN table) /\ Cardinality(DOMAIN table) = 0
    BY <2>1, FS_EmptySet
  <2> QED
    BY <1>0, <2>1, <2>2 DEF StorageInit, MapInv, Entered, Indices
<1> QED
  BY <1>1, <1>2, <1>3 DEF StorageInit, StorageInv

(***************************************************************************)
(* FixedVec.                                                               *)
(***************************************************************************)

LEMMA VecKeeps ==
    ASSUME VecInv, VecPop \/ \E v \in Values : VecPush(v) \/ \E i \in Indices : VecSet(i, v)
    PROVE  VecInv'
<1>1. vec.values \in [Indices -> Storable] /\ stack \in Seq(Storable) /\ Len(stack) = vec.len
  BY DEF VecInv
<1>2. N \in Nat /\ vec.len \in Nat /\ vec.len <= N
  BY StorageAssumption DEF VecInv
<1>3. ASSUME NEW v \in Values, VecPush(v) PROVE VecInv'
  <2>1. vec.len # N
    BY <1>3 DEF VecPush
  <2>2. vec.len < N /\ vec.len \in Indices /\ vec.len + 1 \in 0..N
    BY <1>2, <2>1 DEF Indices
  <2>3. v \in Storable
    BY DEF Storable
  <2>4. vec' = [values |-> [vec.values EXCEPT ![vec.len] = v], len |-> vec.len + 1]
    BY <1>3 DEF VecPush, VecInv
  <2>5. /\ stack' \in Seq(Storable) /\ Len(stack') = vec.len + 1 /\ stack'[vec.len + 1] = v
        /\ \A i \in 1..vec.len : stack'[i] = stack[i]
    <3>1. stack' = Append(stack, v)
      BY <1>3 DEF VecPush
    <3> QED
      BY <1>1, <2>3, <3>1
  <2>6. \A i \in 1..vec.len + 1 : stack'[i] = [vec.values EXCEPT ![vec.len] = v][i - 1]
    BY <1>1, <1>2, <2>2, <2>5 DEF VecInv, Indices
  <2>7. [vec.values EXCEPT ![vec.len] = v] \in [Indices -> Storable]
    BY <1>1, <2>3
  <2> QED
    BY <2>2, <2>4, <2>5, <2>6, <2>7 DEF VecInv
<1>4. CASE VecPop
  <2>1. vec.len # 0 /\ stack' = SubSeq(stack, 1, Len(stack) - 1)
    BY <1>4 DEF VecPop
  <2>2. vec' = [values |-> vec.values, len |-> vec.len - 1]
    BY <1>4 DEF VecPop, VecInv
  <2>3. vec.len - 1 \in 0..N
    BY <1>2, <2>1
  <2>4. /\ stack' \in Seq(Storable) /\ Len(stack') = vec.len - 1
        /\ \A i \in 1..vec.len - 1 : stack'[i] = stack[i]
    BY <1>1, <1>2, <2>1
  <2>5. \A i \in 1..vec.len - 1 : stack'[i] = vec.values[i - 1]
    BY <1>2, <2>4 DEF VecInv
  <2> QED
    BY <1>1, <2>2, <2>3, <2>4, <2>5 DEF VecInv
<1>5. ASSUME NEW v \in Values, NEW i \in Indices, VecSet(i, v) PROVE VecInv'
  <2>1. i < vec.len /\ stack' = [stack EXCEPT ![i + 1] = v]
    BY <1>5 DEF VecSet
  <2>2. i \in Nat
    BY <1>2 DEF Indices
  <2>3. v \in Storable
    BY DEF Storable
  <2>4. vec' = [values |-> [vec.values EXCEPT ![i] = v], len |-> vec.len]
    BY <1>5 DEF VecSet, VecInv
  <2>5. stack' \in Seq(Storable) /\ Len(stack') = vec.len
    BY <1>1, <1>2, <2>1, <2>2, <2>3
  <2>6. \A j \in 1..vec.len : stack'[j] = [vec.values EXCEPT ![i] = v][j - 1]
    BY <1>1, <1>2, <2>1, <2>2 DEF VecInv, Indices
  <2>7. [vec.values EXCEPT ![i] = v] \in [Indices -> Storable] /\ vec.len \in 0..N
    BY <1>1, <1>2, <2>3
  <2> QED
    BY <2>4, <2>5, <2>6, <2>7 DEF VecInv
<1> QED
  BY <1>3, <1>4, <1>5

(***************************************************************************)
(* RingBuffer.                                                             *)
(***************************************************************************)

(* Positions wrap at most once. *)
LEMMA Wrapped ==
    ASSUME NEW n \in Nat, n # 0, NEW h \in Nat, h < n, NEW d \in Nat, d <= n
    PROVE  (h + d) % n = IF h + d < n THEN h + d ELSE h + d - n
OBVIOUS

LEMMA RingKeeps ==
    ASSUME RingInv, RingPop \/ \E v \in Values : RingPush(v)
    PROVE  RingInv'
<1>1. ring.values \in [Indices -> Storable] /\ line \in Seq(Storable) /\ Len(line) = ring.len
  BY DEF RingInv
<1> DEFINE h == ring.head
<1> DEFINE n == ring.len
<1>2. N \in Nat /\ N # 0
  BY StorageAssumption DEF RingPop, RingPush
<1>3. n \in Nat /\ n <= N /\ h \in Nat /\ h < N
  BY <1>2 DEF RingInv
<1>4. ASSUME NEW d \in Nat, d <= N
      PROVE  (h + d) % N = IF h + d < N THEN h + d ELSE h + d - N
  <2> HIDE DEF h
  <2> QED
    BY <1>2, <1>3, <1>4, Wrapped
<1>5. \A i \in 1..n : line[i] = ring.values[(h + (i - 1)) % N]
  <2>1. ASSUME NEW i \in 1..n PROVE h + (i - 1) = h + i - 1
    BY <1>3
  <2> QED
    BY <2>1 DEF RingInv
<1>6. ASSUME NEW v \in Values, RingPush(v) PROVE RingInv'
  <2> DEFINE at == (h + n) % N
  <2>1. n # N /\ line' = Append(line, v)
    BY <1>6 DEF RingPush
  <2>2. ring' = [values |-> [ring.values EXCEPT ![at] = v], head |-> h, len |-> n + 1]
    BY <1>6 DEF RingPush, RingInv
  <2>3. v \in Storable
    BY DEF Storable
  <2>4. n + 1 \in 0..N /\ n < N
    BY <1>2, <1>3, <2>1
  <2>5. /\ line' \in Seq(Storable) /\ Len(line') = n + 1 /\ line'[n + 1] = v
        /\ \A i \in 1..n : line'[i] = line[i]
    BY <1>1, <2>1, <2>3
  <2> HIDE DEF h, n
  <2>6. at = IF h + n < N THEN h + n ELSE h + n - N
    BY <1>3, <1>4
  <2>7. at \in Indices
    BY <1>2, <1>3, <2>6 DEF Indices
  <2> HIDE DEF at
  <2>8. ASSUME NEW i \in 1..n + 1
        PROVE  line'[i] = [ring.values EXCEPT ![at] = v][(h + i - 1) % N]
    <3>1. h + (i - 1) = h + i - 1 /\ i - 1 \in Nat /\ i - 1 <= N
      BY <1>2, <1>3, <2>4
    <3>2. CASE i = n + 1
      <4>1. (h + i - 1) % N = at
        BY <1>3, <3>1, <3>2 DEF at
      <4> QED
        BY <1>1, <2>5, <2>7, <3>2, <4>1
    <3>3. CASE i # n + 1
      <4>1. i \in 1..n
        BY <1>3, <3>3
      <4>2. (h + (i - 1)) % N = IF h + (i - 1) < N THEN h + (i - 1) ELSE h + (i - 1) - N
        BY <1>4, <3>1
      <4>3. (h + (i - 1)) % N # at
        BY <1>2, <1>3, <2>4, <2>6, <4>1, <4>2
      <4>4. (h + (i - 1)) % N \in Indices
        BY <1>2, <1>3, <3>1, <4>2 DEF Indices
      <4>5. line'[i] = ring.values[(h + (i - 1)) % N]
        BY <1>5, <2>5, <4>1
      <4> QED
        BY <1>1, <3>1, <4>3, <4>4, <4>5
    <3> QED
      BY <3>2, <3>3
  <2>9. [ring.values EXCEPT ![at] = v] \in [Indices -> Storable]
    BY <1>1, <2>3
  <2> QED
    BY <1>3, <2>2, <2>4, <2>5, <2>8, <2>9 DEF RingInv
<1>7. CASE RingPop
  <2> DEFINE front == (h + 1) % N
  <2>1. n # 0 /\ line' = Tail(line)
    BY <1>7 DEF RingPop
  <2>2. ring' = [values |-> ring.values, head |-> front, len |-> n - 1]
    BY <1>7 DEF RingPop, RingInv
  <2>3. line # <<>>
    BY <1>1, <2>1
  <2>4. /\ line' \in Seq(Storable) /\ Len(line') = n - 1
        /\ \A i \in 1..n - 1 : line'[i] = line[i + 1]
    BY <1>1, <2>1, <2>3
  <2> HIDE DEF h, n
  <2>5. front = IF h + 1 < N THEN h + 1 ELSE h + 1 - N
    BY <1>2, <1>3, <1>4
  <2>6. front \in Nat /\ front < N
    BY <1>2, <1>3, <2>5
  <2> HIDE DEF front
  <2>7. ASSUME NEW i \in 1..n - 1 PROVE line'[i] = ring.values[(front + i - 1) % N]
    <3>1. /\ i + 1 \in 1..n /\ i - 1 \in Nat /\ i \in Nat /\ i <= N /\ i - 1 <= N
          /\ front + (i - 1) = front + i - 1 /\ (i + 1) - 1 = i
      BY <1>2, <1>3, <2>6
    <3>2. line'[i] = ring.values[(h + i) % N]
      BY <1>5, <2>4, <3>1
    <3>3. (h + i) % N = IF h + i < N THEN h + i ELSE h + i - N
      BY <1>4, <3>1
    <3>4. (front + (i - 1)) % N = IF front + (i - 1) < N THEN front + (i - 1) ELSE front + (i - 1) - N
      BY <1>2, <2>6, <3>1, Wrapped
    <3>5. (front + (i - 1)) % N = (h + i) % N
      BY <1>2, <1>3, <2>5, <3>1, <3>3, <3>4
    <3> QED
      BY <3>1, <3>2, <3>5
  <2>8. n - 1 \in 0..N
    BY <1>2, <1>3, <2>1
  <2> QED
    BY <1>1, <2>2, <2>4, <2>6, <2>7, <2>8 DEF RingInv
<1> QED
  BY <1>6, <1>7

(***************************************************************************)
(* FixedMap.                                                               *)
(***************************************************************************)

LEMMA MapEntries ==
    ASSUME MapInv
    PROVE  /\ N \in Nat /\ map.len \in Nat /\ map.len <= N /\ map.entries \in [Indices -> Entered]
           /\ map = [entries |-> map.entries, len |-> map.len]
           /\ \A i \in Indices : i \in Nat /\ i < N
           /\ \A i \in Indices : i < map.len =>
                 /\ map.entries[i] \in Keys \X Values /\ map.entries[i][1] \in Keys
                 /\ map.entries[i][2] \in Values
<1>1. /\ map.entries \in [Indices -> Entered]
      /\ map = [entries |-> map.entries, len |-> map.len]
  BY DEF MapInv
<1>2. N \in Nat /\ map.len \in Nat /\ map.len <= N
  BY StorageAssumption DEF MapInv
<1>3. \A i \in Indices : i \in Nat /\ i < N
  BY <1>2 DEF Indices
<1>4. ASSUME NEW i \in Indices, i < map.len
      PROVE  map.entries[i] \in Keys \X Values
  <2>1. map.entries[i] \in Entered /\ map.entries[i] # Empty
    BY <1>1, <1>4 DEF MapInv
  <2> QED
    BY <2>1 DEF Entered
<1> QED
  BY <1>1, <1>2, <1>3, <1>4

LEMMA MapInsertKeeps ==
    ASSUME MapInv, NEW k \in Keys, NEW v \in Values, MapInsert(k, v)
    PROVE  MapInv'
<1> DEFINE e2 == [map.entries EXCEPT ![map.len] = <<k, v>>]
<1>1. map.len \in Indices /\ map.len < N /\ map.len + 1 \in 0..N
  BY MapEntries DEF MapInsert, Indices
<1>2. map' = [entries |-> e2, len |-> map.len + 1]
  BY MapEntries, <1>1 DEF MapInsert
<1>3. e2 \in [Indices -> Entered]
  BY MapEntries, <1>1 DEF Entered
<1>4. <<k, v>> # Empty /\ <<k, v>>[1] = k /\ <<k, v>>[2] = v
  BY StorageAssumption
<1>5. /\ e2[map.len] = <<k, v>>
      /\ \A i \in Indices : i # map.len => e2[i] = map.entries[i]
  BY MapEntries, <1>1
<1> HIDE DEF e2
<1>6. map'.entries = e2 /\ map'.len = map.len + 1
  BY <1>2
<1>7. \A i \in Indices : i < map.len => map.entries[i][1] # k
  BY DEF MapInsert, Entries, MapInv
<1>8. k \notin DOMAIN table
  BY <1>7 DEF MapInv
<1>9. /\ DOMAIN table' = DOMAIN table \cup {k} /\ table'[k] = v
      /\ \A x \in DOMAIN table : x # k => table'[x] = table[x]
  BY DEF MapInsert, Insert
<1>10. IsFiniteSet(DOMAIN table') /\ Cardinality(DOMAIN table') = map.len + 1
  BY <1>8, <1>9, FS_AddElement DEF MapInv
<1>11. map' \in [entries : [Indices -> Entered], len : 0..N]
  BY <1>1, <1>2, <1>3
<1>12. ASSUME NEW i \in Indices PROVE e2[i] # Empty <=> i < map.len + 1
  <2>1. i \in Nat /\ map.len \in Nat
    BY MapEntries
  <2>2. CASE i = map.len
    <3>1. e2[i] # Empty
      BY <1>4, <1>5, <2>2, Zenon
    <3>2. i < map.len + 1
      BY <2>1, <2>2
    <3> QED
      BY <3>1, <3>2
  <2>3. CASE i # map.len
    <3>1. e2[i] # Empty <=> i < map.len
      BY <1>5, <2>3 DEF MapInv
    <3> QED
      BY <2>1, <2>3, <3>1
  <2> QED
    BY <2>2, <2>3
<1>13. \A i, j \in Indices : i < map.len + 1 /\ j < map.len + 1 /\ e2[i][1] = e2[j][1] => i = j
  <2> SUFFICES ASSUME NEW i \in Indices, NEW j \in Indices, i < map.len + 1, j < map.len + 1,
                      e2[i][1] = e2[j][1]
               PROVE  i = j
    OBVIOUS
  <2>1. /\ i < map.len \/ i = map.len
        /\ j < map.len \/ j = map.len
    BY MapEntries
  <2> QED
    BY MapEntries, <1>4, <1>5, <1>7, <2>1 DEF MapInv
<1>14. ASSUME NEW x \in DOMAIN table' PROVE \E i \in Indices : i < map.len + 1 /\ e2[i][1] = x
  <2>1. CASE x = k
    BY MapEntries, <1>1, <1>4, <1>5, <2>1
  <2>2. CASE x # k
    <3>1. PICK i \in Indices : i < map.len /\ map.entries[i][1] = x
      BY <1>9, <2>2 DEF MapInv
    <3>2. i # map.len /\ i < map.len + 1
      BY MapEntries, <3>1
    <3> QED
      BY <1>5, <3>1, <3>2
  <2> QED
    BY <2>1, <2>2
<1>15. ASSUME NEW i \in Indices, i < map.len + 1
       PROVE  e2[i][1] \in DOMAIN table' /\ table'[e2[i][1]] = e2[i][2]
  <2>1. CASE i = map.len
    BY <1>4, <1>5, <1>9, <2>1
  <2>2. CASE i # map.len
    <3>1. i < map.len /\ e2[i] = map.entries[i]
      BY MapEntries, <1>5, <1>15, <2>2
    <3>2. map.entries[i][1] \in DOMAIN table /\ map.entries[i][1] # k
      BY <1>7, <3>1 DEF MapInv
    <3> QED
      BY <1>9, <3>1, <3>2 DEF MapInv
  <2> QED
    BY <2>1, <2>2
<1> QED
  BY <1>6, <1>10, <1>11, <1>12, <1>13, <1>14, <1>15 DEF MapInv

LEMMA MapRemoveKeeps ==
    ASSUME MapInv, NEW k \in Keys, MapRemove(k)
    PROVE  MapInv'
<1>1. PICK index \in 0..map.len - 1 : /\ map.entries[index][1] = k
                                      /\ map' = WithoutIndex(index)
                                      /\ table' = Without(table, {k})
  BY DEF MapRemove
<1> DEFINE last == map.len - 1
<1> DEFINE moved == [map.entries EXCEPT ![index] = map.entries[last]]
<1> DEFINE e2 == [moved EXCEPT ![last] = Empty]
<1>2. /\ index \in Indices /\ last \in Indices /\ index <= last /\ last \in 0..N
      /\ index \in Nat /\ last \in Nat /\ last < N /\ map.len = last + 1
  BY MapEntries DEF Indices
<1>3. map' = [entries |-> e2, len |-> last]
  BY MapEntries, <1>1 DEF WithoutIndex
<1>4. e2 \in [Indices -> Entered]
  BY MapEntries, <1>2 DEF Entered
<1>5. /\ e2[last] = Empty
      /\ index # last => e2[index] = map.entries[last]
      /\ \A i \in Indices : i # last /\ i # index => e2[i] = map.entries[i]
  BY MapEntries, <1>2
<1> HIDE DEF e2, moved
<1>6. map'.entries = e2 /\ map'.len = last
  BY <1>3
<1>7. map' \in [entries : [Indices -> Entered], len : 0..N]
  BY <1>2, <1>3, <1>4
<1> HIDE DEF last
<1>8. /\ DOMAIN table' = DOMAIN table \ {k}
      /\ \A x \in DOMAIN table' : table'[x] = table[x]
  BY <1>1 DEF Without
<1>9. k \in DOMAIN table
  BY <1>1, <1>2 DEF MapInv
<1>10. IsFiniteSet(DOMAIN table') /\ Cardinality(DOMAIN table') = last
  <2>1. IsFiniteSet(DOMAIN table) /\ Cardinality(DOMAIN table) = map.len
    BY DEF MapInv
  <2>2. IsFiniteSet(DOMAIN table \ {k})
        /\ Cardinality(DOMAIN table \ {k}) = Cardinality(DOMAIN table) - 1
    BY <1>9, <2>1, FS_RemoveElement
  <2> QED
    BY <1>2, <1>8, <2>1, <2>2
<1>11. \A i \in Indices : e2[i] # Empty <=> i < last
  BY MapEntries, <1>2, <1>5 DEF MapInv
(* Where each entry that stays comes from. *)
<1>12. ASSUME NEW i \in Indices, i < last
       PROVE  \E j \in Indices : /\ j < map.len /\ j # index /\ e2[i] = map.entries[j]
                                 /\ j = IF i = index THEN last ELSE i
  BY MapEntries, <1>2, <1>5, <1>12
<1>13. ASSUME NEW i \in Indices, NEW j \in Indices, i < last, j < last, e2[i][1] = e2[j][1]
       PROVE  i = j
  <2>1. PICK p \in Indices : /\ p < map.len /\ e2[i] = map.entries[p]
                             /\ p = IF i = index THEN last ELSE i
    BY <1>12, <1>13
  <2>2. PICK q \in Indices : /\ q < map.len /\ e2[j] = map.entries[q]
                             /\ q = IF j = index THEN last ELSE j
    BY <1>12, <1>13
  <2>3. p = q
    BY <1>13, <2>1, <2>2 DEF MapInv
  <2> QED
    BY MapEntries, <1>2, <1>13, <2>1, <2>2, <2>3
<1>14. ASSUME NEW i \in Indices, i < last
       PROVE  e2[i][1] \in DOMAIN table' /\ table'[e2[i][1]] = e2[i][2]
  <2>1. PICK p \in Indices : p < map.len /\ p # index /\ e2[i] = map.entries[p]
    BY <1>12, <1>14
  <2>2. map.entries[p][1] # k
    BY <1>1, <1>2, <2>1, MapEntries DEF MapInv
  <2> QED
    BY <1>8, <2>1, <2>2 DEF MapInv
<1>15. ASSUME NEW x \in DOMAIN table' PROVE \E i \in Indices : i < last /\ e2[i][1] = x
  <2>1. PICK p \in Indices : p < map.len /\ map.entries[p][1] = x
    BY <1>8 DEF MapInv
  <2>2. p # index
    BY <1>1, <1>8, <2>1
  <2>3. CASE p = last
    BY <1>2, <1>5, <2>1, <2>2, <2>3
  <2>4. CASE p # last
    BY MapEntries, <1>2, <1>5, <2>1, <2>2, <2>4
  <2> QED
    BY <2>3, <2>4
<1> QED
  BY <1>6, <1>7, <1>10, <1>11, <1>13, <1>14, <1>15 DEF MapInv

(* What the first hit of a look-up is. *)
LEMMA MapGets ==
    ASSUME MapInv, NEW k \in Keys
    PROVE  MapGet(k) = IF k \in DOMAIN table THEN table[k] ELSE Empty
<1> DEFINE hits == {i \in Indices : map.entries[i] # Empty /\ map.entries[i][1] = k}
<1>1. CASE k \in DOMAIN table
  <2>1. PICK i \in Indices : i < map.len /\ map.entries[i][1] = k
    BY <1>1 DEF MapInv
  <2>2. hits = {i}
    BY <2>1 DEF MapInv
  <2>3. (CHOOSE x \in hits : \A y \in hits : x <= y) = i
    <3>1. i <= i
      BY MapEntries
    <3> QED
      BY <2>2, <3>1
  <2>4. MapGet(k) = map.entries[i][2]
    BY <2>2, <2>3 DEF MapGet
  <2> QED
    BY <1>1, <2>1, <2>4 DEF MapInv
<1>2. CASE k \notin DOMAIN table
  <2>1. hits = {}
    BY <1>2 DEF MapInv
  <2> QED
    BY <1>2, <2>1 DEF MapGet
<1> QED
  BY <1>1, <1>2

LEMMA StorageInductive == StorageInv /\ [StorageNext]_storageVars => StorageInv'
<1> SUFFICES ASSUME StorageInv, [StorageNext]_storageVars PROVE StorageInv'
  OBVIOUS
<1>2. ASSUME UNCHANGED vecVars PROVE VecInv'
  BY <1>2 DEF vecVars, VecInv, StorageInv
<1>3. ASSUME UNCHANGED ringVars PROVE RingInv'
  BY <1>3 DEF ringVars, RingInv, StorageInv
<1>4. ASSUME UNCHANGED mapVars PROVE MapInv'
  BY <1>4 DEF mapVars, MapInv, StorageInv
<1>5. ASSUME UNCHANGED onceVars PROVE (cell = once)'
  BY <1>5 DEF onceVars, StorageInv
<1>6. ASSUME NEW v, Initialize(v) PROVE (cell = once)'
  BY <1>6 DEF Initialize, StorageInv
<1>7. CASE UNCHANGED storageVars
  BY <1>2, <1>3, <1>4, <1>5, <1>7 DEF storageVars, StorageInv
<1>8. CASE StorageNext
  BY <1>2, <1>3, <1>4, <1>5, <1>6, <1>8, VecKeeps, RingKeeps, MapInsertKeeps, MapRemoveKeeps
     DEF StorageNext, StorageInv
<1> QED
  BY <1>7, <1>8

LEMMA StorageImplies == StorageInv => ContentPreserving
<1> SUFFICES ASSUME StorageInv PROVE ContentPreserving
  OBVIOUS
<1>1. stack = [i \in 1..vec.len |-> vec.values[i - 1]]
  BY DEF StorageInv, VecInv
<1>2. line = [i \in 1..ring.len |-> ring.values[(ring.head + i - 1) % N]]
  BY DEF StorageInv, RingInv
<1>3. /\ \A k \in Keys : MapGet(k) = IF k \in DOMAIN table THEN table[k] ELSE Empty
      /\ map.len = Cardinality(DOMAIN table)
  BY MapGets DEF StorageInv, MapInv
<1> QED
  BY <1>1, <1>2, <1>3 DEF StorageInv, ContentPreserving

(***************************************************************************)
(* The atomic event log.  What is said of a trace takes it as a parameter, *)
(* so that it can be said of the trace before and after a step.            *)
(***************************************************************************)

EventRecords ==
    [id : Nat \ {0}, cpu : AtomicCpus, cell : Cells \cup {0},
     kind : {"Store", "Load", "ReadModifyWrite", "Fence"}, ordering : Orderings,
     readsFrom : Nat, modification : Nat, sc : Nat, after : Nat]
CellRecords == [modification : Nat, lastWrite : Nat, lastOrdering : Orderings]

AtomicTypeOK ==
    /\ log \in Seq(EventRecords)
    /\ nextEvent \in Nat \ {0} /\ nextSc \in Nat \ {0}
    /\ DOMAIN cells \subseteq Cells /\ \A c \in DOMAIN cells : cells[c] \in CellRecords

(* Ids and SC indices grow along the trace and stay below the next ones. *)
EventsDated ==
    /\ \A i \in 1..Len(log) : log[i].id < nextEvent /\ log[i].sc < nextSc
    /\ \A i, j \in 1..Len(log) : i < j =>
          /\ log[i].id < log[j].id
          /\ log[i].sc # 0 /\ log[j].sc # 0 => log[i].sc < log[j].sc

WriteIn(trace, i, c) == trace[i].cell = c /\ trace[i].modification # 0

(* id is that of the last write of the cell among the first n events, or 0. *)
LastIn(trace, c, n, id) ==
    \/ id = 0 /\ \A k \in 1..n : ~WriteIn(trace, k, c)
    \/ \E j \in 1..n : /\ WriteIn(trace, j, c) /\ trace[j].id = id
                       /\ \A k \in 1..n : WriteIn(trace, k, c) => k <= j

(* A cell knows its last write and that one's ordering, and has counted all. *)
Knows(trace, c, cellRecord) ==
    /\ LastIn(trace, c, Len(trace), cellRecord.lastWrite)
    /\ \A j \in 1..Len(trace) :
          /\ trace[j].id = cellRecord.lastWrite => trace[j].ordering = cellRecord.lastOrdering
          /\ WriteIn(trace, j, c) => trace[j].modification <= cellRecord.modification
CellsKnow ==
    /\ \A c \in DOMAIN cells : cells[c].lastWrite < nextEvent /\ Knows(log, c, cells[c])
    /\ \A j \in 1..Len(log), c \in Cells : WriteIn(log, j, c) => c \in DOMAIN cells

WritesNumbered ==
    \A i, j \in 1..Len(log), c \in Cells :
        i < j /\ WriteIn(log, i, c) /\ WriteIn(log, j, c)
           => log[i].modification < log[j].modification

(* What a read says of the trace of the first n events. *)
Reads == {"Load", "ReadModifyWrite"}
Lost(trace, n, read) == read.kind = "ReadModifyWrite" /\ (n = 0 \/ ~WriteIn(trace, n, read.cell))
Traced(trace, n, read) ==
    /\ read.readsFrom < read.id /\ read.after < read.id
    /\ IF Lost(trace, n, read) THEN read.readsFrom = 0 ELSE LastIn(trace, read.cell, n, read.readsFrom)
    /\ \A j \in 1..n : Synchronizes(trace[j], read) <=> read.after = trace[j].id
ReadsAreTraced ==
    \A i \in 1..Len(log) : log[i].kind \in Reads => Traced(log, i - 1, log[i])

AtomicInv == AtomicTypeOK /\ EventsDated /\ CellsKnow /\ WritesNumbered /\ ReadsAreTraced

LEMMA AtomicInitial == AtomicInit => AtomicInv
BY DEF AtomicInit, AtomicInv, AtomicTypeOK, EventsDated, CellsKnow, WritesNumbered, ReadsAreTraced

(* The fields of an event, and of a cell. *)
LEMMA EventFields ==
    ASSUME AtomicTypeOK
    PROVE  /\ Len(log) \in Nat /\ DOMAIN log = 1..Len(log)
           /\ \A i \in 1..Len(log) :
                /\ log[i].id \in Nat /\ log[i].id # 0 /\ log[i].sc \in Nat
                /\ log[i].modification \in Nat /\ log[i].readsFrom \in Nat
                /\ log[i].after \in Nat
           /\ nextEvent \in Nat /\ nextEvent # 0 /\ nextSc \in Nat /\ nextSc # 0
           /\ \A c \in DOMAIN cells : /\ cells[c].modification \in Nat
                                      /\ cells[c].lastWrite \in Nat
                                      /\ cells[c].lastOrdering \in Orderings
<1>1. \A i \in 1..Len(log) : log[i] \in EventRecords
  BY DEF AtomicTypeOK
<1>2. \A e \in EventRecords : /\ e.id \in Nat /\ e.id # 0 /\ e.sc \in Nat /\ e.modification \in Nat
                              /\ e.readsFrom \in Nat /\ e.after \in Nat
  BY DEF EventRecords
<1> QED
  BY <1>1, <1>2 DEF AtomicTypeOK, CellRecords

(* An event was appended with the next id, and the next SC index if it has one. *)
Logged(e) ==
    /\ e \in EventRecords /\ log' = Append(log, e)
    /\ e.id = nextEvent /\ nextEvent' = nextEvent + 1
    /\ \/ e.sc = 0 /\ nextSc' = nextSc
       \/ e.sc = nextSc /\ nextSc' = nextSc + 1

LEMMA LogGrows ==
    ASSUME AtomicTypeOK, NEW e, Logged(e)
    PROVE  /\ Len(log) \in Nat
           /\ Len(log') = Len(log) + 1 /\ log'[Len(log) + 1] = e
           /\ \A i \in 1..Len(log) : log'[i] = log[i]
BY DEF AtomicTypeOK, Logged

LEMMA DatedStays ==
    ASSUME AtomicInv, NEW e, Logged(e)
    PROVE  EventsDated'
<1> USE DEF AtomicInv
<1>1. /\ Len(log) \in Nat /\ Len(log') = Len(log) + 1 /\ log'[Len(log) + 1] = e
      /\ \A i \in 1..Len(log) : log'[i] = log[i]
  BY LogGrows
<1>2. e.id = nextEvent /\ nextEvent' = nextEvent + 1 /\ nextEvent \in Nat /\ nextSc \in Nat
  BY EventFields DEF Logged
<1>3. \/ e.sc = 0 /\ nextSc' = nextSc
      \/ e.sc = nextSc /\ nextSc' = nextSc + 1
  BY DEF Logged
<1>4. nextSc # 0
  BY EventFields
<1>5. ASSUME NEW i \in 1..Len(log') PROVE log'[i].id < nextEvent' /\ log'[i].sc < nextSc'
  <2>1. CASE i = Len(log) + 1
    BY <1>1, <1>2, <1>3, <1>4, <2>1
  <2>2. CASE i # Len(log) + 1
    <3>1. i \in 1..Len(log) /\ log'[i] = log[i]
      BY <1>1, <2>2
    <3>2. log[i].id < nextEvent /\ log[i].sc < nextSc /\ log[i].id \in Nat /\ log[i].sc \in Nat
      BY <3>1, EventFields DEF EventsDated
    <3> QED
      BY <1>2, <1>3, <3>1, <3>2
  <2> QED
    BY <2>1, <2>2
<1>6. ASSUME NEW i \in 1..Len(log'), NEW j \in 1..Len(log'), i < j
      PROVE  /\ log'[i].id < log'[j].id
             /\ log'[i].sc # 0 /\ log'[j].sc # 0 => log'[i].sc < log'[j].sc
  <2>1. i \in 1..Len(log) /\ log'[i] = log[i]
    BY <1>1, <1>6
  <2>2. CASE j \in 1..Len(log)
    BY <1>1, <1>6, <2>1, <2>2 DEF EventsDated
  <2>3. CASE j = Len(log) + 1
    <3>1. log[i].id < nextEvent /\ log[i].sc < nextSc
      BY <2>1 DEF EventsDated
    <3> QED
      BY <1>1, <1>2, <1>3, <2>1, <2>3, <3>1
  <2> QED
    BY <1>1, <2>2, <2>3
<1> QED
  BY <1>5, <1>6 DEF EventsDated

(* What is known of the first events stays known. *)
LEMMA LastStays ==
    ASSUME NEW s, NEW t, NEW n, \A k \in 1..n : s[k] = t[k],
           NEW c, NEW id, LastIn(s, c, n, id)
    PROVE  LastIn(t, c, n, id)
<1>1. \A k \in 1..n : WriteIn(s, k, c) <=> WriteIn(t, k, c)
  BY DEF WriteIn
<1> QED
  BY <1>1 DEF LastIn

(* The reads of the trace stay traced whatever is logged after them; a new read
   must be traced itself. *)
LEMMA ReadsStay ==
    ASSUME AtomicInv, NEW e, Logged(e), e.kind \in Reads => Traced(log, Len(log), e)
    PROVE  ReadsAreTraced'
<1> USE DEF AtomicInv
<1>1. /\ Len(log) \in Nat /\ Len(log') = Len(log) + 1 /\ log'[Len(log) + 1] = e
      /\ \A i \in 1..Len(log) : log'[i] = log[i]
  BY LogGrows
<1>2. ASSUME NEW n \in 0..Len(log), NEW read, Traced(log, n, read) PROVE Traced(log', n, read)
  <2>1. \A k \in 1..n : log[k] = log'[k]
    BY <1>1
  <2>2. Lost(log', n, read) <=> Lost(log, n, read)
    <3>1. n = 0 \/ n \in 1..n
      BY <1>1
    <3> QED
      BY <2>1, <3>1 DEF Lost, WriteIn
  <2>3. LastIn(log, read.cell, n, read.readsFrom) => LastIn(log', read.cell, n, read.readsFrom)
    BY <2>1, LastStays
  <2> QED
    BY <1>2, <2>1, <2>2, <2>3 DEF Traced
<1> SUFFICES ASSUME NEW i \in 1..Len(log'), log'[i].kind \in Reads
             PROVE  Traced(log', i - 1, log'[i])
  BY DEF ReadsAreTraced
<1>3. CASE i \in 1..Len(log)
  <2>1. log'[i] = log[i] /\ i - 1 \in 0..Len(log)
    BY <1>1, <1>3
  <2>2. Traced(log, i - 1, log[i])
    BY <1>3, <2>1 DEF ReadsAreTraced
  <2> QED
    BY <1>2, <2>1, <2>2
<1>4. CASE i = Len(log) + 1
  <2>1. log'[i] = e /\ i - 1 = Len(log) /\ i - 1 \in 0..Len(log)
    BY <1>1, <1>4
  <2> QED
    BY <1>2, <2>1
<1> QED
  BY <1>1, <1>3, <1>4

(* An event that writes nothing leaves what the cells know. *)
LEMMA ReadsKeepCells ==
    ASSUME AtomicInv, NEW e, Logged(e), e.modification = 0, cells' = cells
    PROVE  CellsKnow' /\ WritesNumbered'
<1> USE DEF AtomicInv
<1>1. /\ Len(log) \in Nat /\ Len(log') = Len(log) + 1 /\ log'[Len(log) + 1] = e
      /\ \A i \in 1..Len(log) : log'[i] = log[i]
  BY LogGrows
<1>2. e.id = nextEvent /\ nextEvent' = nextEvent + 1 /\ nextEvent \in Nat
  BY EventFields DEF Logged
<1>3. /\ \A c : ~WriteIn(log', Len(log) + 1, c)
  BY <1>1 DEF WriteIn
<1>4. \A c : \A k \in 1..Len(log) : WriteIn(log', k, c) <=> WriteIn(log, k, c)
  BY <1>1 DEF WriteIn
<1>5. \A i \in 1..Len(log') : i \in 1..Len(log) \/ i = Len(log) + 1
  BY <1>1
<1>6. ASSUME NEW c \in DOMAIN cells PROVE cells[c].lastWrite < nextEvent' /\ Knows(log', c, cells[c])
  <2>1. /\ Knows(log, c, cells[c]) /\ cells[c].lastWrite < nextEvent /\ cells[c].lastWrite \in Nat
    BY EventFields DEF CellsKnow
  <2>2. LastIn(log', c, Len(log'), cells[c].lastWrite)
    <3>1. LastIn(log, c, Len(log), cells[c].lastWrite)
      BY <2>1 DEF Knows
    <3>2. CASE cells[c].lastWrite = 0 /\ \A k \in 1..Len(log) : ~WriteIn(log, k, c)
      BY <1>3, <1>4, <1>5, <3>2 DEF LastIn
    <3>3. ASSUME NEW j \in 1..Len(log), WriteIn(log, j, c), log[j].id = cells[c].lastWrite,
                 \A k \in 1..Len(log) : WriteIn(log, k, c) => k <= j
          PROVE  LastIn(log', c, Len(log'), cells[c].lastWrite)
      <4>1. j \in 1..Len(log') /\ WriteIn(log', j, c) /\ log'[j].id = cells[c].lastWrite
        BY <1>1, <1>4, <3>3
      <4>2. \A k \in 1..Len(log') : WriteIn(log', k, c) => k <= j
        BY <1>3, <1>4, <1>5, <3>3
      <4> QED
        BY <4>1, <4>2 DEF LastIn
    <3> QED
      BY <3>1, <3>2, <3>3 DEF LastIn
  <2>3. ASSUME NEW j \in 1..Len(log')
        PROVE  /\ log'[j].id = cells[c].lastWrite => log'[j].ordering = cells[c].lastOrdering
               /\ WriteIn(log', j, c) => log'[j].modification <= cells[c].modification
    <3>1. CASE j \in 1..Len(log)
      BY <1>1, <1>4, <2>1, <3>1 DEF Knows
    <3>2. CASE j = Len(log) + 1
      BY <1>1, <1>2, <1>3, <2>1, <3>2
    <3> QED
      BY <1>5, <3>1, <3>2
  <2> QED
    BY <1>2, <2>1, <2>2, <2>3 DEF Knows
<1>7. \A j \in 1..Len(log'), c \in Cells : WriteIn(log', j, c) => c \in DOMAIN cells
  BY <1>3, <1>4, <1>5 DEF CellsKnow
<1>8. WritesNumbered'
  <2> SUFFICES ASSUME NEW i \in 1..Len(log'), NEW j \in 1..Len(log'), NEW c \in Cells,
                      i < j, WriteIn(log', i, c), WriteIn(log', j, c)
               PROVE  log'[i].modification < log'[j].modification
    BY DEF WritesNumbered
  <2>1. /\ i \in 1..Len(log) /\ j \in 1..Len(log)
        /\ WriteIn(log, i, c) /\ WriteIn(log, j, c)
    BY <1>3, <1>4, <1>5
  <2> QED
    BY <1>1, <2>1 DEF WritesNumbered
<1> QED
  BY <1>6, <1>7, <1>8 DEF CellsKnow

(* A write of a known cell: the cell knows of it. *)
LEMMA WritesKeepCells ==
    ASSUME AtomicInv, NEW e, Logged(e), NEW loc \in DOMAIN cells, NEW ordering \in Orderings,
           e.cell = loc, e.ordering = ordering,
           e.modification = cells[loc].modification + 1, cells' = Written(loc, ordering)
    PROVE  CellsKnow' /\ WritesNumbered'
<1> USE DEF AtomicInv
<1>1. /\ Len(log) \in Nat /\ Len(log') = Len(log) + 1 /\ log'[Len(log) + 1] = e
      /\ \A i \in 1..Len(log) : log'[i] = log[i]
  BY LogGrows
<1>2. /\ e.id = nextEvent /\ nextEvent' = nextEvent + 1 /\ nextEvent \in Nat
      /\ cells[loc].modification \in Nat
  BY EventFields DEF Logged
<1>3. /\ DOMAIN cells' = DOMAIN cells
      /\ cells'[loc].lastWrite = e.id /\ cells'[loc].lastOrdering = ordering
      /\ cells'[loc].modification = cells[loc].modification + 1
      /\ \A c \in DOMAIN cells : c # loc => cells'[c] = cells[c]
  BY <1>2 DEF Written
<1>4. \A c : \A k \in 1..Len(log) : WriteIn(log', k, c) <=> WriteIn(log, k, c)
  BY <1>1 DEF WriteIn
<1>5. \A c : WriteIn(log', Len(log) + 1, c) <=> c = loc
  BY <1>1, <1>2 DEF WriteIn
<1>6. \A i \in 1..Len(log') : i \in 1..Len(log) \/ i = Len(log) + 1
  BY <1>1
<1>7. cells'[loc].lastWrite < nextEvent' /\ Knows(log', loc, cells'[loc])
  <2>1. LastIn(log', loc, Len(log'), cells'[loc].lastWrite)
    <3>1. Len(log) + 1 \in 1..Len(log') /\ \A k \in 1..Len(log') : k <= Len(log) + 1
      BY <1>1
    <3> QED
      BY <1>1, <1>3, <1>5, <3>1 DEF LastIn
  <2>2. ASSUME NEW j \in 1..Len(log')
        PROVE  /\ log'[j].id = cells'[loc].lastWrite => log'[j].ordering = cells'[loc].lastOrdering
               /\ WriteIn(log', j, loc) => log'[j].modification <= cells'[loc].modification
    <3>1. CASE j \in 1..Len(log)
      <4>1. log[j].id < nextEvent /\ log[j].id \in Nat /\ log[j].modification \in Nat
        BY <3>1, EventFields DEF EventsDated
      <4>2. log'[j].id # e.id
        BY <1>1, <1>2, <3>1, <4>1
      <4>3. WriteIn(log', j, loc) => log'[j].modification <= cells[loc].modification
        BY <1>1, <1>4, <3>1 DEF CellsKnow, Knows
      <4> QED
        BY <1>1, <1>2, <1>3, <3>1, <4>1, <4>2, <4>3
    <3>2. CASE j = Len(log) + 1
      BY <1>1, <1>2, <1>3, <3>2
    <3> QED
      BY <1>6, <3>1, <3>2
  <2> QED
    BY <1>2, <1>3, <2>1, <2>2 DEF Knows
<1>8. ASSUME NEW c \in DOMAIN cells, c # loc
      PROVE  cells[c].lastWrite < nextEvent' /\ Knows(log', c, cells[c])
  <2>1. /\ Knows(log, c, cells[c]) /\ cells[c].lastWrite < nextEvent /\ cells[c].lastWrite \in Nat
        /\ ~WriteIn(log', Len(log) + 1, c)
    BY <1>5, <1>8, EventFields DEF CellsKnow
  <2>2. LastIn(log', c, Len(log'), cells[c].lastWrite)
    <3>1. LastIn(log, c, Len(log), cells[c].lastWrite)
      BY <2>1 DEF Knows
    <3>2. CASE cells[c].lastWrite = 0 /\ \A k \in 1..Len(log) : ~WriteIn(log, k, c)
      BY <1>4, <1>6, <2>1, <3>2 DEF LastIn
    <3>3. ASSUME NEW j \in 1..Len(log), WriteIn(log, j, c), log[j].id = cells[c].lastWrite,
                 \A k \in 1..Len(log) : WriteIn(log, k, c) => k <= j
          PROVE  LastIn(log', c, Len(log'), cells[c].lastWrite)
      <4>1. j \in 1..Len(log') /\ WriteIn(log', j, c) /\ log'[j].id = cells[c].lastWrite
        BY <1>1, <1>4, <3>3
      <4>2. \A k \in 1..Len(log') : WriteIn(log', k, c) => k <= j
        BY <1>4, <1>6, <2>1, <3>3
      <4> QED
        BY <4>1, <4>2 DEF LastIn
    <3> QED
      BY <3>1, <3>2, <3>3 DEF LastIn
  <2>3. ASSUME NEW j \in 1..Len(log')
        PROVE  /\ log'[j].id = cells[c].lastWrite => log'[j].ordering = cells[c].lastOrdering
               /\ WriteIn(log', j, c) => log'[j].modification <= cells[c].modification
    <3>1. CASE j \in 1..Len(log)
      BY <1>1, <1>4, <2>1, <3>1 DEF Knows
    <3>2. CASE j = Len(log) + 1
      BY <1>1, <1>2, <2>1, <3>2
    <3> QED
      BY <1>6, <3>1, <3>2
  <2> QED
    BY <1>2, <2>1, <2>2, <2>3 DEF Knows
<1>9. \A j \in 1..Len(log'), c \in Cells : WriteIn(log', j, c) => c \in DOMAIN cells'
  BY <1>3, <1>4, <1>5, <1>6 DEF CellsKnow
<1>10. WritesNumbered'
  <2> SUFFICES ASSUME NEW i \in 1..Len(log'), NEW j \in 1..Len(log'), NEW c \in Cells,
                      i < j, WriteIn(log', i, c), WriteIn(log', j, c)
               PROVE  log'[i].modification < log'[j].modification
    BY DEF WritesNumbered
  <2>1. i \in 1..Len(log) /\ WriteIn(log, i, c) /\ log'[i] = log[i]
    BY <1>1, <1>4
  <2>2. CASE j \in 1..Len(log)
    BY <1>1, <1>4, <2>1, <2>2 DEF WritesNumbered
  <2>3. CASE j = Len(log) + 1
    <3>1. c = loc /\ log[i].modification <= cells[loc].modification /\ log[i].modification \in Nat
      BY <1>5, <2>1, <2>3, EventFields DEF CellsKnow, Knows
    <3> QED
      BY <1>1, <1>2, <2>1, <2>3, <3>1
  <2> QED
    BY <1>6, <2>2, <2>3
<1> QED
  BY <1>3, <1>7, <1>8, <1>9, <1>10 DEF CellsKnow

(* What the four operations log. *)
LEMMA EventIsLogged ==
    ASSUME AtomicTypeOK, NEW cpu \in AtomicCpus, NEW loc \in Cells \cup {0},
           NEW kind \in {"Store", "Load", "ReadModifyWrite", "Fence"}, NEW ordering \in Orderings,
           NEW readsFrom \in Nat, NEW modification \in Nat, NEW after \in Nat,
           TakeIds(ordering),
           log' = Append(log, Event(cpu, loc, kind, ordering, readsFrom, modification, after))
    PROVE  /\ Logged(Event(cpu, loc, kind, ordering, readsFrom, modification, after))
           /\ LET e == Event(cpu, loc, kind, ordering, readsFrom, modification, after)
              IN /\ e.cell = loc /\ e.kind = kind /\ e.ordering = ordering /\ e.id = nextEvent
                 /\ e.readsFrom = readsFrom /\ e.modification = modification /\ e.after = after
BY EventFields DEF Logged, Event, EventRecords, TakeIds, ScIndex

LEMMA TypesStay ==
    ASSUME AtomicTypeOK, NEW e, Logged(e),
           \/ cells' = cells
           \/ \E loc \in DOMAIN cells, o \in Orderings : cells' = Written(loc, o)
    PROVE  AtomicTypeOK'
<1>1. log' \in Seq(EventRecords) /\ nextEvent' \in Nat \ {0} /\ nextSc' \in Nat \ {0}
  BY DEF AtomicTypeOK, Logged
<1>2. ASSUME NEW loc \in DOMAIN cells, NEW o \in Orderings, cells' = Written(loc, o)
      PROVE  DOMAIN cells' = DOMAIN cells /\ \A c \in DOMAIN cells' : cells'[c] \in CellRecords
  <2> DEFINE new == [modification |-> cells[loc].modification + 1, lastWrite |-> nextEvent,
                     lastOrdering |-> o]
  <2>1. new \in CellRecords
    BY EventFields DEF CellRecords
  <2>2. cells' = [cells EXCEPT ![loc] = new]
    BY <1>2 DEF Written
  <2> HIDE DEF new
  <2> QED
    BY <2>1, <2>2 DEF AtomicTypeOK
<1> QED
  BY <1>1, <1>2 DEF AtomicTypeOK

LEMMA AtomicInductive == AtomicInv /\ [AtomicNext]_atomicVars => AtomicInv'
<1> SUFFICES ASSUME AtomicInv, [AtomicNext]_atomicVars PROVE AtomicInv'
  OBVIOUS
<1> USE DEF AtomicInv
<1>1. ASSUME NEW e, Logged(e), e.modification = 0, cells' = cells,
             e.kind \in Reads => Traced(log, Len(log), e)
      PROVE  AtomicInv'
  BY <1>1, TypesStay, DatedStays, ReadsStay, ReadsKeepCells
<1>2. ASSUME NEW e, Logged(e), e.kind \in Reads => Traced(log, Len(log), e), NEW loc \in DOMAIN cells,
             NEW ordering \in Orderings, e.cell = loc, e.ordering = ordering,
             e.modification = cells[loc].modification + 1, cells' = Written(loc, ordering)
      PROVE  AtomicInv'
  BY <1>2, TypesStay, DatedStays, ReadsStay, WritesKeepCells
<1>3. ASSUME NEW cpu \in AtomicCpus, NEW ordering \in Orderings, Fence(cpu, ordering)
      PROVE  AtomicInv'
  <2> DEFINE e == Event(cpu, 0, "Fence", ordering, 0, 0, 0)
  <2>1. Logged(e) /\ e.kind = "Fence" /\ e.modification = 0
    BY <1>3, EventIsLogged DEF Fence
  <2>2. cells' = cells
    BY <1>3 DEF Fence
  <2> HIDE DEF e
  <2>3. e.kind \notin Reads
    BY <2>1 DEF Reads
  <2> QED
    BY <1>1, <2>1, <2>2, <2>3
<1>4. ASSUME NEW cpu \in AtomicCpus, NEW ordering \in Orderings, NEW loc \in Cells,
             StoreCell(cpu, loc, ordering)
      PROVE  AtomicInv'
  <2>1. CASE loc \in DOMAIN cells
    <3> DEFINE m == cells[loc].modification + 1
    <3> DEFINE e == Event(cpu, loc, "Store", ordering, 0, m, 0)
    <3>1. m \in Nat
      BY <2>1, EventFields
    <3>2. TakeIds(ordering) /\ log' = Append(log, e) /\ cells' = Written(loc, ordering)
      BY <1>4, <2>1 DEF StoreCell
    <3> HIDE DEF m
    <3>3. /\ Logged(e) /\ e.kind = "Store" /\ e.modification = m /\ e.cell = loc
          /\ e.ordering = ordering
      BY <3>1, <3>2, EventIsLogged
    <3> HIDE DEF e
    <3>4. e.kind \notin Reads
      BY <3>3 DEF Reads
    <3> QED
      BY <1>2, <2>1, <3>2, <3>3, <3>4 DEF m
  <2>2. CASE loc \notin DOMAIN cells
    <3>1. cells' = cells /\ log' = log /\ TakeIds(ordering)
      BY <1>4, <2>2 DEF StoreCell
    <3>2. /\ nextEvent' \in Nat \ {0} /\ nextEvent < nextEvent' /\ nextSc' \in Nat \ {0}
          /\ nextSc <= nextSc' /\ nextEvent \in Nat /\ nextSc \in Nat
      BY <3>1, EventFields DEF TakeIds
    <3>3. AtomicTypeOK' /\ WritesNumbered' /\ ReadsAreTraced'
      BY <3>1, <3>2 DEF AtomicTypeOK, WritesNumbered, ReadsAreTraced
    <3>4. EventsDated'
      BY <3>1, <3>2, EventFields DEF EventsDated
    <3>5. CellsKnow'
      BY <3>1, <3>2, EventFields DEF CellsKnow
    <3> QED
      BY <3>3, <3>4, <3>5
  <2> QED
    BY <2>1, <2>2
<1>5. ASSUME NEW cpu \in AtomicCpus, NEW ordering \in Orderings, NEW loc \in Cells,
             FetchAddCell(cpu, loc, ordering)
      PROVE  AtomicInv'
  <2> DEFINE m == cells[loc].modification + 1
  <2> DEFINE prior == PriorEvent(loc)
  <2> DEFINE after == IF ordering \in Acquires /\ prior # 0 /\ OrderingOf(prior) \in Releases
                      THEN prior ELSE 0
  <2> DEFINE e == Event(cpu, loc, "ReadModifyWrite", ordering, prior, m, after)
  <2>1. loc \in DOMAIN cells
    BY <1>5 DEF FetchAddCell
  <2>2. m \in Nat
    BY <2>1, EventFields
  <2>3. \/ prior = 0 /\ (Len(log) = 0 \/ ~WriteIn(log, Len(log), loc))
        \/ Len(log) \in 1..Len(log) /\ WriteIn(log, Len(log), loc) /\ prior = log[Len(log)].id
    <3>1. CASE log = <<>>
      BY <3>1 DEF PriorEvent
    <3>2. CASE log # <<>>
      <4>1. Len(log) \in 1..Len(log)
        BY <3>2 DEF AtomicTypeOK
      <4> QED
        BY <3>2, <4>1 DEF PriorEvent, WriteIn
    <3> QED
      BY <3>1, <3>2
  <2>7. prior \in Nat /\ prior < nextEvent
    BY <2>3, EventFields DEF EventsDated
  <2>8. ASSUME NEW j \in 1..Len(log), prior = log[j].id PROVE OrderingOf(prior) = log[j].ordering
    <3>1. \A i \in 1..Len(log) : log[i].id = log[j].id => i = j
      BY EventFields DEF EventsDated
    <3>2. {log[i] : i \in DOMAIN log} = {log[i] : i \in 1..Len(log)}
      BY EventFields
    <3> QED
      BY <2>8, <3>1, <3>2 DEF OrderingOf
  <2>4. TakeIds(ordering) /\ log' = Append(log, e) /\ cells' = Written(loc, ordering)
    BY <1>5 DEF FetchAddCell
  <2>5. after \in Nat /\ after < nextEvent
    BY <2>7, EventFields
  <2> HIDE DEF m, prior, after
  <2>6. /\ Logged(e) /\ e.kind = "ReadModifyWrite" /\ e.modification = m /\ e.cell = loc
        /\ e.ordering = ordering /\ e.readsFrom = prior /\ e.after = after /\ e.id = nextEvent
    BY <2>2, <2>7, <2>4, <2>5, EventIsLogged
  <2> HIDE DEF e
  <2>9. ASSUME NEW j \in 1..Len(log) PROVE Synchronizes(log[j], e) <=> after = log[j].id
    <3>1. log[j].id # 0
      BY EventFields
    <3> QED
      BY <2>6, <2>8, <3>1 DEF Synchronizes, after
  <2>10. IF Lost(log, Len(log), e) THEN e.readsFrom = 0 ELSE LastIn(log, e.cell, Len(log), e.readsFrom)
    <3>1. CASE prior = 0 /\ (Len(log) = 0 \/ ~WriteIn(log, Len(log), loc))
      BY <2>6, <3>1 DEF Lost
    <3>2. CASE Len(log) \in 1..Len(log) /\ WriteIn(log, Len(log), loc) /\ prior = log[Len(log)].id
      <4>1. Len(log) # 0 /\ \A k \in 1..Len(log) : k <= Len(log)
        BY <3>2, EventFields
      <4> QED
        BY <2>6, <3>2, <4>1 DEF Lost, LastIn
    <3> QED
      BY <2>3, <3>1, <3>2
  <2>11. Traced(log, Len(log), e)
    BY <2>5, <2>6, <2>7, <2>9, <2>10 DEF Traced
  <2> QED
    BY <1>2, <2>1, <2>4, <2>6, <2>11 DEF m
<1>6. ASSUME NEW cpu \in AtomicCpus, NEW ordering \in Orderings, NEW loc \in Cells,
             LoadCell(cpu, loc, ordering)
      PROVE  AtomicInv'
  <2> DEFINE w == cells[loc].lastWrite
  <2> DEFINE after == IF ordering \in Acquires /\ cells[loc].lastOrdering \in Releases
                      THEN w ELSE 0
  <2> DEFINE e == Event(cpu, loc, "Load", ordering, w, 0, after)
  <2>1. loc \in DOMAIN cells /\ cells' = cells /\ TakeIds(ordering) /\ log' = Append(log, e)
    BY <1>6 DEF LoadCell
  <2>2. /\ w \in Nat /\ w < nextEvent /\ Knows(log, loc, cells[loc])
        /\ nextEvent \in Nat /\ nextEvent # 0
    BY <2>1, EventFields DEF CellsKnow
  <2>3. after \in Nat /\ after < nextEvent
    BY <2>2
  <2>4. /\ Logged(e) /\ e.kind = "Load" /\ e.modification = 0 /\ e.cell = loc
        /\ e.ordering = ordering /\ e.readsFrom = w /\ e.after = after /\ e.id = nextEvent
    <3> HIDE DEF w, after
    <3> QED
      BY <2>1, <2>2, <2>3, EventIsLogged
  <2>5. Traced(log, Len(log), e)
    <3>1. LastIn(log, loc, Len(log), w)
      BY <2>2 DEF Knows
    <3>2. ASSUME NEW j \in 1..Len(log)
          PROVE  Synchronizes(log[j], e) <=> after = log[j].id
      <4>1. log[j].id # 0
        BY EventFields
      <4>2. log[j].id = w => log[j].ordering = cells[loc].lastOrdering
        BY <2>2 DEF Knows
      <4> HIDE DEF e
      <4> QED
        BY <2>4, <4>1, <4>2 DEF Synchronizes
    <3> HIDE DEF e, w, after
    <3>3. ~Lost(log, Len(log), e)
      BY <2>4 DEF Lost
    <3> QED
      BY <2>2, <2>3, <2>4, <3>1, <3>2, <3>3 DEF Traced
  <2> HIDE DEF e
  <2> QED
    BY <1>1, <2>1, <2>4, <2>5
<1>7. ASSUME NEW loc \in Cells, loc \notin DOMAIN cells, RegisterCell(loc) PROVE AtomicInv'
  <2>1. /\ UNCHANGED <<log, nextEvent, nextSc>> /\ DOMAIN cells' = DOMAIN cells \cup {loc}
        /\ cells'[loc] = NoWrite /\ \A c \in DOMAIN cells : cells'[c] = cells[c]
    BY <1>7 DEF RegisterCell, Insert
  <2>2. /\ NoWrite \in CellRecords /\ NoWrite.lastWrite = 0
    BY DEF NoWrite, CellRecords, Orderings
  <2>3. AtomicTypeOK' /\ EventsDated' /\ WritesNumbered' /\ ReadsAreTraced'
    BY <1>7, <2>1, <2>2 DEF AtomicTypeOK, EventsDated, WritesNumbered, ReadsAreTraced
  <2>4. \A j \in 1..Len(log) : ~WriteIn(log, j, loc) /\ log[j].id # 0
    BY <1>7, EventFields DEF CellsKnow
  <2>5. Knows(log, loc, NoWrite) /\ 0 < nextEvent
    BY <2>2, <2>4, EventFields DEF Knows, LastIn
  <2>6. CellsKnow'
    BY <2>1, <2>2, <2>5 DEF CellsKnow
  <2> QED
    BY <2>3, <2>6
<1>8. CASE UNCHANGED atomicVars
  BY <1>8 DEF atomicVars, AtomicTypeOK, EventsDated, CellsKnow, WritesNumbered, ReadsAreTraced
<1> QED
  BY <1>3, <1>4, <1>5, <1>6, <1>7, <1>8 DEF AtomicNext

LEMMA AtomicImplies == AtomicInv => ReadsTraced
<1> SUFFICES ASSUME AtomicInv PROVE ReadsTraced
  OBVIOUS
<1> USE DEF AtomicInv
<1>0. Positions = 1..Len(log) /\ Len(log) \in Nat
  BY EventFields DEF Positions
<1>1. \A i, c : IsWriteOf(i, c) <=> WriteIn(log, i, c)
  BY DEF IsWriteOf, WriteIn
<1>2. ASSUME NEW i \in 1..Len(log), log[i].kind \in Reads
      PROVE  /\ log[i].readsFrom = IF Overtaken(i) THEN 0 ELSE LastWriteBefore(i)
             /\ \A j \in 1..Len(log) : Synchronizes(log[j], log[i]) <=> log[i].after = log[j].id
  <2>1. Traced(log, i - 1, log[i])
    BY <1>2 DEF ReadsAreTraced
  <2> DEFINE c == log[i].cell
  <2>4. Overtaken(i) <=> Lost(log, i - 1, log[i])
    BY <1>1 DEF Overtaken, Lost
  <2>2. ASSUME ~Overtaken(i) PROVE log[i].readsFrom = LastWriteBefore(i)
    <3>1. EarlierWrites(i) = {j \in 1..i - 1 : WriteIn(log, j, c)}
      BY <1>1 DEF EarlierWrites
    <3>2. LastIn(log, c, i - 1, log[i].readsFrom)
      BY <2>1, <2>2, <2>4 DEF Traced
    <3> HIDE DEF c
    <3>3. CASE log[i].readsFrom = 0 /\ \A k \in 1..i - 1 : ~WriteIn(log, k, c)
      BY <3>1, <3>3 DEF LastWriteBefore
    <3>4. ASSUME NEW j \in 1..i - 1, WriteIn(log, j, c), log[j].id = log[i].readsFrom,
                 \A k \in 1..i - 1 : WriteIn(log, k, c) => k <= j
          PROVE  log[i].readsFrom = LastWriteBefore(i)
      <4>1. j \in EarlierWrites(i) /\ \A k \in EarlierWrites(i) : k <= j
        BY <3>1, <3>4
      <4>2. (CHOOSE x \in EarlierWrites(i) : \A k \in EarlierWrites(i) : k <= x) = j
        <5>1. ASSUME NEW x \in EarlierWrites(i), \A k \in EarlierWrites(i) : k <= x PROVE x = j
          BY <3>1, <4>1, <5>1
        <5> QED
          BY <4>1, <5>1
      <4> QED
        BY <3>4, <4>1, <4>2 DEF LastWriteBefore
    <3> QED
      BY <3>2, <3>3, <3>4 DEF LastIn
  <2>3. ASSUME NEW j \in 1..Len(log)
        PROVE  Synchronizes(log[j], log[i]) <=> log[i].after = log[j].id
    <3>1. CASE j \in 1..i - 1
      BY <2>1, <3>1 DEF Traced
    <3>2. CASE j \notin 1..i - 1
      <4>1. /\ log[i].id <= log[j].id /\ log[i].id \in Nat /\ log[j].id \in Nat
            /\ log[i].readsFrom \in Nat /\ log[i].after \in Nat
        <5>1. i = j \/ i < j
          BY <1>0, <3>2
        <5> QED
          BY <5>1, EventFields DEF EventsDated
      <4>2. log[i].readsFrom # log[j].id /\ log[i].after # log[j].id
        BY <2>1, <4>1 DEF Traced
      <4> QED
        BY <4>2 DEF Synchronizes
    <3> QED
      BY <3>1, <3>2
  <2>5. ASSUME Overtaken(i) PROVE log[i].readsFrom = 0
    BY <2>1, <2>4, <2>5 DEF Traced
  <2> QED
    BY <2>2, <2>3, <2>5
<1>3. ASSUME NEW i \in 1..Len(log), NEW j \in 1..Len(log), i < j
      PROVE  /\ \A c \in Cells : IsWriteOf(i, c) /\ IsWriteOf(j, c) =>
                   log[i].modification < log[j].modification
             /\ log[i].sc # 0 /\ log[j].sc # 0 => log[i].sc < log[j].sc
  BY <1>1, <1>3 DEF WritesNumbered, EventsDated
<1> QED
  BY <1>0, <1>2, <1>3 DEF ReadsTraced, IsRead, Reads

(* The queue, the containers and the event log: what is put in comes out as it
   was, for any capacity, producers, clients, cells and processors. *)
THEOREM ContainersAreFaithful == ObjectsSpec => []ContainersFaithful
<1> DEFINE Inv == QueueInv /\ StorageInv /\ AtomicInv
<1>1. Init0 => Inv
  BY QueueInitial, StorageInitial, AtomicInitial DEF Init0
<1>2. Inv /\ [Next0]_objectVars => Inv'
  BY QueueStep, QueueInductive, StorageStep, StorageInductive, AtomicStep, AtomicInductive
<1>3. Inv => ContainersFaithful
  BY QueueImplies, StorageImplies, AtomicImplies DEF ContainersFaithful
<1> QED
  BY <1>1, <1>2, <1>3, PTL DEF ObjectsSpec
=============================================================================
