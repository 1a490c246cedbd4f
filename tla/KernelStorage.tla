------------------------------ MODULE KernelStorage -----------------------------
(***************************************************************************)
(* thermite-kernel/src/storage.rs: the fixed-capacity containers used      *)
(* before the heap is live, and the OnceCell of sync.rs.                   *)
(*                                                                         *)
(* Arrays are functions on 0..N-1.  FixedVec keeps what it popped in its   *)
(* array; FixedMap removes by moving its last entry; the ring's positions  *)
(* wrap.  table, stack, line and once are the containers a client believes *)
(* it has: a partial function, two sequences and a value.                  *)
(***************************************************************************)
EXTENDS Integers, Sequences, FiniteSets, KernelMaps

CONSTANTS N, Keys, Values, MaxOps, Empty

ASSUME StorageAssumption == N \in Nat /\ MaxOps \in Nat /\ Empty \notin Keys \X Values

VARIABLES vec, map, ring, cell, table, stack, line, once, ops

vecVars  == <<vec, stack>>
mapVars  == <<map, table>>
ringVars == <<ring, line>>
onceVars == <<cell, once>>
storageVars == <<vecVars, mapVars, ringVars, onceVars, ops>>

Indices == 0..N - 1
Blank == [i \in Indices |-> Empty]

StorageInit ==
    /\ vec = [values |-> Blank, len |-> 0] /\ stack = <<>>
    /\ map = [entries |-> Blank, len |-> 0] /\ table = <<>>
    /\ ring = [values |-> Blank, head |-> 0, len |-> 0] /\ line = <<>>
    /\ cell = Empty /\ once = Empty
    /\ ops = 0

(* FixedVec::push, pop, set *)
VecPush(v) ==
    /\ vec.len # N
    /\ vec' = [vec EXCEPT !.values[vec.len] = v, !.len = @ + 1]
    /\ stack' = Append(stack, v)
VecPop ==
    /\ vec.len # 0
    /\ vec' = [vec EXCEPT !.len = @ - 1]
    /\ stack' = SubSeq(stack, 1, Len(stack) - 1)
VecSet(i, v) ==
    /\ i < vec.len
    /\ vec' = [vec EXCEPT !.values[i] = v]
    /\ stack' = [stack EXCEPT ![i + 1] = v]

Entries == {map.entries[i] : i \in Indices} \ {Empty}

(* FixedMap::insert, get *)
MapInsert(k, v) ==
    /\ \A e \in Entries : e[1] # k
    /\ map.len # N
    /\ map' = [map EXCEPT !.entries[map.len] = <<k, v>>, !.len = @ + 1]
    /\ table' = Insert(table, k, v)
MapGet(k) ==
    LET hits == {i \in Indices : map.entries[i] # Empty /\ map.entries[i][1] = k} IN
    IF hits = {} THEN Empty
    ELSE map.entries[CHOOSE i \in hits : \A j \in hits : i <= j][2]

(* Mutant: the entry moved into the gap is also left behind. *)
WithoutIndexKeepingLast(index) ==
    [map EXCEPT !.entries[index] = map.entries[map.len - 1], !.len = @ - 1]

(* The swap-removal: when the last entry itself goes it is moved onto itself. *)
WithoutIndex(index) ==
    LET last == map.len - 1 IN
    [map EXCEPT !.entries = [[@ EXCEPT ![index] = map.entries[last]] EXCEPT ![last] = Empty],
                !.len = last]

(* FixedMap::remove *)
MapRemove(k) ==
    \E index \in 0..map.len - 1 :
        /\ map.entries[index][1] = k
        /\ map' = WithoutIndex(index)
        /\ table' = Without(table, {k})

(* RingBuffer::push, pop *)
RingPush(v) ==
    /\ ring.len # N /\ N # 0
    /\ ring' = [ring EXCEPT !.values[(ring.head + ring.len) % N] = v, !.len = @ + 1]
    /\ line' = Append(line, v)
RingPop ==
    /\ ring.len # 0 /\ N # 0
    /\ ring' = [ring EXCEPT !.head = (@ + 1) % N, !.len = @ - 1]
    /\ line' = Tail(line)

(* OnceCell::initialize: the first value stays. *)
Initialize(v) ==
    /\ cell = Empty
    /\ cell' = v
    /\ once' = IF once = Empty THEN v ELSE once

StorageNext ==
    /\ ops < MaxOps /\ ops' = ops + 1
    /\ \/ /\ (VecPop \/ \E v \in Values : VecPush(v) \/ \E i \in Indices : VecSet(i, v))
          /\ UNCHANGED <<mapVars, ringVars, onceVars>>
       \/ /\ \E k \in Keys : MapRemove(k) \/ \E v \in Values : MapInsert(k, v)
          /\ UNCHANGED <<vecVars, ringVars, onceVars>>
       \/ /\ (RingPop \/ \E v \in Values : RingPush(v))
          /\ UNCHANGED <<vecVars, mapVars, onceVars>>
       \/ /\ \E v \in Values : Initialize(v)
          /\ UNCHANGED <<vecVars, mapVars, ringVars>>

(* The containers are what their clients believe: through any mixture of
   insertions and swap-removals the map answers as a map does, the ring gives
   values back in order across the wrap, the vector is a stack. *)
ContentPreserving ==
    /\ \A k \in Keys : MapGet(k) = IF k \in DOMAIN table THEN table[k] ELSE Empty
    /\ map.len = Cardinality(DOMAIN table)
    /\ stack = [i \in 1..vec.len |-> vec.values[i - 1]]
    /\ line = [i \in 1..ring.len |-> ring.values[(ring.head + i - 1) % N]]
    /\ cell = once
=============================================================================
