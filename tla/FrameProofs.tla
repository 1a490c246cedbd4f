-------------------------------- MODULE FrameProofs ------------------------------
(***************************************************************************)
(* What holds of the frame allocator for every page size, address width,   *)
(* set of boot regions and set of requests.                                *)
(***************************************************************************)
EXTENDS MCKernelObjects, WellFoundedInduction, TLAPS

(* The allocator's fields are changed by FrameAllocator's methods only. *)
LEMMA FrameStep == [Next0]_objectVars => [FrameNext]_frameVars
BY DEF Next0, objectVars

(***************************************************************************)
(* Arithmetic of pages.                                                    *)
(***************************************************************************)

(* A set of addresses has a least one. *)
LEMMA LeastAddress ==
    ASSUME NEW S \in SUBSET Nat, S # {}
    PROVE  \E x \in S : \A y \in S : x <= y
<1>1. IsWellFoundedOn(OpToRel(<, Nat), Nat)
  BY NatLessThanWellFounded
<1>2. PICK x \in S : \A y \in S : ~(<<y, x>> \in OpToRel(<, Nat))
  BY <1>1, WFMin
<1>3. ASSUME NEW y \in S PROVE x <= y
  <2>1. x \in Nat /\ y \in Nat
    OBVIOUS
  <2>2. ~(y < x)
    BY <1>2, <2>1 DEF OpToRel
  <2> QED
    BY <2>1, <2>2
<1> QED
  BY <1>3

(* A bounded set of addresses has a greatest one. *)
LEMMA GreatestAddress ==
    ASSUME NEW bound \in Nat, NEW S \in SUBSET (0..bound), S # {}
    PROVE  \E x \in S : \A y \in S : y <= x
<1> DEFINE T == {bound - y : y \in S}
<1>1. T \in SUBSET Nat /\ T # {}
  <2>1. ASSUME NEW y \in S PROVE bound - y \in Nat
    BY y \in 0..bound
  <2> QED
    BY <2>1
<1>2. PICK t \in T : \A u \in T : t <= u
  <2> HIDE DEF T
  <2> QED
    BY <1>1, LeastAddress
<1>3. PICK x \in S : t = bound - x
  OBVIOUS
<1>4. ASSUME NEW y \in S PROVE y <= x
  <2>1. bound - x <= bound - y
    BY <1>2, <1>3
  <2> QED
    BY <2>1
<1> QED
  BY <1>4

(* A number of pages times the page size. *)
LEMMA PageArithmetic ==
    /\ \A k \in Int : k * PageSize \in Int /\ (k * PageSize) \div PageSize = k
                      /\ (k * PageSize) % PageSize = 0
    /\ \A k \in Int : k % PageSize = 0 => \E j \in Int : k = j * PageSize
    /\ \A j, k \in Int : j * PageSize < k * PageSize <=> j < k
    /\ \A j, k \in Int : /\ j * PageSize + k * PageSize = (j + k) * PageSize
                         /\ j * PageSize - k * PageSize = (j - k) * PageSize
<1>0. PageSize \in Nat \ {0}
  BY FrameAssumption
<1>1. \A k \in Int : k * PageSize \in Int /\ (k * PageSize) \div PageSize = k
                     /\ (k * PageSize) % PageSize = 0
  BY <1>0
<1>2. \A k \in Int : k % PageSize = 0 => \E j \in Int : k = j * PageSize
  BY <1>0
<1>3. \A j, k \in Int : j * PageSize < k * PageSize <=> j < k
  BY <1>0
<1>4. \A j, k \in Int : /\ j * PageSize + k * PageSize = (j + k) * PageSize
                        /\ j * PageSize - k * PageSize = (j - k) * PageSize
  BY <1>0
<1> QED
  BY <1>1, <1>2, <1>3, <1>4

(* A run of whole pages: where it begins and ends. *)
GoodRun(base, pages) ==
    /\ base \in Nat /\ pages \in Nat \ {0} /\ base % PageSize = 0
    /\ End(base, pages) <= MaxAddr

LEMMA RunExtent ==
    ASSUME NEW base, NEW pages, GoodRun(base, pages)
    PROVE  /\ End(base, pages) \in 0..MaxAddr /\ base < End(base, pages)
           /\ End(base, pages) % PageSize = 0
           /\ base \in Bytes(base, pages) /\ End(base, pages) - 1 \in Bytes(base, pages)
           /\ End(base, pages) \notin Bytes(base, pages)
           /\ \A x : x \in Bytes(base, pages) <=>
                        x \in Nat /\ base <= x /\ x < End(base, pages)
<1>0. base \in Nat /\ pages \in Nat \ {0} /\ base % PageSize = 0 /\ PageSize \in Nat \ {0}
      /\ MaxAddr \in Nat
  BY FrameAssumption DEF GoodRun
<1>1. pages * PageSize \in Nat /\ pages * PageSize > 0
  BY <1>0
<1>2. End(base, pages) \in Nat /\ base < End(base, pages) /\ End(base, pages) <= MaxAddr
  BY <1>0, <1>1 DEF End, GoodRun
<1>3. End(base, pages) % PageSize = 0
  <2>1. PICK j \in Int : base = j * PageSize
    BY <1>0, PageArithmetic
  <2>2. End(base, pages) = (j + pages) * PageSize
    BY <1>0, <2>1, PageArithmetic DEF End
  <2> QED
    BY <1>0, <2>2, PageArithmetic
<1>4. \A x : x \in Bytes(base, pages) <=> x \in Nat /\ base <= x /\ x < End(base, pages)
  BY <1>0, <1>2 DEF Bytes
<1> QED
  BY <1>0, <1>2, <1>3, <1>4

(***************************************************************************)
(* Coalescing.                                                             *)
(***************************************************************************)

Holds(f, x) == \E b \in DOMAIN f : x \in Bytes(b, f[b])

(* A map of runs of whole pages that do not overlap. *)
GoodMap(f) ==
    /\ \A b \in DOMAIN f : GoodRun(b, f[b])
    /\ \A b, c \in DOMAIN f : \A x : x \in Bytes(b, f[b]) /\ x \in Bytes(c, f[c]) => b = c

(* The chain that begins at an entry ends. *)
LEMMA ChainEnds ==
    ASSUME NEW f, GoodMap(f), NEW b \in DOMAIN f
    PROVE  /\ ChainEnd(f, b) \in Ends(f) \ DOMAIN f /\ b < ChainEnd(f, b)
           /\ \A d \in Ends(f) \ DOMAIN f : b < d => ChainEnd(f, b) <= d
<1> DEFINE tops == Ends(f) \ DOMAIN f
           above == {e \in tops : b < e}
<1>0. MaxAddr \in Nat /\ b \in Nat
  BY FrameAssumption DEF GoodMap, GoodRun
<1>1. Ends(f) \in SUBSET (0..MaxAddr) /\ Ends(f) # {}
  <2>1. \A c \in DOMAIN f : End(c, f[c]) \in 0..MaxAddr
    BY RunExtent DEF GoodMap
  <2> QED
    BY <2>1 DEF Ends
<1>2. PICK g \in Ends(f) : \A e \in Ends(f) : e <= g
  BY <1>0, <1>1, GreatestAddress
<1>3. g \notin DOMAIN f
  <2> SUFFICES ASSUME g \in DOMAIN f PROVE FALSE
    OBVIOUS
  <2>1. End(g, f[g]) \in Ends(f)
    BY DEF Ends
  <2>2. g < End(g, f[g]) /\ End(g, f[g]) \in Nat /\ g \in Nat
    BY <1>1, RunExtent DEF GoodMap, GoodRun
  <2> QED
    BY <1>2, <2>1, <2>2
<1>4. b < g
  <2>1. End(b, f[b]) \in Ends(f)
    BY DEF Ends
  <2>2. b < End(b, f[b]) /\ End(b, f[b]) \in Nat
    BY <1>1, RunExtent DEF GoodMap
  <2> QED
    BY <1>0, <1>1, <1>2, <2>1, <2>2
<1>5. above \in SUBSET Nat /\ g \in above
  BY <1>1, <1>3, <1>4
<1>6. PICK e \in above : \A d \in above : e <= d
  <2> HIDE DEF above
  <2> QED
    BY <1>5, LeastAddress
<1>7. e \in tops /\ b < e /\ \A d \in tops : b < d => e <= d
  BY <1>6
<1> QED
  BY <1>7 DEF ChainEnd

(* No byte of a chain is uncovered. *)
LEMMA ChainIsCovered ==
    ASSUME NEW f, GoodMap(f), NEW h \in DOMAIN f, NEW x \in Nat, h <= x, x < ChainEnd(f, h)
    PROVE  Holds(f, x)
<1> SUFFICES ASSUME ~Holds(f, x) PROVE FALSE
  OBVIOUS
<1> DEFINE T == {y \in h..x : ~Holds(f, y)}
<1>0. h \in Nat /\ GoodRun(h, f[h])
  BY DEF GoodMap, GoodRun
<1>1. T \in SUBSET Nat /\ x \in T
  BY <1>0
<1>2. PICK u \in T : \A y \in T : u <= y
  <2> HIDE DEF T
  <2> QED
    BY <1>1, LeastAddress
<1>3. u \in Nat /\ h <= u /\ u <= x /\ ~Holds(f, u)
  BY <1>0
<1>4. u # h
  BY <1>0, <1>3, RunExtent DEF Holds
<1>5. u - 1 \in h..x /\ u - 1 \in Nat
  BY <1>0, <1>3, <1>4
<1>6. PICK c \in DOMAIN f : u - 1 \in Bytes(c, f[c])
  <2>1. u - 1 \notin T
    BY <1>2, <1>3, <1>5
  <2> QED
    BY <1>5, <2>1 DEF Holds
<1>7. GoodRun(c, f[c])
  BY DEF GoodMap
<1>8. End(c, f[c]) = u
  <2>1. u \notin Bytes(c, f[c])
    BY <1>3 DEF Holds
  <2>2. /\ c <= u - 1 /\ u - 1 < End(c, f[c]) /\ End(c, f[c]) \in Nat /\ c \in Nat
        /\ ~(c <= u /\ u < End(c, f[c]))
    BY <1>3, <1>6, <1>7, <2>1, RunExtent DEF GoodRun
  <2> QED
    BY <1>3, <2>2
<1>9. u \in Ends(f) \ DOMAIN f
  <2>1. u \notin DOMAIN f
    BY <1>3, RunExtent DEF Holds, GoodMap
  <2> QED
    BY <1>8, <2>1 DEF Ends
<1>10. ChainEnd(f, h) <= u /\ ChainEnd(f, h) \in Nat
  <2>1. Ends(f) \in SUBSET Nat
    BY RunExtent DEF Ends, GoodMap
  <2> QED
    BY <1>0, <1>3, <1>4, <1>9, <2>1, ChainEnds
<1> QED
  BY <1>3, <1>10

(* Every covered byte lies in the chain of an entry at which no other ends. *)
LEMMA CoveredIsInChain ==
    ASSUME NEW f, GoodMap(f), NEW x, Holds(f, x)
    PROVE  \E h \in DOMAIN f \ Ends(f) : h <= x /\ x < ChainEnd(f, h)
<1> DEFINE S == {s \in DOMAIN f : s <= x /\ \A y \in s..x : Holds(f, y)}
<1>0. DOMAIN f \in SUBSET Nat /\ Ends(f) \in SUBSET Nat
  BY RunExtent DEF Ends, GoodMap, GoodRun
<1>1. PICK b \in DOMAIN f : x \in Bytes(b, f[b])
  BY DEF Holds
<1>2. GoodRun(b, f[b]) /\ x \in Nat /\ b \in Nat /\ b <= x /\ x < End(b, f[b])
      /\ End(b, f[b]) \in Nat
  BY <1>1, RunExtent DEF GoodMap, GoodRun
<1>3. b \in S
  <2>1. ASSUME NEW y \in b..x PROVE Holds(f, y)
    <3>1. y \in Nat /\ b <= y /\ y < End(b, f[b])
      BY <1>2
    <3> QED
      BY <1>2, <3>1, RunExtent DEF Holds
  <2> QED
    BY <1>2, <2>1
<1>4. PICK s \in S : \A t \in S : s <= t
  <2>1. S \in SUBSET Nat
    BY <1>0
  <2> HIDE DEF S
  <2> QED
    BY <1>3, <2>1, LeastAddress
<1>5. s \in DOMAIN f /\ s \in Nat /\ s <= x /\ \A y \in s..x : Holds(f, y)
  BY <1>0
<1>6. s \notin Ends(f)
  <2> SUFFICES ASSUME s \in Ends(f) PROVE FALSE
    OBVIOUS
  <2>1. PICK c \in DOMAIN f : s = End(c, f[c])
    BY DEF Ends
  <2>2. GoodRun(c, f[c]) /\ c \in Nat /\ c < s
    BY <2>1, RunExtent DEF GoodMap, GoodRun
  <2>3. ASSUME NEW y \in c..x PROVE Holds(f, y)
    <3>1. CASE y \in s..x
      BY <1>5, <3>1
    <3>2. CASE y \notin s..x
      <4>1. y \in Nat /\ c <= y /\ y < End(c, f[c])
        BY <1>2, <1>5, <2>1, <2>2, <3>2
      <4> QED
        BY <2>2, <4>1, RunExtent DEF Holds
    <3> QED
      BY <3>1, <3>2
  <2>4. c \in S
    BY <1>2, <1>5, <2>2, <2>3
  <2> QED
    BY <1>4, <1>5, <2>2, <2>4
<1>7. x < ChainEnd(f, s)
  <2> DEFINE e == ChainEnd(f, s)
  <2>1. e \in Ends(f) /\ e \notin DOMAIN f /\ s < e /\ e \in Nat
    BY <1>0, <1>5, ChainEnds
  <2> HIDE DEF e
  <2> SUFFICES ASSUME e <= x PROVE FALSE
    BY <1>2, <2>1 DEF e
  <2>2. PICK d \in DOMAIN f : e \in Bytes(d, f[d])
    <3>1. e \in s..x
      BY <1>2, <1>5, <2>1
    <3> QED
      BY <1>5, <3>1 DEF Holds
  <2>3. PICK c \in DOMAIN f : e = End(c, f[c])
    BY <2>1 DEF Ends
  <2>4. GoodRun(c, f[c]) /\ GoodRun(d, f[d])
    BY DEF GoodMap
  <2>5. e - 1 \in Bytes(c, f[c]) /\ e \notin Bytes(c, f[c])
    BY <2>3, <2>4, RunExtent
  <2>6. e - 1 \in Bytes(d, f[d])
    <3>1. d \in Nat /\ d <= e /\ e < End(d, f[d]) /\ d # e /\ End(d, f[d]) \in Nat
      BY <2>1, <2>2, <2>4, RunExtent DEF GoodRun
    <3>2. e - 1 \in Nat /\ d <= e - 1 /\ e - 1 < End(d, f[d])
      BY <2>1, <3>1
    <3> QED
      BY <2>4, <3>2, RunExtent
  <2> QED
    BY <2>2, <2>5, <2>6 DEF GoodMap
<1> QED
  BY <1>5, <1>6, <1>7

(* A chain is a run of whole pages that ends where its last entry does. *)
LEMMA ChainIsRun ==
    ASSUME NEW f, GoodMap(f), NEW h \in DOMAIN f,
           NEW n, n = (ChainEnd(f, h) - h) \div PageSize
    PROVE  GoodRun(h, n) /\ End(h, n) = ChainEnd(f, h)
<1>1. PICK c \in DOMAIN f : ChainEnd(f, h) = End(c, f[c])
  BY ChainEnds DEF Ends
<1>2. /\ GoodRun(c, f[c]) /\ GoodRun(h, f[h]) /\ h \in Nat /\ h % PageSize = 0
      /\ End(c, f[c]) \in 0..MaxAddr /\ End(c, f[c]) % PageSize = 0 /\ h < End(c, f[c])
  BY <1>1, RunExtent, ChainEnds DEF GoodMap, GoodRun
<1> DEFINE e == End(c, f[c])
<1>3. e \in Nat /\ e <= MaxAddr /\ MaxAddr \in Nat /\ e % PageSize = 0 /\ h < e
  BY <1>2, FrameAssumption
<1> HIDE DEF e
<1>4. PICK i \in Int : h = i * PageSize
  <2>1. h \in Int /\ h % PageSize = 0
    BY <1>2
  <2> QED
    BY <2>1, PageArithmetic
<1>5. PICK j \in Int : e = j * PageSize
  BY <1>3, PageArithmetic
<1>6. i < j /\ e - h = (j - i) * PageSize
  BY <1>3, <1>4, <1>5, PageArithmetic
<1>7. n = j - i
  BY <1>1, <1>6, PageArithmetic DEF e
<1>8. n \in Nat \ {0}
  BY <1>6, <1>7
<1>9. End(h, n) = e
  <2>1. n * PageSize = e - h
    BY <1>6, <1>7
  <2> QED
    BY <1>2, <1>3, <2>1 DEF End
<1> QED
  BY <1>1, <1>2, <1>3, <1>8, <1>9 DEF GoodRun, e

(* coalesce keeps the bytes of the map and leaves no overlap. *)
LEMMA CoalesceKeeps ==
    ASSUME NEW f, GoodMap(f)
    PROVE  GoodMap(Coalesce(f)) /\ \A x : Holds(Coalesce(f), x) <=> Holds(f, x)
<1> DEFINE g == Coalesce(f)
<1>1. /\ DOMAIN g = DOMAIN f \ Ends(f)
      /\ \A h \in DOMAIN g : g[h] = (ChainEnd(f, h) - h) \div PageSize
  BY DEF Coalesce
<1> HIDE DEF g
<1>2. \A h \in DOMAIN g : GoodRun(h, g[h]) /\ End(h, g[h]) = ChainEnd(f, h)
  BY <1>1, ChainIsRun
<1>3. \A h \in DOMAIN g : \A x : x \in Bytes(h, g[h]) <=>
                                 x \in Nat /\ h <= x /\ x < ChainEnd(f, h)
  BY <1>2, RunExtent
<1>4. ASSUME NEW x PROVE Holds(g, x) <=> Holds(f, x)
  <2>1. Holds(g, x) => Holds(f, x)
    BY <1>1, <1>3, ChainIsCovered DEF Holds
  <2>2. Holds(f, x) => x \in Nat
    BY RunExtent DEF Holds, GoodMap
  <2>3. Holds(f, x) => Holds(g, x)
    BY <1>1, <1>3, <2>2, CoveredIsInChain DEF Holds
  <2> QED
    BY <2>1, <2>3
<1>5. ASSUME NEW h \in DOMAIN g, NEW k \in DOMAIN g, NEW x,
             x \in Bytes(h, g[h]), x \in Bytes(k, g[k]), h < k
      PROVE  FALSE
  <2>1. /\ h \in DOMAIN f /\ k \in DOMAIN f /\ k \notin Ends(f) /\ h \in Nat /\ k \in Nat
        /\ x \in Nat /\ k <= x /\ x < ChainEnd(f, h) /\ ChainEnd(f, h) \in Nat
    BY <1>1, <1>2, <1>3, <1>5, RunExtent DEF GoodRun
  <2>2. k - 1 \in Nat /\ h <= k - 1 /\ k - 1 < ChainEnd(f, h)
    BY <1>5, <2>1
  <2>3. PICK c \in DOMAIN f : k - 1 \in Bytes(c, f[c])
    BY <2>1, <2>2, ChainIsCovered DEF Holds
  <2>4. GoodRun(c, f[c]) /\ GoodRun(k, f[k])
    BY <2>1 DEF GoodMap
  <2>5. c \in Nat /\ c <= k - 1 /\ k - 1 < End(c, f[c]) /\ End(c, f[c]) \in Nat
    BY <2>3, <2>4, RunExtent DEF GoodRun
  <2>6. End(c, f[c]) # k
    BY <2>1 DEF Ends
  <2>7. k \in Bytes(c, f[c])
    <3>1. c <= k /\ k < End(c, f[c])
      BY <2>1, <2>5, <2>6
    <3> QED
      BY <2>1, <2>4, <3>1, RunExtent
  <2>8. k \in Bytes(k, f[k]) /\ c # k
    BY <2>1, <2>4, <2>5, RunExtent
  <2> QED
    BY <2>1, <2>7, <2>8 DEF GoodMap
<1>6. ASSUME NEW h \in DOMAIN g, NEW k \in DOMAIN g, NEW x,
             x \in Bytes(h, g[h]), x \in Bytes(k, g[k])
      PROVE  h = k
  <2>1. h \in Nat /\ k \in Nat
    BY <1>2 DEF GoodRun
  <2>2. ~(h < k) /\ ~(k < h)
    BY <1>5, <1>6
  <2> QED
    BY <2>1, <2>2
<1>7. GoodMap(g)
  BY <1>2, <1>6 DEF GoodMap
<1> QED
  BY <1>4, <1>7 DEF g

(***************************************************************************)
(* Inserting and removing runs.                                            *)
(***************************************************************************)

LEMMA InsertKeeps ==
    ASSUME NEW f, GoodMap(f), NEW b, NEW n, GoodRun(b, n), \A x \in Bytes(b, n) : ~Holds(f, x)
    PROVE  /\ GoodMap(Insert(f, b, n)) /\ b \notin DOMAIN f
           /\ \A x : Holds(Insert(f, b, n), x) <=> Holds(f, x) \/ x \in Bytes(b, n)
<1> DEFINE g == Insert(f, b, n)
<1>1. b \notin DOMAIN f
  BY RunExtent DEF Holds, GoodMap
<1>2. /\ DOMAIN g = DOMAIN f \cup {b} /\ g[b] = n
      /\ \A c \in DOMAIN f : c # b /\ g[c] = f[c]
  BY <1>1 DEF Insert
<1> HIDE DEF g
<1>3. GoodMap(g)
  <2>1. \A c \in DOMAIN g : GoodRun(c, g[c])
    BY <1>2 DEF GoodMap
  <2>2. ASSUME NEW c \in DOMAIN g, NEW d \in DOMAIN g, NEW x,
               x \in Bytes(c, g[c]), x \in Bytes(d, g[d])
        PROVE  c = d
    BY <1>2, <2>2 DEF GoodMap, Holds
  <2> QED
    BY <2>1, <2>2 DEF GoodMap
<1>4. \A x : Holds(g, x) <=> Holds(f, x) \/ x \in Bytes(b, n)
  BY <1>2 DEF Holds
<1> QED
  BY <1>1, <1>3, <1>4 DEF g

LEMMA WithoutKeeps ==
    ASSUME NEW f, GoodMap(f), NEW b \in DOMAIN f
    PROVE  /\ GoodMap(Without(f, {b}))
           /\ \A x : Holds(Without(f, {b}), x) <=> Holds(f, x) /\ x \notin Bytes(b, f[b])
           /\ DOMAIN Without(f, {b}) = DOMAIN f \ {b}
           /\ \A c \in DOMAIN f \ {b} : Without(f, {b})[c] = f[c]
<1> DEFINE g == Without(f, {b})
<1>1. DOMAIN g = DOMAIN f \ {b} /\ \A c \in DOMAIN f \ {b} : g[c] = f[c]
  BY DEF Without
<1> HIDE DEF g
<1>2. GoodMap(g)
  BY <1>1 DEF GoodMap
<1>3. \A x : Holds(g, x) <=> Holds(f, x) /\ x \notin Bytes(b, f[b])
  BY <1>1 DEF Holds, GoodMap
<1> QED
  BY <1>1, <1>2, <1>3 DEF g

(* Inserting at a key that the map has replaces its entry. *)
LEMMA InsertReplaces ==
    ASSUME NEW f, NEW b, NEW n
    PROVE  Insert(f, b, n) = Insert(Without(f, {b}), b, n)
<1>1. DOMAIN f \cup {b} = (DOMAIN f \ {b}) \cup {b}
  OBVIOUS
<1> QED
  BY <1>1 DEF Insert, Without

(* The pages of the allocated runs. *)
Extents(a) == [b \in DOMAIN a |-> a[b].pages]

LEMMA ExtentsOfInsert ==
    ASSUME NEW a, NEW b, NEW run
    PROVE  Extents(Insert(a, b, run)) = Insert(Extents(a), b, run.pages)
BY DEF Extents, Insert

LEMMA ExtentsOfWithout ==
    ASSUME NEW a, NEW keys
    PROVE  Extents(Without(a, keys)) = Without(Extents(a), keys)
BY DEF Extents, Without

(* A run cut in two. *)
LEMMA CutInTwo ==
    ASSUME NEW base, NEW pages, GoodRun(base, pages), NEW n \in 1..pages - 1
    PROVE  /\ GoodRun(base, n) /\ GoodRun(End(base, n), pages - n)
           /\ End(End(base, n), pages - n) = End(base, pages)
           /\ base < End(base, n) /\ End(base, n) < End(base, pages)
           /\ \A x : x \in Bytes(base, pages) <=>
                       x \in Bytes(base, n) \/ x \in Bytes(End(base, n), pages - n)
           /\ \A x : ~(x \in Bytes(base, n) /\ x \in Bytes(End(base, n), pages - n))
<1>0. /\ base \in Nat /\ pages \in Nat \ {0} /\ n \in Nat \ {0} /\ n < pages
      /\ pages - n \in Nat \ {0} /\ MaxAddr \in Nat /\ base % PageSize = 0
  BY FrameAssumption DEF GoodRun
<1>1. /\ n * PageSize \in Nat /\ pages * PageSize \in Nat /\ (pages - n) * PageSize \in Nat
      /\ n * PageSize > 0 /\ (pages - n) * PageSize > 0
  BY <1>0, FrameAssumption
<1>2. n * PageSize + (pages - n) * PageSize = pages * PageSize
  BY <1>0, FrameAssumption
<1>3. /\ End(base, n) \in Nat /\ base < End(base, n)
      /\ End(base, n) + (pages - n) * PageSize = End(base, pages)
      /\ End(base, n) < End(base, pages)
  BY <1>0, <1>1, <1>2 DEF End
<1>4. End(base, pages) \in Nat /\ End(base, pages) <= MaxAddr
  BY <1>0, <1>1 DEF End, GoodRun
<1>5. GoodRun(base, n)
  BY <1>0, <1>3, <1>4 DEF GoodRun
<1>6. End(End(base, n), pages - n) = End(base, pages)
  BY <1>3 DEF End
<1>7. GoodRun(End(base, n), pages - n)
  BY <1>0, <1>3, <1>4, <1>5, <1>6, RunExtent DEF GoodRun
<1>8. ASSUME NEW x
      PROVE  /\ x \in Bytes(base, n) <=> x \in Nat /\ base <= x /\ x < End(base, n)
             /\ x \in Bytes(base, pages) <=> x \in Nat /\ base <= x /\ x < End(base, pages)
             /\ x \in Bytes(End(base, n), pages - n) <=>
                    x \in Nat /\ End(base, n) <= x /\ x < End(base, pages)
  BY <1>5, <1>6, <1>7, RunExtent
<1>9. ASSUME NEW x
      PROVE  /\ x \in Bytes(base, pages) <=>
                    x \in Bytes(base, n) \/ x \in Bytes(End(base, n), pages - n)
             /\ ~(x \in Bytes(base, n) /\ x \in Bytes(End(base, n), pages - n))
  BY <1>0, <1>3, <1>4, <1>8
<1> QED
  BY <1>3, <1>5, <1>6, <1>7, <1>9

(* An aligned request that fits begins some pages into the free run and ends in
   it. *)
LEMMA AlignedFits ==
    ASSUME NEW base, NEW total, GoodRun(base, total), NEW pages \in Nat \ {0},
           NEW ap \in Nat \ {0}, NEW start, start = AlignedIn(base, ap * PageSize),
           (start - base) \div PageSize + pages <= total
    PROVE  /\ (start - base) \div PageSize \in Nat
           /\ start = End(base, (start - base) \div PageSize)
<1>0. base \in Nat /\ PageSize \in Nat \ {0} /\ base % PageSize = 0
  BY FrameAssumption DEF GoodRun
<1> DEFINE alignment == ap * PageSize
           q == (base + alignment - 1) \div alignment
<1>1. alignment \in Nat \ {0}
  BY <1>0
<1>2. q \in Int /\ q * alignment \in Int /\ base <= q * alignment /\ start = q * alignment
  <2> HIDE DEF alignment
  <2>1. q \in Int /\ q * alignment \in Int /\ base <= q * alignment
    BY <1>0, <1>1
  <2>2. start = AlignedIn(base, alignment)
    BY DEF alignment
  <2> QED
    BY <2>1, <2>2 DEF AlignedIn
<1> HIDE DEF q
<1>3. q * (ap * PageSize) = (q * ap) * PageSize /\ q * ap \in Int
  BY <1>0, <1>2
<1>4. PICK i \in Int : base = i * PageSize
  <2>1. base \in Int /\ base % PageSize = 0
    BY <1>0
  <2> QED
    BY <2>1, PageArithmetic
<1> DEFINE j == q * ap
<1>5. j \in Int /\ start = j * PageSize /\ start \in Int /\ base <= start
  BY <1>2, <1>3
<1> HIDE DEF j
<1>6. start - base = (j - i) * PageSize /\ (start - base) \div PageSize = j - i
  BY <1>4, <1>5, PageArithmetic
<1>7. ~(j < i)
  BY <1>0, <1>4, <1>5, PageArithmetic
<1>8. j - i \in Nat
  BY <1>5, <1>7
<1>9. start = End(base, j - i)
  BY <1>0, <1>5, <1>6, SMTT(40) DEF End
<1> QED
  BY <1>6, <1>8, <1>9

(* Part of a run, prefix pages into it. *)
LEMMA InnerRun ==
    ASSUME NEW base, NEW total, GoodRun(base, total), NEW prefix \in Nat,
           NEW pages \in Nat \ {0}, prefix + pages <= total,
           NEW start, start = End(base, prefix)
    PROVE  /\ GoodRun(start, pages) /\ base <= start /\ End(start, pages) <= End(base, total)
           /\ End(start, pages) = End(base, prefix + pages)
           /\ prefix = 0 => start = base
           /\ prefix # 0 => GoodRun(base, prefix)
           /\ total - prefix - pages = 0 => End(start, pages) = End(base, total)
           /\ total - prefix - pages # 0 =>
                 /\ GoodRun(End(start, pages), total - prefix - pages)
                 /\ End(End(start, pages), total - prefix - pages) = End(base, total)
<1>0. base \in Nat /\ total \in Nat \ {0} /\ PageSize \in Nat \ {0}
  BY FrameAssumption DEF GoodRun
<1>1. prefix # 0 => GoodRun(base, prefix) /\ GoodRun(start, total - prefix)
                    /\ base < start /\ End(start, total - prefix) = End(base, total)
  <2>1. prefix # 0 => prefix \in 1..total - 1
    BY <1>0
  <2> QED
    BY <2>1, CutInTwo
<1>2. prefix = 0 => start = base /\ total - prefix = total
  BY <1>0 DEF End
<1>3. /\ GoodRun(start, total - prefix) /\ End(start, total - prefix) = End(base, total)
      /\ base <= start
  BY <1>0, <1>1, <1>2 DEF GoodRun
<1>4. total - prefix - pages # 0 =>
        /\ GoodRun(start, pages) /\ GoodRun(End(start, pages), total - prefix - pages)
        /\ End(start, pages) < End(base, total)
        /\ End(End(start, pages), total - prefix - pages) = End(base, total)
  <2>1. total - prefix - pages # 0 => pages \in 1..(total - prefix) - 1
    BY <1>0
  <2> QED
    BY <1>3, <2>1, CutInTwo
<1>5. total - prefix - pages = 0 =>
        GoodRun(start, pages) /\ End(start, pages) = End(base, total)
  <2>1. total - prefix - pages = 0 => pages = total - prefix
    BY <1>0
  <2> QED
    BY <1>3, <2>1
<1>6. End(base, total) \in Nat /\ End(start, pages) \in Nat
  BY <1>4, <1>5, RunExtent
<1>7. End(start, pages) = End(base, prefix + pages)
  <2>1. prefix * PageSize + pages * PageSize = (prefix + pages) * PageSize
    BY <1>0
  <2>2. prefix * PageSize \in Nat /\ pages * PageSize \in Nat
    BY <1>0
  <2> QED
    BY <1>0, <2>1, <2>2 DEF End
<1> QED
  BY <1>1, <1>2, <1>3, <1>4, <1>5, <1>6, <1>7

(* What allocate takes from the free map is exactly what it grants. *)
LEMMA RemainderKeeps ==
    ASSUME GoodMap(free), NEW base \in DOMAIN free, NEW pages \in Nat \ {0},
           NEW start, NEW prefix \in Nat, prefix = (start - base) \div PageSize,
           start = End(base, prefix), prefix + pages <= free[base]
    PROVE  /\ GoodMap(Remainder(base, start, pages)) /\ GoodRun(start, pages)
           /\ \A x : Holds(Remainder(base, start, pages), x) <=>
                         Holds(free, x) /\ x \notin Bytes(start, pages)
           /\ \A x \in Bytes(start, pages) : Holds(free, x)
<1> DEFINE total == free[base]
           suffix == total - prefix - pages
           w == Without(free, {base})
           head == IF prefix # 0 THEN Insert(w, base, prefix) ELSE w
           rest == IF suffix # 0 THEN Insert(head, End(start, pages), suffix) ELSE head
<1>0. rest = Remainder(base, start, pages)
  BY DEF Remainder
<1>1. GoodRun(base, total)
  BY DEF GoodMap
<1>2. /\ GoodRun(start, pages) /\ base <= start /\ End(start, pages) <= End(base, total)
      /\ prefix = 0 => start = base
      /\ prefix # 0 => GoodRun(base, prefix)
      /\ suffix = 0 => End(start, pages) = End(base, total)
      /\ suffix # 0 => /\ GoodRun(End(start, pages), suffix)
                       /\ End(End(start, pages), suffix) = End(base, total)
  BY <1>1, InnerRun
<1>3. /\ GoodMap(w)
      /\ \A x : Holds(w, x) <=> Holds(free, x) /\ x \notin Bytes(base, total)
  BY WithoutKeeps
<1>4. \A x \in Bytes(base, total) : Holds(free, x)
  BY DEF Holds
<1> HIDE DEF total, suffix, w
<1>5. ASSUME NEW x
      PROVE  /\ x \in Bytes(base, total) <=> x \in Nat /\ base <= x /\ x < End(base, total)
             /\ x \in Bytes(start, pages) <=> x \in Nat /\ start <= x /\ x < End(start, pages)
             /\ prefix # 0 =>
                   (x \in Bytes(base, prefix) <=> x \in Nat /\ base <= x /\ x < start)
             /\ suffix # 0 => (x \in Bytes(End(start, pages), suffix) <=>
                                  x \in Nat /\ End(start, pages) <= x /\ x < End(base, total))
  BY <1>1, <1>2, RunExtent
<1>6. /\ base \in Nat /\ start \in Nat /\ End(start, pages) \in Nat /\ End(base, total) \in Nat
      /\ start < End(start, pages)
  BY <1>1, <1>2, RunExtent DEF GoodRun
<1>7. /\ GoodMap(head)
      /\ \A x : Holds(head, x) <=> Holds(w, x) \/ (x \in Nat /\ base <= x /\ x < start)
  <2>1. CASE prefix = 0
    <3>1. \A x : ~(x \in Nat /\ base <= x /\ x < start)
      BY <1>2, <1>6, <2>1
    <3> QED
      BY <1>3, <2>1, <3>1
  <2>2. CASE prefix # 0
    <3>1. \A x \in Bytes(base, prefix) : ~Holds(w, x)
      BY <1>2, <1>3, <1>5, <1>6, <2>2
    <3>2. /\ GoodMap(Insert(w, base, prefix))
          /\ \A x : Holds(Insert(w, base, prefix), x) <=> Holds(w, x) \/ x \in Bytes(base, prefix)
      BY <1>2, <1>3, <2>2, <3>1, InsertKeeps
    <3> QED
      BY <1>5, <2>2, <3>2
  <2> QED
    BY <2>1, <2>2
<1> HIDE DEF head
<1>8. /\ GoodMap(rest)
      /\ \A x : Holds(rest, x) <=>
               Holds(head, x) \/ (x \in Nat /\ End(start, pages) <= x /\ x < End(base, total))
  <2>1. CASE suffix = 0
    <3>1. \A x : ~(x \in Nat /\ End(start, pages) <= x /\ x < End(base, total))
      BY <1>2, <1>6, <2>1
    <3> QED
      BY <1>7, <2>1, <3>1
  <2>2. CASE suffix # 0
    <3>1. ASSUME NEW x \in Bytes(End(start, pages), suffix) PROVE ~Holds(head, x)
      <4>1. x \in Nat /\ End(start, pages) <= x /\ x < End(base, total)
        BY <1>5, <2>2
      <4>2. x \in Bytes(base, total) /\ ~(x < start)
        BY <1>2, <1>5, <1>6, <4>1
      <4> QED
        BY <1>3, <1>7, <4>2
    <3>2. /\ GoodMap(Insert(head, End(start, pages), suffix))
          /\ \A x : Holds(Insert(head, End(start, pages), suffix), x) <=>
                       Holds(head, x) \/ x \in Bytes(End(start, pages), suffix)
      BY <1>2, <1>7, <2>2, <3>1, InsertKeeps
    <3> QED
      BY <1>5, <2>2, <3>2
  <2> QED
    BY <2>1, <2>2
<1> HIDE DEF rest
<1>9. ASSUME NEW x
      PROVE  Holds(rest, x) <=> Holds(free, x) /\ x \notin Bytes(start, pages)
  <2>1. CASE x \in Bytes(base, total)
    <3>1. Holds(free, x) /\ ~Holds(w, x) /\ x \in Nat /\ base <= x /\ x < End(base, total)
      BY <1>3, <1>4, <1>5, <2>1
    <3>2. Holds(rest, x) <=> x < start \/ End(start, pages) <= x
      BY <1>7, <1>8, <3>1
    <3> QED
      BY <1>5, <1>6, <3>1, <3>2
  <2>2. CASE x \notin Bytes(base, total)
    <3>1. Holds(w, x) <=> Holds(free, x)
      BY <1>3, <2>2
    <3>2. ~(x \in Nat /\ base <= x /\ x < End(base, total))
      BY <1>5, <2>2
    <3>3. /\ ~(x \in Nat /\ base <= x /\ x < start)
          /\ ~(x \in Nat /\ End(start, pages) <= x /\ x < End(base, total))
          /\ ~(x \in Nat /\ start <= x /\ x < End(start, pages))
      BY <1>2, <1>6, <3>2
    <3> QED
      BY <1>5, <1>7, <1>8, <3>1, <3>3
  <2> QED
    BY <2>1, <2>2
<1>10. ASSUME NEW x \in Bytes(start, pages) PROVE Holds(free, x)
  <2>1. x \in Nat /\ base <= x /\ x < End(base, total)
    BY <1>2, <1>5, <1>6
  <2> QED
    BY <1>4, <1>5, <2>1
<1> QED
  BY <1>0, <1>2, <1>8, <1>9, <1>10

(***************************************************************************)
(* The invariant.                                                          *)
(***************************************************************************)

Run == [base : Nat, pages : Nat \ {0}, generation : Nat, zeroed : BOOLEAN]

FrameTypes ==
    /\ handles \subseteq Run /\ buried \subseteq handles
    /\ \A b \in DOMAIN allocated : allocated[b] \in Run /\ allocated[b].base = b
    /\ \A b \in DOMAIN frameGenerations : frameGenerations[b] \in Nat

(* The free and the allocated runs, seen as maps of pages, partition what was
   given to add_region. *)
Partition(f, a, m) ==
    /\ GoodMap(f) /\ GoodMap(Extents(a))
    /\ \A x : ~(Holds(f, x) /\ Holds(Extents(a), x))
    /\ \A x : x \in m <=> Holds(f, x) \/ Holds(Extents(a), x)

(* Without splits and joins a run's generation is the one recorded at its base,
   no handle is ahead of it, a handle that has it names the allocated run, and
   a buried handle is behind it. *)
Dated ==
    ~cut => /\ \A b \in DOMAIN allocated : allocated[b].generation = GenerationAt(b)
            /\ \A h \in handles :
                  /\ h.generation <= GenerationAt(h.base)
                  /\ h.generation = GenerationAt(h.base) =>
                        h.base \in DOMAIN allocated /\ allocated[h.base].pages = h.pages
            /\ \A h \in buried : h.generation < GenerationAt(h.base)

FrameInv ==
    /\ FrameTypes /\ Partition(free, allocated, managed)
    /\ LoansStayAllocated /\ Dated

LEMMA FrameInitial == FrameInit => FrameInv
<1> SUFFICES ASSUME FrameInit PROVE FrameInv
  OBVIOUS
<1>1. /\ DOMAIN free = {} /\ DOMAIN allocated = {} /\ DOMAIN frameGenerations = {}
      /\ DOMAIN loans = {}
  BY DEF FrameInit
<1>2. FrameTypes /\ LoansStayAllocated /\ Dated
  BY <1>1 DEF FrameInit, FrameTypes, LoansStayAllocated, Dated
<1>3. DOMAIN Extents(allocated) = {}
  BY <1>1 DEF Extents
<1>4. GoodMap(free) /\ GoodMap(Extents(allocated))
  BY <1>1, <1>3 DEF GoodMap
<1>5. \A x : ~Holds(free, x) /\ ~Holds(Extents(allocated), x) /\ x \notin managed
  BY <1>1, <1>3 DEF Holds, FrameInit
<1> QED
  BY <1>2, <1>4, <1>5 DEF FrameInv, Partition

(* What an allocated run is. *)
LEMMA AllocatedRun ==
    ASSUME FrameInv, NEW b \in DOMAIN allocated
    PROVE  /\ allocated[b] \in Run /\ allocated[b].base = b /\ b \in Nat
           /\ DOMAIN Extents(allocated) = DOMAIN allocated
           /\ Extents(allocated)[b] = allocated[b].pages /\ GoodRun(b, allocated[b].pages)
<1>1. allocated[b] \in Run /\ allocated[b].base = b
  BY DEF FrameInv, FrameTypes
<1>2. DOMAIN Extents(allocated) = DOMAIN allocated /\ Extents(allocated)[b] = allocated[b].pages
  BY DEF Extents
<1>3. GoodRun(b, allocated[b].pages)
  BY <1>2 DEF FrameInv, Partition, GoodMap
<1> QED
  BY <1>1, <1>2, <1>3 DEF GoodRun

(* The record behind a handle that validate accepts. *)
LEMMA Validated ==
    ASSUME FrameInv, NEW run \in handles, ValidateAllocated(run) = "Ok"
    PROVE  /\ run.base \in DOMAIN allocated /\ run \in Run
           /\ allocated[run.base].generation = run.generation
           /\ allocated[run.base].pages = run.pages
BY DEF ValidateAllocated, FrameInv, FrameTypes

LEMMA GenerationNat ==
    ASSUME FrameTypes, NEW b PROVE GenerationAt(b) \in Nat
BY DEF FrameTypes, GenerationAt

(* The invariant does not depend on the error that was returned last. *)
LEMMA FrameIdle ==
    ASSUME FrameInv,
           UNCHANGED <<free, allocated, frameGenerations, loans, handles, managed, buried, cut>>
    PROVE  FrameInv'
<1>1. FrameTypes' /\ LoansStayAllocated' /\ Dated'
  BY DEF FrameInv, FrameTypes, LoansStayAllocated, Dated, GenerationAt
<1>2. Partition(free, allocated, managed)'
  BY DEF FrameInv
<1> QED
  BY <1>1, <1>2 DEF FrameInv

LEMMA RefuseKeeps ==
    ASSUME FrameInv, NEW reason, Refuse(reason) PROVE FrameInv'
BY FrameIdle DEF Refuse

(* add_region: the new pages are new. *)
LEMMA AddRegionKeeps ==
    ASSUME FrameInv, NEW r \in Regions, Bytes(r[1], r[2]) \cap managed = {},
           AddRegion(r[1], r[2])
    PROVE  FrameInv'
<1> DEFINE base == r[1]
           pages == r[2]
           g == Insert(free, base, pages)
<1>0. base \in Nat /\ pages \in Nat
  BY FrameAssumption
<1> HIDE DEF base, pages
<1>1. CASE AddRegionError(base, pages) # "Ok"
  BY <1>1, RefuseKeeps DEF AddRegion, base, pages
<1>2. CASE AddRegionError(base, pages) = "Ok"
  <2>1. /\ free' = Coalesce(g) /\ managed' = managed \cup Bytes(base, pages)
        /\ UNCHANGED <<allocated, frameGenerations, loans, handles, buried, cut>>
    BY <1>2 DEF AddRegion, base, pages, Refuse
  <2>2. ValidateRun(base, pages) = "Ok"
    BY <1>2 DEF AddRegionError
  <2>3. GoodRun(base, pages)
    <3>1. pages * PageSize \in Nat /\ MaxAddr \in Nat
      BY <1>0, FrameAssumption
    <3>2. End(base, pages) \in Nat
      BY <1>0, <3>1 DEF End
    <3>3. pages # 0 /\ base % PageSize = 0 /\ ~(End(base, pages) > MaxAddr)
      BY <2>2 DEF ValidateRun
    <3> QED
      BY <1>0, <3>1, <3>2, <3>3 DEF GoodRun
  <2>4. \A x \in Bytes(base, pages) : ~Holds(free, x) /\ ~Holds(Extents(allocated), x)
    BY DEF FrameInv, Partition, base, pages
  <2>5. GoodMap(g) /\ \A x : Holds(g, x) <=> Holds(free, x) \/ x \in Bytes(base, pages)
    BY <2>3, <2>4, InsertKeeps DEF FrameInv, Partition
  <2> HIDE DEF g
  <2>6. GoodMap(free') /\ \A x : Holds(free', x) <=> Holds(free, x) \/ x \in Bytes(base, pages)
    BY <2>1, <2>5, CoalesceKeeps
  <2>7. Partition(free', allocated', managed')
    BY <2>1, <2>4, <2>6 DEF FrameInv, Partition
  <2>8. FrameTypes' /\ LoansStayAllocated' /\ Dated'
    BY <2>1 DEF FrameInv, FrameTypes, LoansStayAllocated, Dated, GenerationAt
  <2> QED
    BY <2>7, <2>8 DEF FrameInv
<1> QED
  BY <1>1, <1>2

(* allocate: the granted run comes out of one free run. *)
LEMMA AllocateKeeps ==
    ASSUME FrameInv, NEW q \in Requests, Allocate(q[1], q[2])
    PROVE  FrameInv'
<1> DEFINE pages == q[1]
           ap == q[2]
           alignment == ap * PageSize
           fitting == {b \in DOMAIN free : Fits(b, pages, alignment)}
           base == CHOOSE b \in fitting : \A c \in fitting : b <= c
           start == AlignedIn(base, alignment)
           prefix == (start - base) \div PageSize
           run == [base |-> start, pages |-> pages,
                   generation |-> GenerationAt(start), zeroed |-> FALSE]
<1>0. pages \in Nat /\ ap \in Nat
  BY FrameAssumption
<1>1. CASE ~(/\ pages # 0 /\ ap # 0 /\ IsPowerOfTwo(ap) /\ alignment <= MaxAddr
             /\ fitting # {})
  <2> HIDE DEF fitting
  <2>1. PICK reason : Refuse(reason)
    <3>1. alignment <= MaxAddr <=> ~(alignment > MaxAddr)
      BY <1>0, FrameAssumption
    <3> QED
      BY <1>1, <3>1 DEF Allocate, fitting
  <2> QED
    BY <2>1, RefuseKeeps
<1>2. CASE /\ pages # 0 /\ ap # 0 /\ IsPowerOfTwo(ap) /\ alignment <= MaxAddr
           /\ fitting # {}
  <2>1. /\ free' = Remainder(base, start, pages)
        /\ allocated' = Insert(allocated, start, run) /\ handles' = handles \cup {run}
        /\ UNCHANGED <<frameGenerations, loans, managed, buried, cut>>
    <3>1. ~(alignment > MaxAddr)
      BY <1>0, <1>2, FrameAssumption
    <3> QED
      BY <1>2, <3>1 DEF Allocate, Grant
  <2>2. base \in fitting
    <3>1. fitting \in SUBSET Nat
      BY DEF FrameInv, Partition, GoodMap, GoodRun
    <3>2. PICK b \in fitting : \A c \in fitting : b <= c
      <4> HIDE DEF fitting
      <4> QED
        BY <1>2, <3>1, LeastAddress
    <3> HIDE DEF fitting
    <3> QED
      BY <3>2
  <2>3. base \in DOMAIN free /\ prefix + pages <= free[base]
    BY <2>2 DEF Fits
  <2> HIDE DEF base
  <2>4. GoodMap(free) /\ GoodRun(base, free[base]) /\ pages \in Nat \ {0} /\ ap \in Nat \ {0}
    BY <1>0, <1>2, <2>3 DEF FrameInv, Partition, GoodMap
  <2>5. prefix \in Nat /\ start = End(base, prefix)
    <3>1. start = AlignedIn(base, ap * PageSize)
      OBVIOUS
    <3> HIDE DEF start, pages, ap
    <3> QED
      BY <2>3, <2>4, <3>1, AlignedFits
  <2> HIDE DEF start, pages
  <2>6. /\ GoodMap(free') /\ GoodRun(start, pages)
        /\ \A x : Holds(free', x) <=> Holds(free, x) /\ x \notin Bytes(start, pages)
        /\ \A x \in Bytes(start, pages) : Holds(free, x)
    <3>1. prefix = (start - base) \div PageSize
      OBVIOUS
    <3> HIDE DEF prefix
    <3> QED
      BY <2>1, <2>3, <2>4, <2>5, <3>1, RemainderKeeps
  <2>7. \A x \in Bytes(start, pages) : ~Holds(Extents(allocated), x)
    BY <2>6 DEF FrameInv, Partition
  <2>8. Extents(allocated') = Insert(Extents(allocated), start, pages)
    BY <2>1, ExtentsOfInsert
  <2>9. /\ GoodMap(Extents(allocated')) /\ start \notin DOMAIN Extents(allocated)
        /\ \A x : Holds(Extents(allocated'), x) <=>
                     Holds(Extents(allocated), x) \/ x \in Bytes(start, pages)
    BY <2>6, <2>7, <2>8, InsertKeeps DEF FrameInv, Partition
  <2>10. Partition(free', allocated', managed')
    BY <2>1, <2>6, <2>7, <2>9 DEF FrameInv, Partition
  <2>11. start \notin DOMAIN allocated
    BY <2>9 DEF Extents
  <2>12. run \in Run /\ run.base = start /\ run.generation = GenerationAt(start)
         /\ run.pages = pages
    BY <2>4, <2>6, GenerationNat DEF Run, GoodRun, FrameInv
  <2> HIDE DEF run
  <2>13. /\ DOMAIN allocated' = DOMAIN allocated \cup {start} /\ allocated'[start] = run
         /\ \A b \in DOMAIN allocated : b # start /\ allocated'[b] = allocated[b]
    BY <2>1, <2>11 DEF Insert
  <2>14. FrameTypes'
    BY <2>1, <2>12, <2>13 DEF FrameInv, FrameTypes
  <2>15. \A b : GenerationAt(b)' = GenerationAt(b)
    BY <2>1 DEF GenerationAt
  <2>16. LoansStayAllocated'
    BY <2>1, <2>13, <2>15 DEF FrameInv, LoansStayAllocated
  <2>17. Dated'
    BY <2>1, <2>11, <2>12, <2>13, <2>15, GenerationNat DEF FrameInv, Dated
  <2> QED
    BY <2>10, <2>14, <2>16, <2>17 DEF FrameInv
<1> QED
  BY <1>1, <1>2

(* A record that keeps its place and its size keeps the partition. *)
LEMMA SamePlace ==
    ASSUME FrameInv, NEW b \in DOMAIN allocated, NEW run \in Run, run.base = b,
           run.pages = allocated[b].pages,
           allocated' = Insert(allocated, b, run), UNCHANGED <<free, managed>>
    PROVE  /\ Partition(free', allocated', managed')
           /\ DOMAIN allocated' = DOMAIN allocated /\ allocated'[b] = run
           /\ \A c \in DOMAIN allocated : c # b => allocated'[c] = allocated[c]
           /\ \A c \in DOMAIN allocated' : allocated'[c] \in Run /\ allocated'[c].base = c
<1>1. /\ DOMAIN allocated' = DOMAIN allocated /\ allocated'[b] = run
      /\ \A c \in DOMAIN allocated : c # b => allocated'[c] = allocated[c]
  BY DEF Insert
<1>2. Extents(allocated') = Extents(allocated)
  BY <1>1 DEF Extents
<1>3. Partition(free', allocated', managed')
  BY <1>2 DEF FrameInv, Partition
<1> QED
  BY <1>1, <1>3 DEF FrameInv, FrameTypes

(* mark_zeroed *)
LEMMA MarkZeroedKeeps ==
    ASSUME FrameInv, NEW run \in handles, MarkZeroed(run) PROVE FrameInv'
<1>1. CASE ValidateAllocated(run) # "Ok"
  BY <1>1, RefuseKeeps DEF MarkZeroed
<1>2. CASE ValidateAllocated(run) = "Ok"
  <2> DEFINE b == run.base
             live == allocated[b]
             zeroed == [live EXCEPT !.zeroed = TRUE]
  <2>1. b \in DOMAIN allocated /\ live \in Run /\ live.base = b
    BY <1>2, Validated, AllocatedRun
  <2>2. /\ zeroed \in Run /\ zeroed.base = b /\ zeroed.pages = live.pages
        /\ zeroed.generation = live.generation
    BY <2>1 DEF Run
  <2>3. /\ allocated' = Insert(allocated, b, zeroed) /\ handles' = handles \cup {zeroed}
        /\ UNCHANGED <<free, frameGenerations, loans, managed, buried, cut>>
    BY <1>2, <2>2 DEF MarkZeroed, Grant, Refuse
  <2> HIDE DEF b, zeroed
  <2>4. /\ Partition(free', allocated', managed')
        /\ DOMAIN allocated' = DOMAIN allocated /\ allocated'[b] = zeroed
        /\ \A c \in DOMAIN allocated : c # b => allocated'[c] = allocated[c]
        /\ \A c \in DOMAIN allocated' : allocated'[c] \in Run /\ allocated'[c].base = c
    BY <2>1, <2>2, <2>3, SamePlace
  <2>5. FrameTypes'
    BY <2>2, <2>3, <2>4 DEF FrameInv, FrameTypes
  <2>6. \A c : GenerationAt(c)' = GenerationAt(c)
    BY <2>3 DEF GenerationAt
  <2>7. \A c \in DOMAIN allocated : /\ allocated'[c].generation = allocated[c].generation
                                   /\ allocated'[c].pages = allocated[c].pages
    BY <2>2, <2>4
  <2>8. LoansStayAllocated'
    BY <2>3, <2>4, <2>6, <2>7 DEF FrameInv, LoansStayAllocated
  <2>9. Dated'
    <3> SUFFICES ASSUME ~cut PROVE Dated'
      BY <2>3 DEF Dated
    <3>1. live.generation = GenerationAt(b) /\ GenerationAt(b) \in Nat
      BY <2>1, GenerationNat DEF FrameInv, Dated
    <3> QED
      BY <2>1, <2>2, <2>3, <2>4, <2>6, <2>7, <3>1 DEF FrameInv, Dated
  <2> QED
    BY <2>4, <2>5, <2>8, <2>9 DEF FrameInv
<1> QED
  BY <1>1, <1>2

(* What lend and reclaim have in common: the run gets the next generation. *)
LEMMA BumpKeeps ==
    ASSUME FrameInv, NEW run \in handles, ValidateAllocated(run) = "Ok", Bump(run),
           DOMAIN loans' \subseteq DOMAIN loans \cup {run.base}
    PROVE  FrameInv'
<1> DEFINE b == run.base
           live == allocated[b]
           renewed == [live EXCEPT !.generation = @ + 1]
<1>1. b \in DOMAIN allocated /\ live \in Run /\ live.base = b
  BY Validated, AllocatedRun
<1>2. /\ renewed \in Run /\ renewed.base = b /\ renewed.pages = live.pages
      /\ renewed.generation = live.generation + 1 /\ live.generation \in Nat
  BY <1>1 DEF Run
<1>3. /\ allocated' = Insert(allocated, b, renewed) /\ handles' = handles \cup {renewed}
      /\ frameGenerations' = Insert(frameGenerations, b, renewed.generation)
      /\ UNCHANGED <<free, managed, buried, cut>>
  BY <1>2 DEF Bump, Grant
<1> HIDE DEF b, renewed
<1>4. /\ Partition(free', allocated', managed')
      /\ DOMAIN allocated' = DOMAIN allocated /\ allocated'[b] = renewed
      /\ \A c \in DOMAIN allocated : c # b => allocated'[c] = allocated[c]
      /\ \A c \in DOMAIN allocated' : allocated'[c] \in Run /\ allocated'[c].base = c
  BY <1>1, <1>2, <1>3, SamePlace
<1>5. /\ DOMAIN frameGenerations' = DOMAIN frameGenerations \cup {b}
      /\ frameGenerations'[b] = renewed.generation
      /\ \A c \in DOMAIN frameGenerations : c # b => frameGenerations'[c] = frameGenerations[c]
  BY <1>3 DEF Insert
<1>6. FrameTypes'
  <2>1. \A c \in DOMAIN frameGenerations' : frameGenerations'[c] \in Nat
    BY <1>2, <1>5 DEF FrameInv, FrameTypes
  <2> QED
    BY <1>2, <1>3, <1>4, <2>1 DEF FrameInv, FrameTypes
<1>7. GenerationAt(b)' = renewed.generation /\ \A c : c # b => GenerationAt(c)' = GenerationAt(c)
  BY <1>5 DEF GenerationAt
<1>8. LoansStayAllocated'
  <2>1. DOMAIN loans' \subseteq DOMAIN allocated'
    BY <1>1, <1>4 DEF FrameInv, LoansStayAllocated, b
  <2>2. ASSUME NEW c \in DOMAIN loans' PROVE GenerationAt(c)' = allocated'[c].generation
    <3>1. CASE c = b
      BY <1>4, <1>7, <3>1
    <3>2. CASE c # b
      BY <1>4, <1>7, <3>2 DEF FrameInv, LoansStayAllocated, b
    <3> QED
      BY <3>1, <3>2
  <2> QED
    BY <2>1, <2>2 DEF LoansStayAllocated
<1>9. Dated'
  <2> SUFFICES ASSUME ~cut PROVE Dated'
    BY <1>3 DEF Dated
  <2>1. live.generation = GenerationAt(b)
    BY <1>1 DEF FrameInv, Dated
  <2>2. \A c \in DOMAIN allocated' : allocated'[c].generation = GenerationAt(c)'
    BY <1>4, <1>7 DEF FrameInv, Dated
  <2>3. \A h \in handles : /\ h.generation \in Nat /\ h.generation <= GenerationAt(h.base)
                            /\ GenerationAt(h.base) \in Nat
    BY GenerationNat DEF FrameInv, Dated, FrameTypes, Run
  <2>4. ASSUME NEW h \in handles'
        PROVE  /\ h.generation <= GenerationAt(h.base)'
               /\ h.generation = GenerationAt(h.base)' =>
                     h.base \in DOMAIN allocated' /\ allocated'[h.base].pages = h.pages
    <3>1. CASE h = renewed
      BY <1>1, <1>2, <1>4, <1>7, <3>1
    <3>2. CASE h \in handles /\ h.base = b
      <4>1. h.generation < GenerationAt(h.base)'
        BY <1>2, <1>7, <2>1, <2>3, <3>2
      <4>2. GenerationAt(h.base)' \in Nat /\ h.generation \in Nat
        BY <1>2, <1>7, <2>3, <3>2
      <4> QED
        BY <4>1, <4>2
    <3>3. CASE h \in handles /\ h.base # b
      BY <1>4, <1>7, <3>3 DEF FrameInv, Dated
    <3> QED
      BY <1>3, <3>1, <3>2, <3>3
  <2>5. ASSUME NEW h \in buried' PROVE h.generation < GenerationAt(h.base)'
    <3>1. h \in buried /\ h \in handles /\ h.generation < GenerationAt(h.base)
      BY <1>3 DEF FrameInv, FrameTypes, Dated
    <3> QED
      BY <1>2, <1>7, <2>1, <2>3, <3>1
  <2> QED
    BY <2>2, <2>4, <2>5 DEF Dated
<1> QED
  BY <1>4, <1>6, <1>8, <1>9 DEF FrameInv

LEMMA LendKeeps ==
    ASSUME FrameInv, NEW run \in handles, NEW borrower, Lend(run, borrower) PROVE FrameInv'
<1>1. \/ \E reason : Refuse(reason)
      \/ /\ ValidateAllocated(run) = "Ok" /\ Bump(run)
         /\ loans' = Insert(loans, run.base, borrower)
  BY DEF Lend
<1>2. CASE loans' = Insert(loans, run.base, borrower) /\ ValidateAllocated(run) = "Ok" /\ Bump(run)
  BY <1>2, BumpKeeps DEF Insert
<1> QED
  BY <1>1, <1>2, RefuseKeeps

LEMMA ReclaimKeeps ==
    ASSUME FrameInv, NEW run \in handles, NEW borrower, Reclaim(run, borrower) PROVE FrameInv'
<1>1. \/ \E reason : Refuse(reason)
      \/ /\ ValidateAllocated(run) = "Ok" /\ Bump(run)
         /\ loans' = Without(loans, {run.base})
  BY DEF Reclaim
<1>2. CASE loans' = Without(loans, {run.base}) /\ ValidateAllocated(run) = "Ok" /\ Bump(run)
  BY <1>2, BumpKeeps DEF Without
<1> QED
  BY <1>1, <1>2, RefuseKeeps

(* release: the pages go back to the free map, and every handle that overlaps
   them is behind the generation at its base. *)
LEMMA ReleaseRunKeeps ==
    ASSUME FrameInv, NEW run \in handles, run.generation < FrameGenerations, ReleaseRun(run)
    PROVE  FrameInv'
<1>1. CASE ReleaseError(run) # "Ok"
  BY <1>1, RefuseKeeps DEF ReleaseRun
<1>2. CASE ReleaseError(run) = "Ok"
  <2> DEFINE b == run.base
             pages == run.pages
             g == Insert(free, b, pages)
             dead == {h \in handles : Overlap(h, run)}
  <2>1. ValidateAllocated(run) = "Ok" /\ b \notin DOMAIN loans
    BY <1>2 DEF ReleaseError, Lent
  <2>2. /\ b \in DOMAIN allocated /\ run \in Run /\ run.generation \in Nat
        /\ allocated[b].generation = run.generation /\ allocated[b].pages = pages
        /\ Extents(allocated)[b] = pages /\ DOMAIN Extents(allocated) = DOMAIN allocated
        /\ GoodRun(b, pages)
    BY <2>1, Validated, AllocatedRun DEF Run
  <2>3. run.generation # FrameGenerations
    BY <2>2, FrameAssumption
  <2>4. /\ allocated' = Without(allocated, {b}) /\ free' = Coalesce(g)
        /\ frameGenerations' = Insert(frameGenerations, b, run.generation + 1)
        /\ buried' = buried \cup dead /\ UNCHANGED <<loans, handles, managed, cut>>
    BY <1>2, <2>3 DEF ReleaseRun, Refuse
  <2> HIDE DEF b, pages, dead
  <2>5. /\ DOMAIN allocated' = DOMAIN allocated \ {b}
        /\ \A c \in DOMAIN allocated' : allocated'[c] = allocated[c]
    BY <2>4 DEF Without
  <2>6. /\ DOMAIN frameGenerations' = DOMAIN frameGenerations \cup {b}
        /\ frameGenerations'[b] = run.generation + 1
        /\ \A c \in DOMAIN frameGenerations : c # b => frameGenerations'[c] = frameGenerations[c]
    BY <2>4 DEF Insert
  <2>7. /\ GenerationAt(b)' = run.generation + 1
        /\ \A c : c # b => GenerationAt(c)' = GenerationAt(c)
    BY <2>6 DEF GenerationAt
  <2>8. FrameTypes'
    <3>1. \A c \in DOMAIN frameGenerations' : frameGenerations'[c] \in Nat
      BY <2>2, <2>6 DEF FrameInv, FrameTypes
    <3> QED
      BY <2>4, <2>5, <3>1 DEF FrameInv, FrameTypes, dead
  <2>9. Partition(free', allocated', managed')
    <3>1. /\ GoodMap(Without(Extents(allocated), {b}))
          /\ \A x : Holds(Without(Extents(allocated), {b}), x) <=>
                       Holds(Extents(allocated), x) /\ x \notin Bytes(b, pages)
      BY <2>2, WithoutKeeps DEF FrameInv, Partition
    <3>2. Extents(allocated') = Without(Extents(allocated), {b})
      BY <2>4, ExtentsOfWithout
    <3>3. \A x \in Bytes(b, pages) : Holds(Extents(allocated), x) /\ ~Holds(free, x)
      BY <2>2 DEF Holds, FrameInv, Partition
    <3>4. GoodMap(g) /\ \A x : Holds(g, x) <=> Holds(free, x) \/ x \in Bytes(b, pages)
      BY <2>2, <3>3, InsertKeeps DEF FrameInv, Partition
    <3> HIDE DEF g
    <3>5. GoodMap(free') /\ \A x : Holds(free', x) <=> Holds(free, x) \/ x \in Bytes(b, pages)
      BY <2>4, <3>4, CoalesceKeeps
    <3> QED
      BY <2>4, <3>1, <3>2, <3>3, <3>5 DEF FrameInv, Partition
  <2>10. LoansStayAllocated'
    BY <2>1, <2>4, <2>5, <2>7 DEF FrameInv, LoansStayAllocated, b
  <2>11. Dated'
    <3> SUFFICES ASSUME ~cut PROVE Dated'
      BY <2>4 DEF Dated
    <3>1. run.generation = GenerationAt(b)
      BY <2>2 DEF FrameInv, Dated
    <3>2. \A h \in handles : /\ h.generation \in Nat /\ h.generation <= GenerationAt(h.base)
                              /\ GenerationAt(h.base) \in Nat
      BY GenerationNat DEF FrameInv, Dated, FrameTypes, Run
    <3>3. ASSUME NEW h \in handles, h.base = b PROVE h.generation < GenerationAt(h.base)'
      BY <2>2, <2>7, <3>1, <3>2, <3>3
    <3>4. ASSUME NEW h \in handles
          PROVE  /\ h.generation <= GenerationAt(h.base)'
                 /\ h.generation = GenerationAt(h.base)' =>
                       h.base \in DOMAIN allocated' /\ allocated'[h.base].pages = h.pages
      <4>1. CASE h.base = b
        <5>1. GenerationAt(h.base)' \in Nat
          BY <2>2, <2>7, <4>1
        <5> QED
          BY <3>2, <3>3, <4>1, <5>1
      <4>2. CASE h.base # b
        BY <2>5, <2>7, <4>2 DEF FrameInv, Dated
      <4> QED
        BY <4>1, <4>2
    <3>5. ASSUME NEW h \in buried PROVE h.generation < GenerationAt(h.base)'
      BY <2>7, <3>3 DEF FrameInv, FrameTypes, Dated
    <3>6. ASSUME NEW h \in dead PROVE h.generation < GenerationAt(h.base)'
      <4>1. PICK x : x \in Bytes(h.base, h.pages) /\ x \in Bytes(b, pages)
        BY DEF dead, Overlap, b, pages
      <4>2. h \in handles
        BY DEF dead
      <4>3. CASE h.base = b
        BY <3>3, <4>2, <4>3
      <4>4. CASE h.base # b
        <5>1. GenerationAt(h.base)' = GenerationAt(h.base)
          BY <2>7, <4>4
        <5>2. h.generation # GenerationAt(h.base)
          <6> SUFFICES ASSUME h.generation = GenerationAt(h.base) PROVE FALSE
            OBVIOUS
          <6>1. h.base \in DOMAIN allocated /\ Extents(allocated)[h.base] = h.pages
            BY <4>2 DEF FrameInv, Dated, Extents
          <6> QED
            BY <2>2, <4>1, <4>4, <6>1 DEF FrameInv, Partition, GoodMap
        <5> QED
          BY <3>2, <4>2, <5>1, <5>2
      <4> QED
        BY <4>3, <4>4
    <3>7. \A c \in DOMAIN allocated' : allocated'[c].generation = GenerationAt(c)'
      BY <2>5, <2>7 DEF FrameInv, Dated
    <3> QED
      BY <2>4, <3>4, <3>5, <3>6, <3>7 DEF Dated
  <2> QED
    BY <2>8, <2>9, <2>10, <2>11 DEF FrameInv
<1> QED
  BY <1>1, <1>2

(* split_allocated: the two halves are the run. *)
LEMMA SplitKeeps ==
    ASSUME FrameInv, NEW run \in handles, NEW n \in 0..run.pages, SplitAllocated(run, n)
    PROVE  FrameInv'
<1>0. run \in Run
  BY DEF FrameInv, FrameTypes
<1>1. CASE ~(ValidateAllocated(run) = "Ok" /\ ~Lent(run) /\ n # 0 /\ ~(n >= run.pages))
  <2>1. PICK reason : Refuse(reason)
    BY <1>1 DEF SplitAllocated
  <2> QED
    BY <2>1, RefuseKeeps
<1>2. CASE ValidateAllocated(run) = "Ok" /\ ~Lent(run) /\ n # 0 /\ ~(n >= run.pages)
  <2> DEFINE b == run.base
             live == allocated[b]
             m == End(b, n)
             left == [live EXCEPT !.pages = n]
             right == [live EXCEPT !.base = m, !.pages = live.pages - n]
  <2>1. /\ b \in DOMAIN allocated /\ live \in Run /\ live.base = b /\ live.pages = run.pages
        /\ GoodRun(b, live.pages) /\ DOMAIN Extents(allocated) = DOMAIN allocated
        /\ Extents(allocated)[b] = live.pages
    BY <1>2, Validated, AllocatedRun
  <2>2. n \in 1..live.pages - 1 /\ b \notin DOMAIN loans
    <3>1. run.pages \in Nat
      BY <1>0 DEF Run
    <3> QED
      BY <1>2, <2>1, <3>1 DEF Lent
  <2>3. /\ GoodRun(b, n) /\ GoodRun(m, live.pages - n) /\ b < m /\ m < End(b, live.pages)
        /\ \A x : x \in Bytes(b, live.pages) <=>
                    x \in Bytes(b, n) \/ x \in Bytes(m, live.pages - n)
        /\ \A x : ~(x \in Bytes(b, n) /\ x \in Bytes(m, live.pages - n))
    BY <2>1, <2>2, CutInTwo
  <2>4. /\ left \in Run /\ left.base = b /\ left.pages = n /\ left.generation = live.generation
        /\ right \in Run /\ right.base = m /\ right.pages = live.pages - n
        /\ right.generation = live.generation /\ live.generation \in Nat
    BY <2>1, <2>3 DEF Run, GoodRun
  <2>5. /\ allocated' = Insert(Insert(allocated, b, left), m, right)
        /\ frameGenerations' = IF m \in DOMAIN frameGenerations THEN frameGenerations
                               ELSE Insert(frameGenerations, m, right.generation)
        /\ handles' = handles \cup {left, right} /\ cut' = TRUE
        /\ UNCHANGED <<free, loans, managed, buried>>
    BY <1>2, <2>4 DEF SplitAllocated, Refuse
  <2> HIDE DEF b, m, left, right
  <2>6. m # b /\ m \notin DOMAIN allocated
    <3>1. m \in Bytes(m, live.pages - n) /\ m \in Bytes(b, live.pages) /\ m # b
      BY <2>3, RunExtent DEF GoodRun
    <3>2. m \in DOMAIN allocated => m \in Bytes(m, Extents(allocated)[m])
      BY <2>1, RunExtent DEF FrameInv, Partition, GoodMap
    <3> QED
      BY <2>1, <3>1, <3>2 DEF FrameInv, Partition, GoodMap
  <2>7. /\ DOMAIN allocated' = DOMAIN allocated \cup {m} /\ allocated'[b] = left
        /\ allocated'[m] = right
        /\ \A c \in DOMAIN allocated : c # b => c # m /\ allocated'[c] = allocated[c]
    BY <2>1, <2>5, <2>6 DEF Insert
  <2>8. \A c \in DOMAIN frameGenerations' : frameGenerations'[c] \in Nat
    BY <2>4, <2>5 DEF FrameInv, FrameTypes, Insert
  <2>9. FrameTypes'
    BY <2>4, <2>5, <2>7, <2>8 DEF FrameInv, FrameTypes
  <2>10. Partition(free', allocated', managed')
    <3> DEFINE e == Extents(allocated)
               w == Without(e, {b})
               l == Insert(w, b, n)
               r == Insert(l, m, live.pages - n)
    <3>1. Extents(allocated') = r
      BY <2>4, <2>5, ExtentsOfInsert, InsertReplaces
    <3> HIDE DEF e, w, l, r
    <3>2. GoodMap(w) /\ \A x : Holds(w, x) <=> Holds(e, x) /\ x \notin Bytes(b, live.pages)
      BY <2>1, WithoutKeeps DEF FrameInv, Partition, w, e
    <3>3. GoodMap(l) /\ \A x : Holds(l, x) <=> Holds(w, x) \/ x \in Bytes(b, n)
      BY <2>3, <3>2, InsertKeeps DEF l
    <3>4. GoodMap(r) /\ \A x : Holds(r, x) <=> Holds(l, x) \/ x \in Bytes(m, live.pages - n)
      BY <2>3, <3>2, <3>3, InsertKeeps DEF r
    <3>5. \A x \in Bytes(b, live.pages) : Holds(e, x)
      BY <2>1 DEF Holds, e
    <3>6. \A x : Holds(r, x) <=> Holds(e, x)
      BY <2>3, <3>2, <3>3, <3>4, <3>5
    <3> QED
      BY <2>5, <3>1, <3>4, <3>6 DEF FrameInv, Partition, e
  <2>11. LoansStayAllocated'
    <3>1. ASSUME NEW c \in DOMAIN loans'
          PROVE  c \in DOMAIN allocated' /\ GenerationAt(c)' = allocated'[c].generation
      <4>1. c \in DOMAIN allocated /\ c # b /\ c # m
        BY <2>2, <2>5, <2>6 DEF FrameInv, LoansStayAllocated
      <4>2. GenerationAt(c)' = GenerationAt(c)
        BY <2>5, <4>1 DEF GenerationAt, Insert
      <4> QED
        BY <2>5, <2>7, <4>1, <4>2 DEF FrameInv, LoansStayAllocated
    <3> QED
      BY <3>1 DEF LoansStayAllocated
  <2>12. Dated'
    BY <2>5 DEF Dated
  <2> QED
    BY <2>9, <2>10, <2>11, <2>12 DEF FrameInv
<1> QED
  BY <1>1, <1>2

(* join_allocated: the joined run is the two. *)
LEMMA JoinKeeps ==
    ASSUME FrameInv, NEW left \in handles, NEW right \in handles, JoinAllocated(left, right)
    PROVE  FrameInv'
<1> DEFINE l == left.base
           r == right.base
<1>1. CASE ~(/\ ValidateAllocated(left) = "Ok" /\ ValidateAllocated(right) = "Ok"
             /\ ~Lent(left) /\ ~Lent(right)
             /\ JoinError(allocated[l], allocated[r]) = "Ok")
  <2>1. PICK reason : Refuse(reason)
    BY <1>1 DEF JoinAllocated
  <2> QED
    BY <2>1, RefuseKeeps
<1>2. CASE /\ ValidateAllocated(left) = "Ok" /\ ValidateAllocated(right) = "Ok"
           /\ ~Lent(left) /\ ~Lent(right)
           /\ JoinError(allocated[l], allocated[r]) = "Ok"
  <2> DEFINE joined == [allocated[l] EXCEPT !.pages = @ + allocated[r].pages]
             i == allocated[l].pages
             j == allocated[r].pages
  <2>1. /\ l \in DOMAIN allocated /\ allocated[l] \in Run /\ allocated[l].base = l
        /\ GoodRun(l, i) /\ Extents(allocated)[l] = i
        /\ r \in DOMAIN allocated /\ allocated[r] \in Run /\ allocated[r].base = r
        /\ GoodRun(r, j) /\ Extents(allocated)[r] = j
        /\ DOMAIN Extents(allocated) = DOMAIN allocated
    BY <1>2, Validated, AllocatedRun
  <2>2. r = End(l, i) /\ l \notin DOMAIN loans /\ r \notin DOMAIN loans
    BY <1>2, <2>1 DEF JoinError, Lent
  <2>3. joined \in Run /\ joined.base = l /\ joined.pages = i + j
    BY <2>1 DEF Run
  <2>4. /\ allocated' = Insert(Without(allocated, {r}), l, joined)
        /\ handles' = handles \cup {joined} /\ cut' = TRUE
        /\ UNCHANGED <<free, frameGenerations, loans, managed, buried>>
    BY <1>2 DEF JoinAllocated, Refuse
  <2> HIDE DEF l, r, joined, i, j
  <2>5. /\ l \in Nat /\ r \in Nat /\ l < r /\ GoodRun(l, i + j) /\ i \in Nat \ {0}
        /\ j \in Nat \ {0} /\ i \in 1..(i + j) - 1 /\ (i + j) - i = j
    <3>1. /\ l \in Nat /\ r \in Nat /\ l < r /\ i \in Nat \ {0} /\ j \in Nat \ {0}
          /\ l % PageSize = 0 /\ End(r, j) <= MaxAddr
      BY <2>1, <2>2, RunExtent DEF GoodRun
    <3>2. /\ (i + j) * PageSize = i * PageSize + j * PageSize /\ i * PageSize \in Nat
          /\ j * PageSize \in Nat
      BY <3>1, FrameAssumption
    <3>3. End(l, i + j) = End(r, j)
      BY <2>2, <3>1, <3>2 DEF End
    <3> QED
      BY <3>1, <3>3 DEF GoodRun
  <2>6. /\ DOMAIN allocated' = DOMAIN allocated \ {r} /\ allocated'[l] = joined
        /\ \A c \in DOMAIN allocated' : c # l => allocated'[c] = allocated[c]
    BY <2>1, <2>4, <2>5 DEF Insert, Without
  <2>7. FrameTypes'
    <3>1. \A b \in DOMAIN allocated' : allocated'[b] \in Run /\ allocated'[b].base = b
      <4> SUFFICES ASSUME NEW b \in DOMAIN allocated'
                   PROVE  allocated'[b] \in Run /\ allocated'[b].base = b
        OBVIOUS
      <4>1. CASE b = l
        BY <2>3, <2>6, <4>1
      <4>2. CASE b # l
        BY <2>6, <4>2 DEF FrameInv, FrameTypes
      <4> QED
        BY <4>1, <4>2
    <3>2. handles' \subseteq Run /\ buried' \subseteq handles'
      BY <2>3, <2>4 DEF FrameInv, FrameTypes
    <3> QED
      BY <2>4, <3>1, <3>2 DEF FrameInv, FrameTypes
  <2>8. Partition(free', allocated', managed')
    <3> DEFINE e == Extents(allocated)
               u == Without(e, {r})
               w == Without(u, {l})
               g == Insert(w, l, i + j)
    <3>1. Extents(allocated') = g
      BY <2>3, <2>4, ExtentsOfInsert, ExtentsOfWithout, InsertReplaces
    <3> HIDE DEF e, u, w, g
    <3>2. /\ GoodMap(u) /\ \A x : Holds(u, x) <=> Holds(e, x) /\ x \notin Bytes(r, j)
          /\ l \in DOMAIN u /\ u[l] = i
      <4>1. GoodMap(e) /\ r \in DOMAIN e /\ e[r] = j /\ l \in DOMAIN e /\ e[l] = i
        BY <2>1 DEF FrameInv, Partition, e
      <4>2. l # r
        BY <2>5
      <4> QED
        BY <4>1, <4>2, WithoutKeeps DEF u
    <3>3. GoodMap(w) /\ \A x : Holds(w, x) <=> Holds(u, x) /\ x \notin Bytes(l, i)
      BY <3>2, WithoutKeeps DEF w
    <3>4. \A x : x \in Bytes(l, i + j) <=> x \in Bytes(l, i) \/ x \in Bytes(r, j)
      BY <2>2, <2>5, CutInTwo
    <3>5. GoodMap(g) /\ \A x : Holds(g, x) <=> Holds(w, x) \/ x \in Bytes(l, i + j)
      BY <2>5, <3>2, <3>3, <3>4, InsertKeeps DEF g
    <3>6. \A x : x \in Bytes(l, i) \/ x \in Bytes(r, j) => Holds(e, x)
      BY <2>1 DEF Holds, e
    <3>7. \A x : Holds(g, x) <=> Holds(e, x)
      BY <3>2, <3>3, <3>4, <3>5, <3>6
    <3> QED
      BY <2>4, <3>1, <3>5, <3>7 DEF FrameInv, Partition, e
  <2>9. LoansStayAllocated'
    BY <2>2, <2>4, <2>6 DEF FrameInv, LoansStayAllocated, GenerationAt
  <2>10. Dated'
    BY <2>4 DEF Dated
  <2> QED
    BY <2>7, <2>8, <2>9, <2>10 DEF FrameInv
<1> QED
  BY <1>1, <1>2

LEMMA FrameInductive == FrameInv /\ [FrameNext]_frameVars => FrameInv'
<1> SUFFICES ASSUME FrameInv, [FrameNext]_frameVars PROVE FrameInv'
  OBVIOUS
<1>1. CASE UNCHANGED frameVars
  BY <1>1, FrameIdle DEF frameVars
<1>2. CASE FrameNext
  BY <1>2, AddRegionKeeps, AllocateKeeps, MarkZeroedKeeps, LendKeeps, ReclaimKeeps,
     ReleaseRunKeeps, SplitKeeps, JoinKeeps DEF FrameNext
<1> QED
  BY <1>1, <1>2

LEMMA FrameImplies == FrameInv => FramesAccounted
<1> SUFFICES ASSUME FrameInv PROVE FramesAccounted
  OBVIOUS
<1> DEFINE e == Extents(allocated)
<1>1. DOMAIN e = DOMAIN allocated /\ \A b \in DOMAIN allocated : e[b] = allocated[b].pages
  BY DEF Extents
<1>2. GoodMap(free) /\ GoodMap(e)
  BY DEF FrameInv, Partition
<1>3. /\ \A x : ~(Holds(free, x) /\ Holds(e, x))
      /\ \A x : x \in managed <=> Holds(free, x) \/ Holds(e, x)
  BY DEF FrameInv, Partition
<1> HIDE DEF e
<1>4. \A x : x \in FreeBytes <=> Holds(free, x)
  BY DEF FreeBytes, Holds
<1>5. \A x : x \in AllocatedBytes <=> Holds(e, x)
  BY <1>1 DEF AllocatedBytes, Holds
<1>6. Disjoint
  <2>1. FreeBytes \cap AllocatedBytes = {}
    BY <1>3, <1>4, <1>5
  <2>2. \A b, c \in DOMAIN free : b # c => Bytes(b, free[b]) \cap Bytes(c, free[c]) = {}
    BY <1>2 DEF GoodMap
  <2>3. \A b, c \in DOMAIN allocated :
           b # c => Bytes(b, allocated[b].pages) \cap Bytes(c, allocated[c].pages) = {}
    BY <1>1, <1>2 DEF GoodMap
  <2> QED
    BY <2>1, <2>2, <2>3 DEF Disjoint
<1>7. Conserved
  BY <1>3, <1>4, <1>5 DEF Conserved
<1>8. UncutRunsStayDead
  <2> SUFFICES ASSUME ~cut, NEW run \in buried, ValidateAllocated(run) = "Ok" PROVE FALSE
    BY DEF UncutRunsStayDead, ReleasedRunsStayDead
  <2>1. run \in handles
    BY DEF FrameInv, FrameTypes
  <2>2. run.base \in DOMAIN allocated /\ allocated[run.base].generation = run.generation
    BY <2>1, Validated
  <2>3. run.generation = GenerationAt(run.base) /\ run.generation < GenerationAt(run.base)
    BY <2>2 DEF FrameInv, Dated
  <2>4. GenerationAt(run.base) \in Nat
    BY GenerationNat DEF FrameInv
  <2> QED
    BY <2>3, <2>4
<1> QED
  BY <1>6, <1>7, <1>8 DEF FramesAccounted, FrameInv

(* FrameAllocator: through splits, joins, aligned partial allocations, loans and
   coalescing releases no frame has two owners and none is lost or invented, a
   lent run stays allocated, and without splits and joins a released handle is
   refused for ever: for any page size, regions and requests. *)
THEOREM FramesStayAccounted == ObjectsSpec => []FramesAccounted
<1>1. Init0 => FrameInv
  BY FrameInitial DEF Init0
<1>2. FrameInv /\ [Next0]_objectVars => FrameInv'
  BY FrameStep, FrameInductive
<1> QED
  BY <1>1, <1>2, FrameImplies, PTL DEF ObjectsSpec
=============================================================================
