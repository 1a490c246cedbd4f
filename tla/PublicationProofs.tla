----------------------------- MODULE PublicationProofs -----------------------------
(***************************************************************************)
(* What holds of the two publication protocols for every program, request, *)
(* shell, platform tree and number of builders, edits and upgrades.        *)
(***************************************************************************)
EXTENDS MCPublication, FiniteSetTheorems, WellFoundedInduction, TLAPS

(***************************************************************************)
(* The walk along a call graph ends with a set that is closed under it.    *)
(***************************************************************************)

(* A set of rounds has a first one. *)
LEMMA FirstRound ==
    ASSUME NEW S \in SUBSET Nat, S # {}
    PROVE  \E i \in S : \A j \in S : i <= j
<1>1. PICK i \in S : \A j \in S : <<j, i>> \notin OpToRel(<, Nat)
  BY NatLessThanWellFounded, WFMin
<1>2. ASSUME NEW j \in S PROVE i <= j
  <2>1. i \in Nat /\ j \in Nat
    OBVIOUS
  <2>2. ~(j < i)
    BY <1>1, <2>1 DEF OpToRel
  <2> QED BY <2>1, <2>2
<1> QED BY <1>2

(* The rounds of a walk, as far as the i-th *)
Rounds(g, i, start, succ, all) ==
    /\ g \in [0..i -> SUBSET all]
    /\ g[0] = start \cap all
    /\ \A j \in 1..i : g[j] = Round(g[j-1], succ, all)

LEMMA RoundStays ==
    ASSUME NEW succ, NEW all, NEW S \in SUBSET all
    PROVE  Round(S, succ, all) \in SUBSET all /\ S \subseteq Round(S, succ, all)
BY DEF Round

(* There are rounds up to any number. *)
LEMMA RoundsExist ==
    ASSUME NEW start, NEW succ, NEW all, NEW i \in Nat
    PROVE  \E g : Rounds(g, i, start, succ, all)
<1> DEFINE Missing == {k \in Nat : ~\E g : Rounds(g, k, start, succ, all)}
<1> SUFFICES ASSUME Missing # {} PROVE FALSE
  OBVIOUS
<1>1. PICK m \in Missing : \A k \in Missing : m <= k
  BY FirstRound
<1>2. CASE m = 0
  <2> DEFINE h == [x \in 0..0 |-> start \cap all]
  <2>1. Rounds(h, 0, start, succ, all)
    BY DEF Rounds
  <2> QED BY <1>2, <2>1
<1>3. CASE m # 0
  <2>1. m \in Nat /\ m - 1 \in Nat /\ ~(m <= m - 1)
    BY <1>3
  <2>2. m - 1 \notin Missing
    BY <1>1, <2>1
  <2>3. PICK g : Rounds(g, m - 1, start, succ, all)
    BY <2>1, <2>2
  <2> DEFINE h == [x \in 0..m |-> IF x = m THEN Round(g[m-1], succ, all) ELSE g[x]]
  <2>4. g \in [0..(m-1) -> SUBSET all]
    BY <2>3 DEF Rounds
  <2>5. g[m-1] \in SUBSET all
    BY <2>1, <2>4
  <2>6. Round(g[m-1], succ, all) \in SUBSET all
    BY <2>5, RoundStays
  <2>7. h \in [0..m -> SUBSET all]
    <3>1. ASSUME NEW x \in 0..m, x # m PROVE x \in 0..(m-1)
      BY <2>1, <3>1
    <3> QED BY <2>4, <2>6, <3>1
  <2>8. h[0] = start \cap all
    BY <2>1, <2>3, <1>3 DEF Rounds
  <2>9. ASSUME NEW j \in 1..m PROVE h[j] = Round(h[j-1], succ, all)
    <3>1. j - 1 \in 0..m /\ j - 1 # m /\ j \in 0..m
      BY <2>1
    <3>2. h[j-1] = g[j-1]
      BY <3>1
    <3>3. CASE j = m
      BY <3>1, <3>2, <3>3
    <3>4. CASE j # m
      <4>1. j \in 1..(m-1)
        BY <2>1, <3>4
      <4>2. g[j] = Round(g[j-1], succ, all)
        BY <4>1, <2>3 DEF Rounds
      <4> QED BY <3>1, <3>2, <3>4, <4>2
    <3> QED BY <3>3, <3>4
  <2>10. Rounds(h, m, start, succ, all)
    BY <2>7, <2>8, <2>9 DEF Rounds
  <2> QED BY <2>10
<1> QED BY <1>2, <1>3

(* The walk has these rounds. *)
LEMMA WalkHasRounds ==
    ASSUME NEW start, NEW succ, NEW all, IsFiniteSet(all)
    PROVE  Rounds(Walk(start, succ, all), Cardinality(all), start, succ, all)
<1> DEFINE N == Cardinality(all)
<1>1. N \in Nat
  BY FS_CardinalityType
<1>2. PICK g : Rounds(g, N, start, succ, all)
  BY <1>1, RoundsExist
<1>3. g = [i \in 0..N |-> IF i = 0 THEN start \cap all ELSE Round(g[i-1], succ, all)]
  <2>1. ASSUME NEW i \in 0..N
        PROVE  g[i] = IF i = 0 THEN start \cap all ELSE Round(g[i-1], succ, all)
    <3>1. CASE i = 0
      BY <3>1, <1>2 DEF Rounds
    <3>2. CASE i # 0
      <4>1. i \in 1..N
        BY <1>1, <3>2
      <4> QED BY <4>1, <3>2, <1>2 DEF Rounds
    <3> QED BY <3>1, <3>2
  <2>2. g \in [0..N -> SUBSET all]
    BY <1>2 DEF Rounds
  <2> QED BY <2>1, <2>2
<1> DEFINE W == Walk(start, succ, all)
<1>4. W = [i \in 0..N |-> IF i = 0 THEN start \cap all ELSE Round(W[i-1], succ, all)]
  BY <1>3, Zenon DEF Walk
<1>5. W[0] = start \cap all /\ \A j \in 1..N : W[j] = Round(W[j-1], succ, all)
  <2>1. 0 \in 0..N /\ \A j \in 1..N : j \in 0..N /\ j # 0
    BY <1>1
  <2> QED BY <1>4, <2>1
<1>6. \A i \in 0..N : W[i] \in SUBSET all
  <2> DEFINE Bad == {i \in 0..N : W[i] \notin SUBSET all}
  <2> SUFFICES ASSUME Bad # {} PROVE FALSE
    OBVIOUS
  <2>0. Bad \in SUBSET Nat
    BY <1>1
  <2>1. PICK m \in Bad : \A k \in Bad : m <= k
    BY <2>0, FirstRound
  <2>2. m # 0
    BY <1>5
  <2>3. m - 1 \in 0..N /\ m \in 1..N /\ ~(m <= m - 1)
    BY <1>1, <2>2
  <2>4. W[m-1] \in SUBSET all
    BY <2>1, <2>3
  <2> QED BY <2>3, <2>4, <1>5, RoundStays
<1>7. W \in [0..N -> SUBSET all]
  <2>1. DOMAIN W = 0..N /\ W = [i \in 0..N |-> W[i]]
    BY <1>4
  <2> QED BY <2>1, <1>6
<1> QED
  BY <1>5, <1>7 DEF Rounds

(* Every round but the last one that matters adds a node, so that after as *)
(* many rounds as there are nodes nothing is left to add.                  *)
LEMMA ReachIsClosed ==
    ASSUME NEW start, NEW succ, NEW all, IsFiniteSet(all)
    PROVE  /\ Reach(start, succ, all) \in SUBSET all
           /\ start \cap all \subseteq Reach(start, succ, all)
           /\ Round(Reach(start, succ, all), succ, all) = Reach(start, succ, all)
<1> DEFINE N == Cardinality(all)
           W == Walk(start, succ, all)
<1>1. N \in Nat
  BY FS_CardinalityType
<1>2. Rounds(W, N, start, succ, all)
  BY WalkHasRounds
<1> HIDE DEF W
<1>3. /\ \A i \in 0..N : W[i] \in SUBSET all
      /\ W[0] = start \cap all
      /\ \A j \in 1..N : W[j] = Round(W[j-1], succ, all)
  BY <1>2 DEF Rounds
<1>4. \A i \in 0..N : IsFiniteSet(W[i]) /\ Cardinality(W[i]) \in Nat
  BY <1>3, FS_Subset, FS_CardinalityType
<1> DEFINE Settled(i) == Round(W[i], succ, all) = W[i]
<1>5. \A i \in 0..N : start \cap all \subseteq W[i] /\ (Settled(i) \/ Cardinality(W[i]) >= i)
  <2> DEFINE Far(i) == start \cap all \subseteq W[i] /\ (Settled(i) \/ Cardinality(W[i]) >= i)
             Bad == {i \in 0..N : ~Far(i)}
  <2> SUFFICES ASSUME Bad # {} PROVE FALSE
    OBVIOUS
  <2>0. Bad \in SUBSET Nat
    BY <1>1
  <2>1. PICK m \in Bad : \A k \in Bad : m <= k
    BY <2>0, FirstRound
  <2>2. m # 0
    <3>1. 0 \in 0..N
      BY <1>1
    <3>2. Cardinality(W[0]) >= 0
      BY <3>1, <1>4
    <3>3. Far(0)
      BY <3>2, <1>3
    <3> QED BY <3>3
  <2>3. m - 1 \in 0..N /\ m \in 1..N /\ m \in 0..N /\ ~(m <= m - 1)
    BY <1>1, <2>2
  <2>4. Far(m - 1)
    BY <2>1, <2>3
  <2>5. W[m] = Round(W[m-1], succ, all)
    BY <1>3, <2>3
  <2>6. W[m-1] \subseteq W[m] /\ W[m] \in SUBSET all
    BY <1>3, <2>3, <2>5, RoundStays
  <2>7. CASE Settled(m - 1)
    <3>1. W[m] = W[m-1]
      BY <2>5, <2>7
    <3> QED BY <3>1, <2>4, <2>7
  <2>8. CASE ~Settled(m - 1)
    <3>1. W[m] # W[m-1]
      BY <2>5, <2>8
    <3>2. Cardinality(W[m-1]) <= Cardinality(W[m]) /\ Cardinality(W[m]) # Cardinality(W[m-1])
      BY <1>4, <2>3, <2>6, <3>1, FS_Subset
    <3>3. Cardinality(W[m-1]) >= m - 1
      BY <2>4, <2>8
    <3>4. Cardinality(W[m]) >= m
      BY <1>4, <2>3, <3>2, <3>3
    <3> QED BY <3>4, <2>4, <2>6
  <2> QED BY <2>7, <2>8
<1>6. N \in 0..N
  BY <1>1
<1>7. Settled(N)
  <2>1. CASE Cardinality(W[N]) >= N
    <3>1. W[N] \in SUBSET all
      BY <1>3, <1>6
    <3>2. Cardinality(W[N]) <= N
      BY <3>1, FS_Subset
    <3>3. Cardinality(W[N]) = N
      BY <1>1, <1>4, <1>6, <2>1, <3>2
    <3>4. W[N] = all
      BY <3>1, <3>3, FS_Subset
    <3> QED BY <3>4 DEF Round
  <2> QED BY <2>1, <1>5, <1>6
<1>8. Reach(start, succ, all) = W[N]
  BY DEF Reach, W
<1> QED
  BY <1>3, <1>5, <1>6, <1>7, <1>8

(* The walk never leaves a set that holds its start and is closed. *)
LEMMA ReachIsLeast ==
    ASSUME NEW start, NEW succ, NEW all, IsFiniteSet(all),
           NEW S, start \cap all \subseteq S, Round(S, succ, all) \subseteq S
    PROVE  Reach(start, succ, all) \subseteq S
<1> DEFINE N == Cardinality(all)
           W == Walk(start, succ, all)
<1>1. N \in Nat
  BY FS_CardinalityType
<1>2. Rounds(W, N, start, succ, all)
  BY WalkHasRounds
<1> HIDE DEF W
<1>3. W[0] = start \cap all /\ \A j \in 1..N : W[j] = Round(W[j-1], succ, all)
  BY <1>2 DEF Rounds
<1>4. \A i \in 0..N : W[i] \subseteq S
  <2> DEFINE Bad == {i \in 0..N : ~(W[i] \subseteq S)}
  <2> SUFFICES ASSUME Bad # {} PROVE FALSE
    OBVIOUS
  <2>0. Bad \in SUBSET Nat
    BY <1>1
  <2>1. PICK m \in Bad : \A k \in Bad : m <= k
    BY <2>0, FirstRound
  <2>2. m # 0
    BY <1>3
  <2>3. m - 1 \in 0..N /\ m \in 1..N /\ ~(m <= m - 1)
    BY <1>1, <2>2
  <2>4. W[m-1] \subseteq S
    BY <2>1, <2>3
  <2>5. Round(W[m-1], succ, all) \subseteq Round(S, succ, all)
    BY <2>4 DEF Round
  <2> QED BY <1>3, <2>3, <2>5
<1>5. Reach(start, succ, all) = W[N] /\ N \in 0..N
  BY <1>1 DEF Reach, W
<1> QED BY <1>4, <1>5

(***************************************************************************)
(* The closure of an L3 build is everything that its exports reach.        *)
(***************************************************************************)

(* A call by name, from code or from a contract, is an edge of the graph. *)
LEMMA CallsAreEdges ==
    ASSUME NEW p, NEW n \in Nodes(p), NEW m \in Nodes(p), Calls(p, n, m)
    PROVE  m \in CallGraph(p)[n]
<1>1. PICK c \in UNION {p[n].req, p[n].ens, p[n].dec, p[n].body} : c[1] = "named" /\ c[2] = m
  BY DEF Calls
<1>2. c \in VerifiedCalls(p[n])
  BY <1>1 DEF VerifiedCalls
<1>3. m \in CalleesOf(p, n)
  BY <1>1, <1>2 DEF CalleesOf
<1> QED BY <1>3 DEF CallGraph

LEMMA ClosureCovers ==
    ASSUME NEW p, NEW roots, IsFiniteSet(DOMAIN p)
    PROVE  /\ Reach(roots, CallGraph(p), Nodes(p)) \subseteq Nodes(p)
           /\ ReachedFrom(p, roots) \subseteq Reach(roots, CallGraph(p), Nodes(p))
<1> DEFINE seen == Reach(roots, CallGraph(p), Nodes(p))
<1>1. IsFiniteSet(Nodes(p))
  BY FS_Subset DEF Nodes
<1>2. /\ seen \in SUBSET Nodes(p)
      /\ roots \cap Nodes(p) \subseteq seen
      /\ Round(seen, CallGraph(p), Nodes(p)) = seen
  BY <1>1, ReachIsClosed
<1> HIDE DEF seen
<1>3. ASSUME NEW n \in seen, NEW m \in Nodes(p), Calls(p, n, m) PROVE m \in seen
  <2>1. m \in CallGraph(p)[n]
    BY <1>2, <1>3, CallsAreEdges
  <2>2. m \in Round(seen, CallGraph(p), Nodes(p))
    BY <2>1 DEF Round
  <2> QED BY <1>2, <2>2
<1>4. Covers(p, roots, seen)
  BY <1>2, <1>3 DEF Covers
<1> QED
  BY <1>2, <1>4 DEF ReachedFrom, seen

LEMMA EdgesAreCalls ==
    ASSUME NEW p, NEW n \in Nodes(p), NEW m \in CallGraph(p)[n]
    PROVE  m \in Nodes(p) /\ Calls(p, n, m)
<1>1. m \in CalleesOf(p, n)
  BY DEF CallGraph
<1>2. PICK c \in VerifiedCalls(p[n]) : c[1] = "named" /\ c[2] = m
  BY <1>1 DEF CalleesOf
<1> QED BY <1>1, <1>2 DEF VerifiedCalls, Calls, CalleesOf

(* verified_closure: whatever the file and the exports are, its functions  *)
(* and spec fns are those that an export reaches by calls, in code or in   *)
(* a contract: none is missed, and none is dragged in.                     *)
THEOREM ClosureIsExact ==
    ASSUME NEW p, NEW exports, IsFiniteSet(DOMAIN p)
    PROVE  VerifiedClosure(p, exports).functions \cup VerifiedClosure(p, exports).specs
              = ReachedFrom(p, exports)
<1> DEFINE seen == Reach(exports, CallGraph(p), Nodes(p))
<1>1. VerifiedClosure(p, exports).functions \cup VerifiedClosure(p, exports).specs
         = {n \in seen : p[n].kind \in {"fn", "spec"}}
  BY DEF VerifiedClosure
<1>2. seen \subseteq Nodes(p) /\ ReachedFrom(p, exports) \subseteq seen
  BY ClosureCovers
<1>3. IsFiniteSet(Nodes(p))
  BY FS_Subset DEF Nodes
<1>4. ASSUME NEW S \in SUBSET Nodes(p), Covers(p, exports, S) PROVE seen \subseteq S
  <2>1. Round(S, CallGraph(p), Nodes(p)) \subseteq S
    BY <1>4, EdgesAreCalls DEF Round, Covers
  <2>2. exports \cap Nodes(p) \subseteq S
    BY <1>4 DEF Covers
  <2> QED BY <1>3, <2>1, <2>2, ReachIsLeast
<1> HIDE DEF seen
<1>5. seen \subseteq ReachedFrom(p, exports)
  BY <1>2, <1>4 DEF ReachedFrom
<1>6. \A n \in seen : p[n].kind \in {"fn", "spec"}
  BY <1>2 DEF Nodes
<1> QED BY <1>1, <1>2, <1>5, <1>6

(***************************************************************************)
(* The inductive invariant of the bundles.  A build carries, from step to  *)
(* step, what it has made sure of: the text it planned is the text it      *)
(* compiles, what was checked is what was read, the tools that compiled    *)
(* are no older than the ones that were recorded, and of the same link     *)
(* inputs once these were read again.                                      *)
(***************************************************************************)
Staging   == {"staged"}
Linking   == {"compiled"} \cup Staging
Proving   == {"proved"} \cup Linking
Freezing  == {"frozen"} \cup Proving
Planning  == {"planned"} \cup Freezing
Equipped  == {"tools"} \cup Planning
Reading   == {"read", "probed"} \cup Equipped

(* The shells a request may be built with *)
Texts(req) == IF IsRich(req) THEN Shells ELSE {None}

(* Every part of b is as new as in a. *)
Upgraded(a, b) == a.provers <= b.provers /\ a.links <= b.links

BuildOk(w, now) ==
    /\ "pc" \in DOMAIN w /\ w.pc \in {"idle"} \cup Reading
    /\ w.pc \in Reading  => {"req", "src"} \subseteq DOMAIN w /\ w.req \in Requests /\ w.src \in Readable
    /\ w.pc \in Equipped => "tools" \in DOMAIN w /\ w.tools \in Versions /\ Upgraded(w.tools, now)
    /\ w.pc \in Planning => "planned" \in DOMAIN w /\ w.planned \in Texts(w.req) /\ Admissible(w.src, w.req)
    /\ w.pc \in Freezing => "text" \in DOMAIN w /\ w.text = w.planned
    /\ w.pc \in Proving  => "checked" \in DOMAIN w /\ w.checked = w.src
    /\ w.pc \in Linking  => /\ "linked" \in DOMAIN w /\ w.linked \in Versions
                            /\ Upgraded(w.tools, w.linked) /\ Upgraded(w.linked, now)
    /\ w.pc \in Staging  => NoOlder(w.linked, w.tools) /\ Valid(Staged(w))

BuildsOk ==
    /\ shell \in Shells /\ tools \in Versions
    /\ build = [b \in Builders |-> build[b]]
    /\ \A b \in Builders : BuildOk(build[b], tools)

(* Versions only grow. *)
LEMMA VersionsGrow ==
    ASSUME NEW a \in Versions, NEW b \in Versions, NEW c \in Versions
    PROVE  /\ Upgraded(a, a)
           /\ Upgraded(a, b) /\ Upgraded(b, c) => Upgraded(a, c)
           /\ Upgraded(a, b) /\ Upgraded(b, c) /\ a.links = c.links => NoOlder(b, a)
<1>1. \A v \in Versions : v.provers \in Int /\ v.links \in Int
  BY BuildAssumption DEF Versions
<1> QED BY <1>1 DEF Upgraded, NoOlder

(* A directory with a receipt that some build wrote. *)
Receipted(b) ==
    /\ b = [f \in DOMAIN b |-> b[f]]
    /\ "receipt" \in DOMAIN b
    /\ \E o \in WholeBundles : b.receipt = o.receipt

DestinationOk ==
    /\ bundle = Nothing <=> original = Nothing
    /\ bundle # Nothing => Receipted(bundle)
    /\ PublishedIsOneBuild
    /\ report # "none" => bundle # Nothing
    /\ AcceptedBundleIsWhole

BundleInvariant == BuildsOk /\ DestinationOk

(***************************************************************************)
(* Bundles.                                                                *)
(***************************************************************************)

(* A bundle is made of what the build holds, and of nothing else it holds. *)
LEMMA StagedOf ==
    ASSUME NEW w, NEW v,
           w.src = v.src, w.req = v.req, w.planned = v.planned, w.text = v.text,
           w.checked = v.checked, w.tools = v.tools, w.linked = v.linked
    PROVE  Staged(w) = Staged(v)
BY Zenon DEF Staged

LEMMA StagedFiles ==
    ASSUME NEW w
    PROVE  /\ DOMAIN Staged(w) = FileNames \cup {"receipt"}
           /\ Staged(w) = [f \in DOMAIN Staged(w) |-> Staged(w)[f]]
           /\ \A f \in FileNames : Staged(w).receipt.files[f] = Staged(w)[f]
           /\ Staged(w).input = w.src
           /\ Staged(w).plan = MakePlan(w.src, w.req, w.planned)
           /\ Staged(w).certs = CheckFile[w.checked]
           /\ Staged(w).tv = CollectTv(w.checked, w.req, ClosureOf(w.src, w.req))
<1> DEFINE closure == ClosureOf(w.src, w.req)
           fresh   == MakePlan(w.src, w.req, w.text).emission
           certs   == CheckFile[w.checked]
           parts   == [input |-> w.src, shell |-> w.text,
                       plan |-> MakePlan(w.src, w.req, w.planned), emission |-> fresh,
                       certs |-> certs, tv |-> CollectTv(w.checked, w.req, closure),
                       tools |-> w.tools, deps |-> w.tools.links,
                       artifact |-> Compiled(fresh, w.linked)]
           receipt == Receipt(parts, Aggregate(certs, closure))
<1>1. Staged(w) = [input |-> parts.input, shell |-> parts.shell, plan |-> parts.plan,
                   emission |-> parts.emission, certs |-> parts.certs, tv |-> parts.tv,
                   tools |-> parts.tools, deps |-> parts.deps, artifact |-> parts.artifact,
                   receipt |-> receipt]
  BY Zenon DEF Staged, Sealed
<1>2. receipt.files = parts
  BY DEF Receipt
<1> HIDE DEF receipt
<1>3. DOMAIN parts = FileNames
  BY DEF FileNames
<1>4. /\ parts.input = w.src /\ parts.plan = MakePlan(w.src, w.req, w.planned)
      /\ parts.certs = CheckFile[w.checked] /\ parts.tv = CollectTv(w.checked, w.req, closure)
  OBVIOUS
<1>5. {"input", "plan", "certs", "tv"} \subseteq FileNames /\ "receipt" \notin FileNames
  BY DEF FileNames
<1> HIDE DEF parts
<1>6. Staged(w) = [f \in FileNames \cup {"receipt"} |-> IF f \in FileNames THEN parts[f] ELSE receipt]
  BY <1>1, <1>3, <1>5 DEF FileNames
<1> QED
  BY <1>2, <1>4, <1>5, <1>6

(* A bundle whose receipt is that of a whole one, and binds all of its     *)
(* files, is that one.                                                     *)
LEMMA ReceiptTells ==
    ASSUME NEW b, NEW o \in WholeBundles, b = [f \in DOMAIN b |-> b[f]],
           Intact(b), b.receipt = o.receipt
    PROVE  b = o
<1>1. PICK w : o = Staged(w)
  BY DEF WholeBundles, MadeBundles, BundleOf
<1>2. /\ DOMAIN o = FileNames \cup {"receipt"} /\ o = [f \in DOMAIN o |-> o[f]]
      /\ \A f \in FileNames : o.receipt.files[f] = o[f]
  BY <1>1, StagedFiles
<1>3. DOMAIN b = FileNames \cup {"receipt"} /\ \A f \in FileNames : b[f] = b.receipt.files[f]
  BY DEF Intact
<1>4. \A f \in DOMAIN o : b[f] = o[f]
  BY <1>2, <1>3
<1> QED BY <1>2, <1>3, <1>4

LEMMA WholeHasReceipt ==
    ASSUME NEW o \in WholeBundles
    PROVE  /\ DOMAIN o = FileNames \cup {"receipt"} /\ o = [f \in DOMAIN o |-> o[f]]
           /\ o # Nothing
<1>1. PICK w : o = Staged(w)
  BY DEF WholeBundles, MadeBundles, BundleOf
<1>2. DOMAIN Nothing = {}
  BY DEF Nothing
<1> QED BY <1>1, <1>2, StagedFiles

(***************************************************************************)
(* The steps of a build.                                                   *)
(***************************************************************************)
(* One build moves on, the files stay. *)
LEMMA OneBuildMoves ==
    ASSUME BuildsOk, NEW b \in Builders, NEW v, BuildOk(v, tools),
           build' = [build EXCEPT ![b] = v], UNCHANGED files
    PROVE  BuildsOk'
<1>1. UNCHANGED <<shell, tools>>
  BY DEF files
<1>2. build' = [c \in Builders |-> build'[c]] /\ \A c \in Builders : build'[c] = IF c = b THEN v ELSE build[c]
  BY DEF BuildsOk
<1>3. \A c \in Builders : BuildOk(build'[c], tools)
  BY <1>2 DEF BuildsOk
<1> QED BY <1>1, <1>2, <1>3 DEF BuildsOk

LEMMA StopKeeps ==
    ASSUME BuildsOk, NEW b \in Builders, Stop(b), UNCHANGED files
    PROVE  BuildsOk'
<1>1. BuildOk(Idle, tools)
  BY DEF BuildOk, Idle, Reading, Equipped, Planning, Freezing, Proving, Linking, Staging
<1> QED BY <1>1, OneBuildMoves DEF Stop

(* A build keeps what it knows while it goes on without a new field. *)
LEMMA EnterKeeps ==
    ASSUME BuildsOk, NEW b \in Builders, NEW pc, Enter(b, pc), UNCHANGED files,
           BuildOk([build[b] EXCEPT !.pc = pc], tools)
    PROVE  BuildsOk'
<1>1. build' = [build EXCEPT ![b] = [build[b] EXCEPT !.pc = pc]]
  BY DEF Enter, BuildsOk
<1> QED BY <1>1, OneBuildMoves

LEMMA AdvanceKeeps ==
    ASSUME BuildsOk, NEW b \in Builders, NEW pc, NEW field, NEW value, Advance(b, pc, field, value),
           UNCHANGED files, BuildOk(Having([build[b] EXCEPT !.pc = pc], field, value), tools)
    PROVE  BuildsOk'
<1>1. build' = [build EXCEPT ![b] = Having([build[b] EXCEPT !.pc = pc], field, value)]
  BY DEF Advance, BuildsOk
<1> QED BY <1>1, OneBuildMoves

LEMMA ReadSourceKeeps ==
    ASSUME BuildsOk, NEW b \in Builders, NEW req \in Requests, ReadSource(b, req)
    PROVE  BuildsOk'
<1>1. CASE UNCHANGED build
  BY <1>1 DEF ReadSource, BuildsOk, files
<1>2. CASE source \in Readable /\ build' = [build EXCEPT ![b] = [pc |-> "read", req |-> req, src |-> source]]
  <2>1. BuildOk([pc |-> "read", req |-> req, src |-> source], tools)
    BY <1>2 DEF BuildOk, Reading, Equipped, Planning, Freezing, Proving, Linking, Staging
  <2> QED BY <1>2, <2>1, OneBuildMoves DEF ReadSource
<1> QED BY <1>1, <1>2 DEF ReadSource

LEMMA ProbeKeeps ==
    ASSUME BuildsOk, NEW b \in Builders, ProbeDestination(b)
    PROVE  BuildsOk'
<1>1. CASE Stop(b)
  BY <1>1, StopKeeps DEF ProbeDestination
<1>2. CASE Enter(b, "probed")
  <2> DEFINE w == build[b]
             v == [w EXCEPT !.pc = "probed"]
  <2>1. BuildOk(w, tools) /\ w.pc = "read"
    BY DEF BuildsOk, ProbeDestination, Work
  <2>2. DOMAIN v = DOMAIN w /\ v.pc = "probed" /\ \A f \in DOMAIN w \ {"pc"} : v[f] = w[f]
    BY <2>1 DEF BuildOk
  <2> HIDE DEF v, w
  <2>3. BuildOk(v, tools)
    BY <2>1, <2>2 DEF BuildOk, Reading, Equipped, Planning, Freezing, Proving, Linking, Staging
  <2> QED BY <1>2, <2>3, EnterKeeps DEF ProbeDestination, v, w
<1> QED BY <1>1, <1>2 DEF ProbeDestination

LEMMA CollectKeeps ==
    ASSUME BuildsOk, NEW b \in Builders, CollectToolchain(b)
    PROVE  BuildsOk'
<1> DEFINE w == build[b]
           v == Having([w EXCEPT !.pc = "tools"], "tools", tools)
<1>1. CASE Stop(b)
  BY <1>1, StopKeeps DEF CollectToolchain
<1>2. CASE Advance(b, "tools", "tools", tools)
  <2>1. BuildOk(w, tools) /\ w.pc = "probed" /\ "pc" \in DOMAIN w
    BY DEF BuildsOk, BuildOk, CollectToolchain, Work
  <2>2. tools \in Versions /\ Upgraded(tools, tools)
    BY VersionsGrow DEF BuildsOk
  <2>3. /\ DOMAIN v = DOMAIN w \cup {"tools"} /\ v.pc = "tools" /\ v.tools = tools
        /\ \A f \in DOMAIN w \ {"pc", "tools"} : v[f] = w[f]
    BY <2>1 DEF Having
  <2> HIDE DEF v, w
  <2>4. BuildOk(v, tools)
    BY <1>2, <2>1, <2>2, <2>3 DEF BuildOk, Reading, Equipped, Planning, Freezing, Proving, Linking, Staging
  <2> QED BY <1>2, <2>4, AdvanceKeeps DEF CollectToolchain, v, w
<1> QED BY <1>1, <1>2 DEF CollectToolchain

LEMMA PlanKeeps ==
    ASSUME BuildsOk, NEW b \in Builders, Plan(b)
    PROVE  BuildsOk'
<1> DEFINE w == build[b]
           v == Having([w EXCEPT !.pc = "planned"], "planned", ShellText(w.req))
<1>1. CASE Stop(b)
  BY <1>1, StopKeeps DEF Plan
<1>2. CASE Admissible(w.src, w.req) /\ Advance(b, "planned", "planned", ShellText(w.req))
  <2>1. BuildOk(w, tools) /\ w.pc = "tools" /\ "pc" \in DOMAIN w
    BY DEF BuildsOk, BuildOk, Plan, Work
  <2>2. ShellText(w.req) \in Texts(w.req)
    BY DEF ShellText, Texts, BuildsOk
  <2>3. /\ DOMAIN v = DOMAIN w \cup {"planned"} /\ v.pc = "planned" /\ v.planned = ShellText(w.req)
        /\ \A f \in DOMAIN w \ {"pc", "planned"} : v[f] = w[f]
    BY <2>1 DEF Having
  <2> HIDE DEF v, w
  <2>4. BuildOk(v, tools)
    BY <1>2, <2>1, <2>2, <2>3 DEF BuildOk, Reading, Equipped, Planning, Freezing, Proving, Linking, Staging
  <2> QED BY <1>2, <2>4, AdvanceKeeps DEF Plan, v, w
<1> QED BY <1>1, <1>2 DEF Plan

(* The emission carries the shell. *)
LEMMA EmissionTellsShell ==
    ASSUME NEW s, NEW req, NEW text, NEW other,
           MakePlan(s, req, text).emission = MakePlan(s, req, other).emission
    PROVE  text = other
<1>1. MakePlan(s, req, text).emission.shell = text /\ MakePlan(s, req, other).emission.shell = other
  BY DEF MakePlan, Emit
<1> QED BY <1>1

LEMMA ReassembleKeeps ==
    ASSUME BuildsOk, NEW b \in Builders, Reassemble(b)
    PROVE  BuildsOk'
<1> DEFINE w == build[b]
           v == Having([w EXCEPT !.pc = "frozen"], "text", ShellText(w.req))
<1>1. CASE Stop(b)
  BY <1>1, StopKeeps DEF Reassemble
<1>2. CASE /\ MakePlan(w.src, w.req, ShellText(w.req)).emission = MakePlan(w.src, w.req, w.planned).emission
           /\ Advance(b, "frozen", "text", ShellText(w.req))
  <2>1. BuildOk(w, tools) /\ w.pc = "planned" /\ "pc" \in DOMAIN w
    BY DEF BuildsOk, BuildOk, Reassemble, Work
  <2>2. ShellText(w.req) = w.planned
    BY <1>2, EmissionTellsShell
  <2>3. /\ DOMAIN v = DOMAIN w \cup {"text"} /\ v.pc = "frozen" /\ v.text = ShellText(w.req)
        /\ \A f \in DOMAIN w \ {"pc", "text"} : v[f] = w[f]
    BY <2>1 DEF Having
  <2> HIDE DEF v, w
  <2>4. BuildOk(v, tools)
    BY <1>2, <2>1, <2>2, <2>3 DEF BuildOk, Reading, Equipped, Planning, Freezing, Proving, Linking, Staging
  <2> QED BY <1>2, <2>4, AdvanceKeeps DEF Reassemble, v, w
<1> QED BY <1>1, <1>2 DEF Reassemble

LEMMA ProveKeeps ==
    ASSUME BuildsOk, NEW b \in Builders, Prove(b)
    PROVE  BuildsOk'
<1> DEFINE w == build[b]
           v == Having([w EXCEPT !.pc = "proved"], "checked", Frozen(b))
<1>1. CASE Stop(b)
  BY <1>1, StopKeeps DEF Prove
<1>2. CASE Advance(b, "proved", "checked", Frozen(b))
  <2>1. BuildOk(w, tools) /\ w.pc = "frozen" /\ "pc" \in DOMAIN w
    BY DEF BuildsOk, BuildOk, Prove, Work
  <2>2. Frozen(b) = w.src
    BY DEF Frozen
  <2>3. /\ DOMAIN v = DOMAIN w \cup {"checked"} /\ v.pc = "proved" /\ v.checked = Frozen(b)
        /\ \A f \in DOMAIN w \ {"pc", "checked"} : v[f] = w[f]
    BY <2>1 DEF Having
  <2> HIDE DEF v, w
  <2>4. BuildOk(v, tools)
    BY <1>2, <2>1, <2>2, <2>3 DEF BuildOk, Reading, Equipped, Planning, Freezing, Proving, Linking, Staging
  <2> QED BY <1>2, <2>4, AdvanceKeeps DEF Prove, v, w
<1> QED BY <1>1, <1>2 DEF Prove

LEMMA CompileKeeps ==
    ASSUME BuildsOk, NEW b \in Builders, Compile(b)
    PROVE  BuildsOk'
<1> DEFINE w == build[b]
           v == Having([w EXCEPT !.pc = "compiled"], "linked", tools)
<1>1. CASE Stop(b)
  BY <1>1, StopKeeps DEF Compile
<1>2. CASE Advance(b, "compiled", "linked", tools)
  <2>1. BuildOk(w, tools) /\ w.pc = "proved" /\ "pc" \in DOMAIN w
    BY DEF BuildsOk, BuildOk, Compile, Work
  <2>2. tools \in Versions /\ Upgraded(tools, tools)
    BY VersionsGrow DEF BuildsOk
  <2>3. /\ DOMAIN v = DOMAIN w \cup {"linked"} /\ v.pc = "compiled" /\ v.linked = tools
        /\ \A f \in DOMAIN w \ {"pc", "linked"} : v[f] = w[f]
    BY <2>1 DEF Having
  <2> HIDE DEF v, w
  <2>4. BuildOk(v, tools)
    BY <1>2, <2>1, <2>2, <2>3 DEF BuildOk, Reading, Equipped, Planning, Freezing, Proving, Linking, Staging
  <2> QED BY <1>2, <2>4, AdvanceKeeps DEF Compile, v, w
<1> QED BY <1>1, <1>2 DEF Compile

(* The stage is validated when no link input was upgraded since the tools  *)
(* were recorded, so that it was compiled with the recorded ones.          *)
LEMMA StageKeeps ==
    ASSUME BuildsOk, NEW b \in Builders, Stage(b)
    PROVE  BuildsOk'
<1> DEFINE w == build[b]
           v == [w EXCEPT !.pc = "staged"]
<1>1. CASE Stop(b)
  BY <1>1, StopKeeps DEF Stage
<1>2. CASE w.tools.links = tools.links /\ Valid(Staged(w)) /\ Enter(b, "staged")
  <2>1. BuildOk(w, tools) /\ w.pc = "compiled" /\ "pc" \in DOMAIN w
    BY DEF BuildsOk, BuildOk, Stage, Work
  <2>2. DOMAIN v = DOMAIN w /\ v.pc = "staged" /\ \A f \in DOMAIN w \ {"pc"} : v[f] = w[f]
    BY <2>1
  <2>3. {"req", "src", "tools", "planned", "text", "checked", "linked"} \subseteq DOMAIN w
    BY <2>1 DEF BuildOk, Reading, Equipped, Planning, Freezing, Proving, Linking, Staging
  <2> HIDE DEF v, w
  <2>4. Staged(v) = Staged(w)
    BY <2>2, <2>3, StagedOf
  <2>5. NoOlder(w.linked, w.tools)
    <3>1. /\ tools \in Versions /\ w.tools \in Versions /\ w.linked \in Versions
          /\ Upgraded(w.tools, w.linked) /\ Upgraded(w.linked, tools)
      BY <2>1 DEF BuildsOk, BuildOk, Reading, Equipped, Planning, Freezing, Proving, Linking, Staging
    <3> QED BY <1>2, <3>1, VersionsGrow
  <2>6. BuildOk(v, tools)
    BY <1>2, <2>1, <2>2, <2>3, <2>4, <2>5
       DEF BuildOk, Reading, Equipped, Planning, Freezing, Proving, Linking, Staging
  <2> QED BY <1>2, <2>6, EnterKeeps DEF Stage, v, w
<1> QED BY <1>1, <1>2 DEF Stage

(* The tools are only ever upgraded. *)
LEMMA UpgradeKeeps ==
    ASSUME BuildsOk, Upgrade
    PROVE  BuildsOk'
<1>1. tools \in Versions /\ tools' \in Versions /\ Upgraded(tools, tools')
  <2>1. tools \in Versions /\ tools' \in Versions
    BY DEF BuildsOk, Upgrade
  <2>2. \A v \in Versions : v = [provers |-> v.provers, links |-> v.links] /\ v.provers \in Int /\ v.links \in Int
    BY BuildAssumption DEF Versions
  <2>3. \/ tools'.provers = tools.provers + 1 /\ tools'.links = tools.links
        \/ tools'.links = tools.links + 1 /\ tools'.provers = tools.provers
    BY <2>1, <2>2 DEF Upgrade
  <2>4. tools.provers \in Int /\ tools.links \in Int
    BY <2>1, <2>2
  <2> QED BY <2>1, <2>3, <2>4 DEF Upgraded
<1>2. ASSUME NEW b \in Builders PROVE BuildOk(build[b], tools')
  <2> DEFINE w == build[b]
  <2>1. BuildOk(w, tools)
    BY DEF BuildsOk
  <2> HIDE DEF w
  <2>2. \A v \in Versions : Upgraded(v, tools) => Upgraded(v, tools')
    BY <1>1, VersionsGrow
  <2>3. BuildOk(w, tools')
    BY <1>1, <2>1, <2>2 DEF BuildOk, Reading, Equipped, Planning, Freezing, Proving, Linking, Staging
  <2> QED BY <2>3 DEF w
<1> QED BY <1>1, <1>2 DEF BuildsOk, Upgrade

LEMMA BuildsOkStep ==
    ASSUME BuildsOk, VbNext
    PROVE  BuildsOk'
<1>1. ASSUME NEW b \in Builders, NEW req \in Requests, ReadSource(b, req) PROVE BuildsOk'
  BY <1>1, ReadSourceKeeps
<1>2. ASSUME NEW b \in Builders, ProbeDestination(b) PROVE BuildsOk'
  BY <1>2, ProbeKeeps
<1>3. ASSUME NEW b \in Builders, CollectToolchain(b) PROVE BuildsOk'
  BY <1>3, CollectKeeps
<1>4. ASSUME NEW b \in Builders, Plan(b) PROVE BuildsOk'
  BY <1>4, PlanKeeps
<1>5. ASSUME NEW b \in Builders, Reassemble(b) PROVE BuildsOk'
  BY <1>5, ReassembleKeeps
<1>6. ASSUME NEW b \in Builders, Prove(b) PROVE BuildsOk'
  BY <1>6, ProveKeeps
<1>7. ASSUME NEW b \in Builders, Compile(b) PROVE BuildsOk'
  BY <1>7, CompileKeeps
<1>8. ASSUME NEW b \in Builders, Stage(b) PROVE BuildsOk'
  BY <1>8, StageKeeps
<1>9. ASSUME NEW b \in Builders, Publish(b) PROVE BuildsOk'
  BY <1>9, StopKeeps DEF Publish
<1>10. ASSUME NEW b \in Builders, Die(b) PROVE BuildsOk'
  BY <1>10, StopKeeps DEF Die
<1>11. ASSUME Edit PROVE BuildsOk'
  BY <1>11 DEF Edit, BuildsOk
<1>12. ASSUME Upgrade PROVE BuildsOk'
  BY <1>12, UpgradeKeeps
<1>13. ASSUME Damage PROVE BuildsOk'
  BY <1>13 DEF Damage, BuildsOk, files
<1>14. ASSUME NEW replay \in BOOLEAN, VerifyBuild(replay) PROVE BuildsOk'
  BY <1>14 DEF VerifyBuild, BuildsOk, files
<1> QED
  BY <1>1, <1>2, <1>3, <1>4, <1>5, <1>6, <1>7, <1>8, <1>9, <1>10, <1>11, <1>12, <1>13, <1>14 DEF VbNext

(***************************************************************************)
(* The destination.                                                        *)
(***************************************************************************)

(* What is about to be renamed is what one undisturbed build makes. *)
LEMMA StagedIsWhole ==
    ASSUME BuildsOk, NEW b \in Builders, build[b].pc = "staged"
    PROVE  Whole(Staged(build[b]))
<1> DEFINE w == build[b]
<1>1. BuildOk(w, tools) /\ w.pc = "staged" /\ shell \in Shells
  BY DEF BuildsOk
<1> HIDE DEF w
<1>2. /\ w.req \in Requests /\ w.src \in Readable /\ Admissible(w.src, w.req)
      /\ w.tools \in Versions /\ w.linked \in Versions /\ NoOlder(w.linked, w.tools)
      /\ w.planned \in Texts(w.req) /\ w.text = w.planned /\ w.checked = w.src
      /\ Valid(Staged(w))
  BY <1>1
     DEF BuildOk, Reading, Equipped, Planning, Freezing, Proving, Linking, Staging
<1>3. Staged(w) = BundleOf(w.src, w.req, w.text, w.tools, w.linked)
  <2> DEFINE v == [src |-> w.src, req |-> w.req, planned |-> w.text, text |-> w.text,
                   checked |-> w.src, tools |-> w.tools, linked |-> w.linked]
  <2>1. /\ v.src = w.src /\ v.req = w.req /\ v.planned = w.planned /\ v.text = w.text
        /\ v.checked = w.checked /\ v.tools = w.tools /\ v.linked = w.linked
    BY <1>2
  <2>2. BundleOf(w.src, w.req, w.text, w.tools, w.linked) = Staged(v)
    BY Zenon DEF BundleOf
  <2> HIDE DEF v
  <2> QED BY <2>1, <2>2, StagedOf
<1>4. PICK text \in Shells : w.text = IF IsRich(w.req) THEN text ELSE None
  BY <1>1, <1>2 DEF Texts
<1> DEFINE x == <<w.src, w.req, text, w.tools, w.linked>>
<1>5. /\ x \in Readable \X Requests \X Shells \X Versions \X Versions
      /\ x[1] = w.src /\ x[2] = w.req /\ x[3] = text /\ x[4] = w.tools /\ x[5] = w.linked
  BY <1>2, <1>4
<1> HIDE DEF x
<1>6. Whole(Staged(w))
  BY <1>2, <1>3, <1>4, <1>5 DEF Whole, WholeBundles, MadeBundles
<1> QED BY <1>6 DEF w

LEMMA PublishStep ==
    ASSUME BundleInvariant, NEW b \in Builders, Publish(b)
    PROVE  DestinationOk'
<1>1. CASE bundle # Nothing
  BY <1>1 DEF Publish, BundleInvariant, DestinationOk, PublishedIsOneBuild, AcceptedBundleIsWhole
<1>2. CASE bundle = Nothing
  <2> DEFINE o == Staged(build[b])
  <2>1. bundle' = o /\ original' = o /\ report' = report
    BY <1>2 DEF Publish
  <2>2. Whole(o)
    BY StagedIsWhole DEF BundleInvariant, Publish, Work
  <2> HIDE DEF o
  <2>3. /\ DOMAIN o = FileNames \cup {"receipt"} /\ o = [f \in DOMAIN o |-> o[f]] /\ o # Nothing
    BY <2>2, WholeHasReceipt DEF Whole
  <2>4. report = "none"
    BY <1>2 DEF BundleInvariant, DestinationOk
  <2>5. "receipt" \in DOMAIN o /\ \E d \in WholeBundles : o.receipt = d.receipt
    BY <2>2, <2>3 DEF Whole
  <2> QED
    BY <2>1, <2>2, <2>3, <2>4, <2>5 DEF DestinationOk, Receipted, PublishedIsOneBuild, AcceptedBundleIsWhole
<1> QED BY <1>1, <1>2

(* Damage leaves a receipt that some build wrote. *)
LEMMA DamageStep ==
    ASSUME BundleInvariant, Damage
    PROVE  DestinationOk'
<1>1. bundle # Nothing /\ Receipted(bundle) /\ original # Nothing /\ PublishedIsOneBuild
  BY DEF Damage, BundleInvariant, DestinationOk
<1>2. original' = original /\ report' = "none"
  BY DEF Damage
<1> DEFINE b == bundle
           d == bundle'
<1>3. Receipted(d)
  <2>1. /\ b = [f \in DOMAIN b |-> b[f]] /\ "receipt" \in DOMAIN b
        /\ \E o \in WholeBundles : b["receipt"] = o["receipt"]
    BY <1>1 DEF Receipted
  <2> HIDE DEF b, d
  <2>2. ASSUME NEW f \in FileNames, d = [g \in DOMAIN b \ {f} |-> b[g]] PROVE Receipted(d)
    <3>1. f # "receipt"
      BY DEF FileNames
    <3>2. "receipt" \in DOMAIN d /\ d["receipt"] = b["receipt"] /\ d = [g \in DOMAIN d |-> d[g]]
      BY <2>1, <2>2, <3>1
    <3> QED BY <2>1, <3>2 DEF Receipted
  <2>3. ASSUME d = Having(b, "stray", None) PROVE Receipted(d)
    <3>1. d = [f \in DOMAIN b \cup {"stray"} |-> IF f = "stray" THEN None ELSE b[f]]
      BY <2>3 DEF Having
    <3>2. "receipt" \in DOMAIN d /\ d["receipt"] = b["receipt"] /\ d = [g \in DOMAIN d |-> d[g]]
      BY <2>1, <3>1
    <3> QED BY <2>1, <3>2 DEF Receipted
  <2>4. ASSUME NEW other \in WholeBundles, NEW f \in DOMAIN b, d = [b EXCEPT ![f] = other[f]]
        PROVE  Receipted(d)
    <3>1. "receipt" \in DOMAIN d /\ d = [g \in DOMAIN d |-> d[g]]
      BY <2>1, <2>4
    <3>2. d["receipt"] = b["receipt"] \/ d["receipt"] = other["receipt"]
      BY <2>1, <2>4
    <3> QED BY <2>1, <3>1, <3>2 DEF Receipted
  <2> QED BY <2>2, <2>3, <2>4 DEF Damage, b, d
<1>4. bundle' # Nothing
  BY <1>3 DEF Nothing, Receipted
<1> QED
  BY <1>1, <1>2, <1>3, <1>4 DEF DestinationOk, PublishedIsOneBuild, AcceptedBundleIsWhole

(* The tools that a whole bundle records, and those that compiled it. *)
LEMMA WholeTools ==
    ASSUME NEW o, Whole(o)
    PROVE  \E recorded \in Versions, compiling \in Versions :
              /\ o.tools = recorded /\ o.artifact.tools = compiling
              /\ NoOlder(compiling, recorded)
<1>1. PICK x \in Readable \X Requests \X Shells \X Versions \X Versions :
           /\ NoOlder(x[5], x[4])
           /\ o = BundleOf(x[1], x[2], IF IsRich(x[2]) THEN x[3] ELSE None, x[4], x[5])
  BY DEF Whole, WholeBundles, MadeBundles
<1>2. x[4] \in Versions /\ x[5] \in Versions
  BY <1>1
<1>3. o.tools = x[4] /\ o.artifact.tools = x[5]
  BY <1>1 DEF BundleOf, Staged, Sealed, Compiled
<1> QED BY <1>1, <1>2, <1>3

LEMMA VerifyStep ==
    ASSUME BundleInvariant, NEW replay \in BOOLEAN, VerifyBuild(replay)
    PROVE  DestinationOk'
<1>1. UNCHANGED <<bundle, original>> /\ bundle # Nothing
  BY DEF VerifyBuild
<1>2. ASSUME report' \in {"valid", "replayed"} PROVE Whole(bundle)
  <2>1. Valid(bundle)
    BY <1>2 DEF VerifyBuild
  <2> QED BY <1>1, <2>1, ReceiptTells DEF Valid, Whole, BundleInvariant, DestinationOk, Receipted
<1>3. ASSUME report' = "replayed" PROVE bundle.artifact = Compiled(bundle.emission, bundle.tools)
  <2>1. Replays(bundle)
    BY <1>3 DEF VerifyBuild
  <2>2. Whole(bundle)
    BY <1>2, <1>3
  <2>3. PICK recorded \in Versions, compiling \in Versions :
             /\ bundle.tools = recorded /\ bundle.artifact.tools = compiling
             /\ NoOlder(compiling, recorded)
    BY <2>2, WholeTools
  <2>4. compiling = tools /\ recorded.provers = tools.provers
    BY <2>1, <2>3 DEF Replays, Compiled
  <2>5. recorded = tools
    BY <2>3, <2>4 DEF NoOlder, Versions
  <2> QED BY <2>1, <2>3, <2>5 DEF Replays
<1> QED
  BY <1>1, <1>2, <1>3 DEF BundleInvariant, DestinationOk, PublishedIsOneBuild, AcceptedBundleIsWhole

LEMMA BundleInvariantStep ==
    ASSUME BundleInvariant, [VbNext]_vbVars
    PROVE  BundleInvariant'
<1>1. CASE UNCHANGED vbVars
  BY <1>1 DEF vbVars, files, visible, BundleInvariant, BuildsOk, DestinationOk, PublishedIsOneBuild,
              AcceptedBundleIsWhole
<1>2. CASE VbNext
  <2>1. BuildsOk'
    BY <1>2, BuildsOkStep DEF BundleInvariant
  <2>2. CASE UNCHANGED visible
    BY <2>1, <2>2 DEF visible, BundleInvariant, DestinationOk, PublishedIsOneBuild, AcceptedBundleIsWhole
  <2>3. CASE ~UNCHANGED visible
    <3>1. \/ \E b \in Builders : Publish(b)
          \/ Damage
          \/ \E replay \in BOOLEAN : VerifyBuild(replay)
      BY <1>2, <2>3 DEF VbNext, ReadSource, ProbeDestination, CollectToolchain, Plan, Reassemble, Prove,
                        Compile, Stage, Die, Edit, Upgrade
    <3> QED BY <2>1, <3>1, PublishStep, DamageStep, VerifyStep DEF BundleInvariant
  <2> QED BY <2>2, <2>3
<1> QED BY <1>1, <1>2

(***************************************************************************)
(* What a whole and valid bundle shows of its exports.                     *)
(***************************************************************************)

(* A bundle, by the source and the request it is of. *)
LEMMA WholeIsOf ==
    ASSUME NEW o, Whole(o)
    PROVE  \E s \in Readable, req \in Requests :
              /\ Admissible(s, req)
              /\ o.input = s /\ o.plan.req = req /\ o.certs = CheckFile[s]
              /\ o.tv = CollectTv(s, req, ClosureOf(s, req))
<1>1. PICK x \in Readable \X Requests \X Shells \X Versions \X Versions :
           /\ Admissible(x[1], x[2])
           /\ o = BundleOf(x[1], x[2], IF IsRich(x[2]) THEN x[3] ELSE None, x[4], x[5])
  BY DEF Whole, WholeBundles, MadeBundles
<1> DEFINE text == IF IsRich(x[2]) THEN x[3] ELSE None
           w == [src |-> x[1], req |-> x[2], planned |-> text, text |-> text, checked |-> x[1],
                 tools |-> x[4], linked |-> x[5]]
<1>2. o = Staged(w)
  BY <1>1, Zenon DEF BundleOf
<1>3. w.src = x[1] /\ w.req = x[2] /\ w.checked = x[1]
  OBVIOUS
<1> HIDE DEF w
<1>4. /\ o.input = x[1] /\ o.plan = MakePlan(x[1], x[2], w.planned) /\ o.certs = CheckFile[x[1]]
      /\ o.tv = CollectTv(x[1], x[2], ClosureOf(x[1], x[2]))
  BY <1>2, <1>3, StagedFiles
<1>5. MakePlan(x[1], x[2], w.planned).req = x[2]
  BY DEF MakePlan
<1> QED BY <1>1, <1>4, <1>5

(* The closure holds what the exports reach, and nothing but nodes. *)
LEMMA ClosureHolds ==
    ASSUME NEW s \in Readable, NEW req \in Requests
    PROVE  LET c == ClosureOf(s, req)
               p == Program[s]
           IN  /\ c.functions \cup c.specs \subseteq Nodes(p)
               /\ ReachedFrom(p, Roots(req)) \subseteq c.functions \cup c.specs
               /\ c.functions = {n \in c.functions \cup c.specs : p[n].kind = "fn"}
<1> DEFINE p == Program[s]
           seen == Reach(Roots(req), CallGraph(p), Nodes(p))
           c == ClosureOf(s, req)
<1>1. c = VerifiedClosure(p, Roots(req))
  BY DEF ClosureOf, Closures
<1>2. c.functions = {n \in seen : p[n].kind = "fn"} /\ c.specs = {n \in seen : p[n].kind = "spec"}
  BY <1>1 DEF VerifiedClosure
<1>3. IsFiniteSet(DOMAIN p)
  BY BuildAssumption
<1>4. seen \subseteq Nodes(p) /\ ReachedFrom(p, Roots(req)) \subseteq seen
  BY <1>3, ClosureCovers
<1> HIDE DEF seen, c
<1>5. \A n \in Nodes(p) : p[n].kind \in {"fn", "spec"}
  BY DEF Nodes
<1>6. /\ c.functions \cup c.specs \subseteq Nodes(p)
      /\ ReachedFrom(p, Roots(req)) \subseteq c.functions \cup c.specs
      /\ c.functions = {n \in c.functions \cup c.specs : p[n].kind = "fn"}
  BY <1>2, <1>4, <1>5
<1> QED BY <1>6 DEF c

(* A row that passes was translated faithfully, or skipped for its rich    *)
(* types and completed.                                                    *)
LEMMA FaithfulRows ==
    ASSUME NEW s, NEW req, NEW c, NEW p, p = Program[s],
           TvOk(CollectTv(s, req, c), ExpectedTv(p, c, req)),
           NEW f \in c.functions, NEW phase \in {"contract", "exec", "body"}
    PROVE  p[f].tv[phase] \in {"faithful", "rich"}
<1> DEFINE rows == CollectTv(s, req, c)
<1>1. <<phase, f>> \in ExpectedTv(p, c, req)
  BY DEF ExpectedTv
<1>2. PICK r \in rows : <<r[1], r[2]>> = <<phase, f>>
  BY <1>1 DEF TvOk
<1>3. r[3] = "faithful" /\ r[1] = phase /\ r[2] = f
  BY <1>2 DEF TvOk
<1>4. PICK q \in TvRows(s, req, c) :
           q[1] = r[1] /\ q[2] = r[2] /\ (q[3] = r[3] \/ q[3] = "rich")
  BY DEF CollectTv, Completed
<1>5. q[3] = p[f].tv[phase]
  <2>1. ASSUME NEW h \in {"contract", "exec", "body"}, NEW g \in c.functions, q = <<h, g, p[g].tv[h]>>
        PROVE  q[3] = p[f].tv[phase]
    BY <1>3, <1>4, <2>1
  <2>2. ASSUME NEW g, q = <<"guard", g, p[g].tv["guard"]>>
        PROVE  FALSE
    BY <1>3, <1>4, <2>2
  <2> QED BY <2>1, <2>2 DEF TvRows
<1> QED BY <1>3, <1>4, <1>5

(* The gates of the plan and the evidence that validate_bundle demands are  *)
(* enough: everything an export reaches is proved.                          *)
LEMMA WholeIsProved ==
    ASSUME original # Nothing => Whole(original)
    PROVE  ExportsProved
<1> SUFFICES ASSUME original # Nothing, Whole(original), Valid(original)
             PROVE  LET p == Program[original.input]
                        reached == Reached[<<original.input, original.plan.req>>]
                    IN  /\ \A n \in reached : p[n].level >= 3
                        /\ \A f \in {n \in reached : p[n].kind = "fn"} :
                            /\ ~p[f].slag /\ ~p[f].boundary /\ ~p[f].holes
                            /\ p[f].fx \cap {"diverge", "panic"} = {}
                            /\ \A phase \in {"contract", "exec", "body"} :
                                  p[f].tv[phase] \in {"faithful", "rich"}
  BY DEF ExportsProved, Whole, WholeBundles
<1>1. PICK s \in Readable, req \in Requests :
           /\ Admissible(s, req)
           /\ original.input = s /\ original.plan.req = req /\ original.certs = CheckFile[s]
           /\ original.tv = CollectTv(s, req, ClosureOf(s, req))
  BY WholeIsOf
<1> DEFINE p == Program[s]
           c == ClosureOf(s, req)
           reached == ReachedFrom(p, Roots(req))
<1>r. Reached[<<original.input, original.plan.req>>] = reached
  BY <1>1 DEF Reached
<1>2. /\ c.functions \cup c.specs \subseteq Nodes(p) /\ reached \subseteq c.functions \cup c.specs
      /\ c.functions = {n \in c.functions \cup c.specs : p[n].kind = "fn"}
  BY ClosureHolds
<1>3. CertificatesOk(CheckFile[s], c) /\ TvOk(CollectTv(s, req, c), ExpectedTv(p, c, req))
  BY <1>1 DEF Valid, EvidenceBound
<1>4. \A n \in reached : p[n].level >= 3
  <2>1. \A n \in Nodes(p) : CheckFile[s][n].level = p[n].level
    BY DEF CheckFile
  <2> QED BY <1>2, <1>3, <2>1 DEF CertificatesOk
<1>5. Strict(p, c, req.target)
  BY <1>1 DEF Admissible
<1>6. ASSUME NEW f \in reached, p[f].kind = "fn"
      PROVE  /\ ~p[f].slag /\ ~p[f].boundary /\ ~p[f].holes
             /\ p[f].fx \cap {"diverge", "panic"} = {}
             /\ \A phase \in {"contract", "exec", "body"} : p[f].tv[phase] \in {"faithful", "rich"}
  <2>1. f \in c.functions
    BY <1>2, <1>6
  <2>2. \A phase \in {"contract", "exec", "body"} : p[f].tv[phase] \in {"faithful", "rich"}
    BY <1>3, <2>1, FaithfulRows
  <2> QED BY <1>5, <2>1, <2>2 DEF Strict
<1> QED BY <1>1, <1>r, <1>4, <1>6

(***************************************************************************)
(* The kernel image.  While a build writes, the files written so far are   *)
(* of that build; once the image is there, no build gets as far as to      *)
(* write; an audit that nobody disturbed has seen the source and the tree  *)
(* that the receipt names.                                                 *)
(***************************************************************************)
JobOk ==
    /\ "pc" \in DOMAIN job
    /\ job.pc \in {"certified", "booted", "bound", "rebuilt", "writing"} => {"src", "certs"} \subseteq DOMAIN job
    /\ job.pc \in {"booted", "bound", "rebuilt", "writing"} => "image" \in DOMAIN job
    /\ job.pc \in {"bound", "rebuilt", "writing"} => "tree" \in DOMAIN job
    /\ job.pc = "parsed" => "src" \in DOMAIN job
    /\ job.pc = "writing" => "next" \in DOMAIN job /\ job.next \in 1..8

WrittenOk ==
    job.pc = "writing" =>
        /\ "img" \notin DOMAIN out
        /\ \A i \in 1..7 : i < job.next =>
              Siblings[i] \in DOMAIN out /\ out[Siblings[i]] = ReceiptOf(job)

AuditOk ==
    /\ audit \in [pc : {"rest", "checking"}, replay : BOOLEAN, verdict : {"none", "valid", "refused"},
                  still : BOOLEAN]
    /\ audit.pc = "checking" => audit.verdict = "none"
    /\ audit.pc = "checking" \/ audit.verdict = "valid" => "img" \in DOMAIN out
    /\ audit.pc = "checking" /\ audit.still =>
          kernel = out["receipt.json"].source /\ tree = out["receipt.json"].tree

ImageInvariant == JobOk /\ WrittenOk /\ ImageSentinel /\ AuditOk /\ AcceptedImageIsBound

LEMMA SiblingFacts ==
    /\ DOMAIN Siblings = 1..7 /\ Len(Siblings) = 7 /\ Siblings[1] = "receipt.json"
    /\ \A i \in 1..7 : Siblings[i] # "img"
    /\ \A i, j \in 1..7 : Siblings[i] = Siblings[j] => i = j
<1>1. Len(Siblings) = 7 /\ DOMAIN Siblings = 1..7
  BY DEF Siblings
<1>2. /\ Siblings[1] = "receipt.json" /\ Siblings[2] = "efi" /\ Siblings[3] = "pdb"
      /\ Siblings[4] = "sections" /\ Siblings[5] = "symbols" /\ Siblings[6] = "receipt"
      /\ Siblings[7] = "evidence"
  BY DEF Siblings
<1>3. \A i \in 1..7 : i = 1 \/ i = 2 \/ i = 3 \/ i = 4 \/ i = 5 \/ i = 6 \/ i = 7
  OBVIOUS
<1>4. \A i \in 1..7 : Siblings[i] # "img"
  BY <1>2, <1>3
<1>5. \A i, j \in 1..7 : Siblings[i] = Siblings[j] => i = j
  BY <1>2, <1>3
<1> QED BY <1>1, <1>2, <1>4, <1>5

(* A step of build_image that writes no file: it stops, or goes on with    *)
(* what it knows and perhaps one field more.                               *)
LEMMA NoFileWritten ==
    ASSUME ImageInvariant, UNCHANGED <<authored, out, audit>>, JobOk', WrittenOk'
    PROVE  ImageInvariant'
BY DEF ImageInvariant, ImageSentinel, AuditOk, AcceptedImageIsBound, authored

LEMMA RestIsFine ==
    ASSUME job' = Rest
    PROVE  JobOk' /\ WrittenOk'
BY DEF Rest, JobOk, WrittenOk

LEMMA ReadKernelStep ==
    ASSUME ImageInvariant, ReadKernel
    PROVE  ImageInvariant'
<1>1. CASE job' = Rest
  BY <1>1, RestIsFine, NoFileWritten DEF ReadKernel
<1>2. CASE job' = [pc |-> "parsed", src |-> kernel]
  <2>1. JobOk' /\ WrittenOk'
    BY <1>2 DEF JobOk, WrittenOk
  <2> QED BY <2>1, NoFileWritten DEF ReadKernel
<1> QED BY <1>1, <1>2 DEF ReadKernel

(* Going on with one field more. *)
LEMMA JobGoesOn ==
    ASSUME JobOk, NEW pc, NEW field, NEW value, field # "pc",
           job' = Having([job EXCEPT !.pc = pc], field, value)
    PROVE  /\ job'.pc = pc /\ job'[field] = value /\ DOMAIN job' = DOMAIN job \cup {field}
           /\ \A f \in DOMAIN job \ {"pc", field} : job'[f] = job[f]
<1>1. "pc" \in DOMAIN job
  BY DEF JobOk
<1> DEFINE k == [job EXCEPT !.pc = pc]
<1>2. DOMAIN k = DOMAIN job /\ k.pc = pc /\ \A f \in DOMAIN job \ {"pc"} : k[f] = job[f]
  BY <1>1
<1> HIDE DEF k
<1>3. job' = [f \in DOMAIN k \cup {field} |-> IF f = field THEN value ELSE k[f]]
  BY DEF Having, k
<1> QED BY <1>1, <1>2, <1>3

LEMMA CheckKernelStep ==
    ASSUME ImageInvariant, CheckKernel
    PROVE  ImageInvariant'
<1>1. CASE job' = Rest
  BY <1>1, RestIsFine, NoFileWritten DEF CheckKernel
<1>2. CASE job' = Having([job EXCEPT !.pc = "certified"], "certs", Checked[kernel])
  <2>1. job'.pc = "certified" /\ DOMAIN job' = DOMAIN job \cup {"certs"}
    BY <1>2, JobGoesOn DEF ImageInvariant
  <2>2. JobOk' /\ WrittenOk'
    BY <2>1 DEF JobOk, WrittenOk, ImageInvariant, CheckKernel
  <2> QED BY <2>2, NoFileWritten DEF CheckKernel
<1> QED BY <1>1, <1>2 DEF CheckKernel

LEMMA BuildStagedStep ==
    ASSUME ImageInvariant, BuildStaged
    PROVE  ImageInvariant'
<1>1. CASE job' = Rest
  BY <1>1, RestIsFine, NoFileWritten DEF BuildStaged
<1>2. CASE job' = Having([job EXCEPT !.pc = "booted"], "image", tree)
  <2>1. job'.pc = "booted" /\ DOMAIN job' = DOMAIN job \cup {"image"}
    BY <1>2, JobGoesOn DEF ImageInvariant
  <2>2. JobOk' /\ WrittenOk'
    BY <2>1 DEF JobOk, WrittenOk, ImageInvariant, BuildStaged
  <2> QED BY <2>2, NoFileWritten DEF BuildStaged
<1> QED BY <1>1, <1>2 DEF BuildStaged

LEMMA BindReceiptStep ==
    ASSUME ImageInvariant, BindReceipt
    PROVE  ImageInvariant'
<1>1. job'.pc = "bound" /\ DOMAIN job' = DOMAIN job \cup {"tree"}
  BY JobGoesOn DEF ImageInvariant, BindReceipt
<1>2. JobOk' /\ WrittenOk'
  BY <1>1 DEF JobOk, WrittenOk, ImageInvariant, BindReceipt
<1> QED BY <1>2, NoFileWritten DEF BindReceipt

LEMMA RebuildStep ==
    ASSUME ImageInvariant, Rebuild
    PROVE  ImageInvariant'
<1>1. CASE job' = Rest
  BY <1>1, RestIsFine, NoFileWritten DEF Rebuild
<1>2. CASE job' = [job EXCEPT !.pc = "rebuilt"]
  <2>1. job'.pc = "rebuilt" /\ DOMAIN job' = DOMAIN job
    BY <1>2 DEF ImageInvariant, JobOk
  <2>2. JobOk' /\ WrittenOk'
    BY <2>1 DEF JobOk, WrittenOk, ImageInvariant, Rebuild
  <2> QED BY <2>2, NoFileWritten DEF Rebuild
<1> QED BY <1>1, <1>2 DEF Rebuild

(* Writing begins where no file of a publication is. *)
LEMMA ProbeTargetsStep ==
    ASSUME ImageInvariant, ProbeTargets
    PROVE  ImageInvariant'
<1>1. CASE job' = Rest
  BY <1>1, RestIsFine, NoFileWritten DEF ProbeTargets
<1>2. CASE "img" \notin DOMAIN out /\ job' = Having([job EXCEPT !.pc = "writing"], "next", 1)
  <2>1. job'.pc = "writing" /\ job'.next = 1 /\ DOMAIN job' = DOMAIN job \cup {"next"}
    BY <1>2, JobGoesOn DEF ImageInvariant
  <2>2. JobOk'
    BY <2>1 DEF JobOk, ImageInvariant, ProbeTargets
  <2>3. WrittenOk'
    BY <1>2, <2>1 DEF WrittenOk, ProbeTargets
  <2> QED BY <2>2, <2>3, NoFileWritten DEF ProbeTargets
<1> QED BY <1>1, <1>2 DEF ProbeTargets

(* The image is the last file, and all the others are of the same build. *)
LEMMA WriteNextStep ==
    ASSUME ImageInvariant, WriteNext
    PROVE  ImageInvariant'
<1> DEFINE n == job.next
           file == IF n <= 7 THEN Siblings[n] ELSE "img"
           r == ReceiptOf(job)
<1>1. /\ "img" \notin DOMAIN out
      /\ \A i \in 1..7 : i < n => Siblings[i] \in DOMAIN out /\ out[Siblings[i]] = r
      /\ n \in 1..8 /\ job.pc = "writing"
      /\ {"pc", "src", "certs", "tree", "image", "next"} \subseteq DOMAIN job
  BY DEF ImageInvariant, JobOk, WrittenOk, WriteNext
<1>2. /\ out' = [f \in DOMAIN out \cup {file} |-> IF f = file THEN r ELSE out[f]]
      /\ job' = IF n <= 7 THEN [job EXCEPT !.next = n + 1] ELSE Rest
      /\ UNCHANGED <<authored, jobs, audit>>
  BY SiblingFacts DEF WriteNext, Having
<1>3. audit.pc # "checking" /\ audit.verdict # "valid"
  BY <1>1 DEF ImageInvariant, AuditOk
<1>4. AuditOk' /\ AcceptedImageIsBound'
  BY <1>2, <1>3 DEF ImageInvariant, AuditOk, AcceptedImageIsBound, authored
<1>5. CASE n <= 7
  <2>1. /\ DOMAIN job' = DOMAIN job /\ job'.pc = "writing" /\ job'.next = n + 1
        /\ job'.src = job.src /\ job'.certs = job.certs /\ job'.tree = job.tree /\ job'.image = job.image
    BY <1>1, <1>2, <1>5
  <2>2. ReceiptOf(job)' = r
    BY <1>2, <2>1 DEF ReceiptOf
  <2>3. n + 1 \in 1..8 /\ n \in 1..7 /\ \A i \in 1..7 : i < n + 1 => i < n \/ i = n
    BY <1>1, <1>5
  <2>4. JobOk'
    BY <1>1, <2>1, <2>3 DEF JobOk
  <2>5. file = Siblings[n] /\ file # "img" /\ "img" \notin DOMAIN out'
    BY <1>1, <1>2, <1>5, <2>3, SiblingFacts
  <2>6. \A i \in 1..7 : i < n + 1 => Siblings[i] \in DOMAIN out' /\ out'[Siblings[i]] = r
    BY <1>1, <1>2, <2>3, <2>5, SiblingFacts
  <2> HIDE DEF n, r, file
  <2>7. WrittenOk'
    BY <2>1, <2>2, <2>5, <2>6 DEF WrittenOk
  <2> QED BY <1>4, <2>4, <2>5, <2>7 DEF ImageInvariant, ImageSentinel
<1>6. CASE ~(n <= 7)
  <2>1. JobOk' /\ WrittenOk' /\ n = 8 /\ file = "img"
    BY <1>1, <1>2, <1>6, RestIsFine
  <2>2. \A i \in 1..7 : Siblings[i] \in DOMAIN out' /\ out'[Siblings[i]] = r
    BY <1>1, <1>2, <2>1, SiblingFacts
  <2>3. out'["img"] = r
    BY <1>2, <2>1
  <2>4. ImageSentinel'
    BY <2>2, <2>3, SiblingFacts DEF ImageSentinel
  <2> QED BY <1>4, <2>1, <2>4 DEF ImageInvariant
<1> QED BY <1>5, <1>6

LEMMA RemoveLeftoversStep ==
    ASSUME ImageInvariant, RemoveLeftovers
    PROVE  ImageInvariant'
<1>1. "img" \notin DOMAIN out /\ out' = <<>> /\ UNCHANGED <<authored, job, jobs, audit>> /\ job = Rest
  BY DEF RemoveLeftovers
<1>2. DOMAIN out' = {}
  BY <1>1
<1>3. audit.pc # "checking" /\ audit.verdict # "valid"
  BY <1>1 DEF ImageInvariant, AuditOk
<1>4. AuditOk' /\ AcceptedImageIsBound' /\ ImageSentinel'
  BY <1>1, <1>2, <1>3 DEF ImageInvariant, AuditOk, AcceptedImageIsBound, ImageSentinel, authored
<1>5. JobOk' /\ WrittenOk'
  BY <1>1, RestIsFine
<1> QED BY <1>4, <1>5 DEF ImageInvariant

LEMMA EditKernelStep ==
    ASSUME ImageInvariant, EditKernel
    PROVE  ImageInvariant'
<1>1. UNCHANGED <<job, jobs, out>> /\ audit' = [audit EXCEPT !.still = FALSE]
  BY DEF EditKernel
<1>2. audit'.still = FALSE /\ audit'.pc = audit.pc /\ audit'.verdict = audit.verdict
  BY <1>1 DEF ImageInvariant, AuditOk
<1>3. audit' \in [pc : {"rest", "checking"}, replay : BOOLEAN, verdict : {"none", "valid", "refused"},
                  still : BOOLEAN]
  BY <1>1 DEF ImageInvariant, AuditOk
<1>4. AuditOk' /\ AcceptedImageIsBound'
  BY <1>1, <1>2, <1>3 DEF ImageInvariant, AuditOk, AcceptedImageIsBound
<1>5. JobOk' /\ WrittenOk' /\ ImageSentinel'
  BY <1>1 DEF ImageInvariant, JobOk, WrittenOk, ImageSentinel, ReceiptOf
<1> QED BY <1>4, <1>5 DEF ImageInvariant

(* The first half of validate_image compares source and tree with what the *)
(* receipt names.                                                          *)
LEMMA BeginAuditStep ==
    ASSUME ImageInvariant, NEW replay \in BOOLEAN, BeginAudit(replay)
    PROVE  ImageInvariant'
<1>1. UNCHANGED <<authored, job, jobs, out>> /\ "img" \in DOMAIN out
  BY DEF BeginAudit
<1>2. \/ /\ audit' = [pc |-> "checking", replay |-> replay, verdict |-> "none", still |-> TRUE]
         /\ kernel = out["receipt.json"].source /\ tree = out["receipt.json"].tree
      \/ audit' = [pc |-> "rest", replay |-> replay, verdict |-> "refused", still |-> TRUE]
  BY DEF BeginAudit
<1>3. audit' \in [pc : {"rest", "checking"}, replay : BOOLEAN, verdict : {"none", "valid", "refused"},
                  still : BOOLEAN]
  <2>1. ASSUME NEW pc \in {"rest", "checking"}, NEW verdict \in {"none", "refused"},
               audit' = [pc |-> pc, replay |-> replay, verdict |-> verdict, still |-> TRUE]
        PROVE  audit' \in [pc : {"rest", "checking"}, replay : BOOLEAN,
                           verdict : {"none", "valid", "refused"}, still : BOOLEAN]
    BY <2>1
  <2> QED BY <1>2, <2>1
<1>4. /\ audit'.verdict # "valid"
      /\ audit'.pc = "checking" => audit'.verdict = "none"
  BY <1>2
<1>5. audit'.pc = "checking" => kernel = out["receipt.json"].source /\ tree = out["receipt.json"].tree
  BY <1>2
<1>6. AuditOk' /\ AcceptedImageIsBound'
  BY <1>1, <1>3, <1>4, <1>5 DEF AuditOk, AcceptedImageIsBound, authored
<1>7. JobOk' /\ WrittenOk' /\ ImageSentinel'
  BY <1>1 DEF ImageInvariant, JobOk, WrittenOk, ImageSentinel, ReceiptOf
<1> QED BY <1>6, <1>7 DEF ImageInvariant

(* The second half opens them again: what it accepts undisturbed is what   *)
(* the receipt names.                                                      *)
LEMMA EndAuditStep ==
    ASSUME ImageInvariant, EndAudit
    PROVE  ImageInvariant'
<1> DEFINE r == out["receipt.json"]
<1>1. UNCHANGED <<authored, job, jobs, out>> /\ audit.pc = "checking" /\ "img" \in DOMAIN out
  BY DEF EndAudit, ImageInvariant, AuditOk
<1>2. PICK verdict \in {"valid", "refused"} :
           /\ audit' = [audit EXCEPT !.pc = "rest", !.verdict = verdict]
           /\ verdict = "valid" => /\ Checked[kernel] = r.certs
                                   /\ audit.replay => tree = r.image
  BY DEF EndAudit, CertificatesSame
<1>3. /\ audit'.pc = "rest" /\ audit'.verdict = verdict
      /\ audit'.still = audit.still /\ audit'.replay = audit.replay
      /\ audit' \in [pc : {"rest", "checking"}, replay : BOOLEAN, verdict : {"none", "valid", "refused"},
                     still : BOOLEAN]
  BY <1>2 DEF ImageInvariant, AuditOk
<1>4. audit.still => kernel = r.source /\ tree = r.tree
  BY <1>1 DEF ImageInvariant, AuditOk
<1>5. AuditOk'
  BY <1>1, <1>3 DEF AuditOk
<1>6. AcceptedImageIsBound'
  BY <1>1, <1>2, <1>3, <1>4 DEF AcceptedImageIsBound
<1>7. JobOk' /\ WrittenOk' /\ ImageSentinel'
  BY <1>1 DEF ImageInvariant, JobOk, WrittenOk, ImageSentinel, ReceiptOf
<1> QED BY <1>5, <1>6, <1>7 DEF ImageInvariant

LEMMA ImageInvariantStep ==
    ASSUME ImageInvariant, [KiNext]_kiVars
    PROVE  ImageInvariant'
<1>1. CASE UNCHANGED kiVars
  BY <1>1 DEF kiVars, authored, ImageInvariant, JobOk, WrittenOk, ImageSentinel, AuditOk,
              AcceptedImageIsBound, ReceiptOf
<1>2. CASE BuilderDies
  BY <1>2, RestIsFine, NoFileWritten DEF BuilderDies
<1>3. CASE KiNext
  BY <1>2, <1>3, ReadKernelStep, CheckKernelStep, BuildStagedStep, BindReceiptStep, RebuildStep,
     ProbeTargetsStep, WriteNextStep, RemoveLeftoversStep, EditKernelStep, BeginAuditStep, EndAuditStep
     DEF KiNext
<1> QED BY <1>1, <1>3

(***************************************************************************)
(* The theorems.                                                           *)
(***************************************************************************)
pubVars == <<vbVars, kiVars>>

LEMMA InvariantsAtFirst ==
    ASSUME VbInit, KiInit
    PROVE  BundleInvariant /\ ImageInvariant
<1>1. BuildsOk
  <2>1. BuildOk(Idle, tools)
    BY DEF BuildOk, Idle, Reading, Equipped, Planning, Freezing, Proving, Linking, Staging
  <2>2. tools \in Versions
    BY BuildAssumption DEF VbInit, Versions
  <2> QED BY <2>1, <2>2, BuildAssumption DEF BuildsOk, VbInit
<1>2. DestinationOk
  BY DEF VbInit, DestinationOk, PublishedIsOneBuild, AcceptedBundleIsWhole
<1>3. DOMAIN out = {} /\ audit.pc = "rest" /\ audit.verdict = "none"
  BY DEF KiInit
<1>4. JobOk /\ WrittenOk
  BY DEF KiInit, Rest, JobOk, WrittenOk
<1>5. audit \in [pc : {"rest", "checking"}, replay : BOOLEAN, verdict : {"none", "valid", "refused"},
                 still : BOOLEAN]
  BY DEF KiInit
<1>6. ImageSentinel /\ AuditOk /\ AcceptedImageIsBound
  BY <1>3, <1>5 DEF ImageSentinel, AuditOk, AcceptedImageIsBound
<1> QED BY <1>1, <1>2, <1>4, <1>6 DEF BundleInvariant, ImageInvariant

(* The two protocols keep both invariants, whatever the files, the number  *)
(* of builds, edits, upgrades and deaths.                                  *)
LEMMA InvariantsAlways == PublicationSpec => [](BundleInvariant /\ ImageInvariant)
<1> DEFINE Inv == BundleInvariant /\ ImageInvariant
           Step == (VbNext /\ UNCHANGED kiVars) \/ (KiNext /\ UNCHANGED vbVars)
<1>1. VbInit /\ KiInit => Inv
  BY InvariantsAtFirst
<1>2. Inv /\ [Step]_pubVars => Inv'
  <2> SUFFICES ASSUME Inv, [Step]_pubVars PROVE Inv'
    OBVIOUS
  <2>1. [VbNext]_vbVars /\ [KiNext]_kiVars
    BY DEF pubVars
  <2> QED BY <2>1, BundleInvariantStep, ImageInvariantStep
<1> QED BY <1>1, <1>2, PTL DEF PublicationSpec, pubVars

(* stage_and_publish: what the destination shows is what one build makes   *)
(* of one source, one shell and one set of link inputs, with provers no    *)
(* older than those it records, and everything that its exports reach,     *)
(* contracts included, is proved; for all programs, however many builds    *)
(* race, and whatever is edited, upgraded or interrupted.                  *)
THEOREM PublishedProved == PublicationSpec => []PublishedIsProved
<1>1. BundleInvariant => PublishedIsProved
  <2> SUFFICES ASSUME BundleInvariant PROVE PublishedIsProved
    OBVIOUS
  <2>1. PublishedIsOneBuild
    BY DEF BundleInvariant, DestinationOk
  <2>2. ExportsProved
    BY <2>1, WholeIsProved DEF PublishedIsOneBuild
  <2> QED BY <2>1, <2>2 DEF PublishedIsProved
<1> QED BY <1>1, InvariantsAlways, PTL

(* validate_bundle and validate_image: a bundle that is accepted after any *)
(* damage is one that some build made whole, and if it was replayed one    *)
(* that the tools it records compiled; an image that can be seen has *)
(* all of its files, of one build, and one that validates while nobody     *)
(* edits is bound to the source and the tree that its receipt names.       *)
THEOREM AcceptedWhole == PublicationSpec => []AcceptedIsWhole
<1>1. BundleInvariant /\ ImageInvariant => AcceptedIsWhole
  BY DEF BundleInvariant, DestinationOk, ImageInvariant, AcceptedIsWhole
<1> QED BY <1>1, InvariantsAlways, PTL

(* stage_and_publish and publish: the rename never replaces a bundle, and  *)
(* once an image is in place no later build, whole or dead, touches a file *)
(* of that publication.                                                    *)
THEOREM NeverReplaced == PublicationSpec => PublishedStays
<1> DEFINE Step == (VbNext /\ UNCHANGED kiVars) \/ (KiNext /\ UNCHANGED vbVars)
           Stays == /\ original # Nothing => original' = original
                    /\ "img" \in DOMAIN out => out' = out
<1>1. BundleInvariant /\ ImageInvariant /\ [Step]_pubVars => [Stays]_pubVars
  <2> SUFFICES ASSUME BundleInvariant, ImageInvariant, Step PROVE Stays
    BY DEF pubVars
  <2>1. ASSUME original # Nothing, VbNext PROVE original' = original
    <3>1. bundle # Nothing
      BY <2>1 DEF BundleInvariant, DestinationOk
    <3> QED
      BY <2>1, <3>1 DEF VbNext, ReadSource, ProbeDestination, CollectToolchain, Plan, Reassemble, Prove,
                        Compile, Stage, Publish, Die, Edit, Upgrade, Damage, VerifyBuild, visible
  <2>2. ASSUME "img" \in DOMAIN out, KiNext PROVE out' = out
    <3>1. job.pc # "writing"
      BY <2>2 DEF ImageInvariant, WrittenOk
    <3> QED
      BY <2>2, <3>1 DEF KiNext, ReadKernel, CheckKernel, BuildStaged, BindReceipt, Rebuild, ProbeTargets,
                        WriteNext, BuilderDies, RemoveLeftovers, EditKernel, EndAudit, BeginAudit
  <2>3. UNCHANGED kiVars => out' = out
    BY DEF kiVars
  <2>4. UNCHANGED vbVars => original' = original
    BY DEF vbVars, visible
  <2> QED BY <2>1, <2>2, <2>3, <2>4
<1> QED BY <1>1, InvariantsAlways, PTL DEF PublicationSpec, PublishedStays, pubVars

(* The checked instance is one of those that the theorems are about. *)
THEOREM RunIsPublication == Spec => PublicationSpec
<1> DEFINE Step == (VbNext /\ UNCHANGED kiVars) \/ (KiNext /\ UNCHANGED vbVars)
<1>1. Init => VbInit /\ KiInit
  BY DEF Init
<1>2. [Next]_<<vbVars, kiVars, focus>> => [Step]_pubVars
  BY DEF Next, pubVars
<1> QED BY <1>1, <1>2, PTL DEF Spec, PublicationSpec, pubVars
====
