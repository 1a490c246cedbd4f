-------------------------------- MODULE ForgeProofs -------------------------------
(***************************************************************************)
(* What a history of forge checks over a shared cache cannot do, for every *)
(* set of bodies and contracts, whatever their mutants and candidates are, *)
(* whatever Verus answers, and for every number of processes and checks;   *)
(* what the route of a function through the engines and the reconstruction *)
(* of a clause cannot, whatever the engines and the solvers answer.        *)
(***************************************************************************)
EXTENDS MCForgeCheck, FiniteSetTheorems, WellFoundedInduction, TLAPS

(***************************************************************************)
(* The inductive invariant.  What is said of an entry and of a check holds *)
(* or not by what the provers would say (w, which never changes) and by    *)
(* what was stored as an item (is) and as a probe (ps).                    *)
(***************************************************************************)

Says(w, x)     == w[1][x]
IsVacuous(w, x) == x[2] \in w[2]
ProvesSame(w)  == w[3]

WorldOK(w) ==
    w[1] \in [Funs -> {"proved", "refuted", "timeout", "unknown"}] /\ w[3] \in BOOLEAN

(* Proved, Counted and Fresh of ForgeCheck. *)
ProvedBy(w, S) == {m \in S : Says(w, m) = "proved"}
CountedBy(w, x) ==
    IF ProvesSame(w) THEN MutantsOf(x) \ ProvedBy(w, MutantsOf(x)) ELSE MutantsOf(x)
FreshBy(w, x) ==
    IF IsVacuous(w, x) THEN {Rejected("Vacuous")}
    ELSE IF Says(w, x) # "proved" THEN Ladder(Says(w, x))
    ELSE IF MeetsFloor(Cardinality(CountedBy(w, x) \ ProvedBy(w, CountedBy(w, x))),
                       Cardinality(CountedBy(w, x)))
         THEN {L3Cert} ELSE {Rejected("WeakContract")}

ApartIn(x, is, ps) == x \notin ps /\ (MutantsOf(x) \cap is) = {}

(* The verdicts that a check at the default budget can reach for x: those of
   the ladder, and those of the gates. *)
VerdictOk(w, x, v) ==
    \/ v \in Ladder(Says(w, x)) \/ v = Assembled(Says(w, x))
    \/ v = Rejected("Vacuous")
    \/ v = Rejected("WeakContract")

(* What is stored for a source is such a verdict, and not a degraded one.  What
   was stored for a mutant or a candidate only is the answer of Verus; what was
   stored for an item that is apart is its fresh verdict. *)
EntryOk(w, x, entry, is, ps) ==
    entry # None =>
        /\ VerdictOk(w, x, entry) /\ entry.lowered = FALSE
        /\ x \notin is => entry = Assembled(Says(w, x))
        /\ ApartIn(x, is, ps) => entry \in FreshBy(w, x)

(* The mutants that count and are not to do any more, and the killed of them. *)
ScoredOf(w, x, todo) == CountedBy(w, x) \ todo
KilledOf(w, x, todo) == ScoredOf(w, x, todo) \ ProvedBy(w, ScoredOf(w, x, todo))

(* A check at the default budget that scores: the function is proved and not
   vacuous, and the score is that of the mutants which were tried. *)
Scoring(w, r, is, ps) ==
    /\ r.cert = L3Cert /\ Says(w, r.fun) = "proved" /\ ~IsVacuous(w, r.fun)
    /\ r.todo \subseteq MutantsOf(r.fun)
    /\ ApartIn(r.fun, is, ps) =>
          /\ r.scored = Cardinality(ScoredOf(w, r.fun, r.todo))
          /\ r.killed = Cardinality(KilledOf(w, r.fun, r.todo))

Judged(w, r, is, ps) ==
    VerdictOk(w, r.fun, r.cert) /\ (ApartIn(r.fun, is, ps) => r.cert \in FreshBy(w, r.fun))

(* A record of proc. *)
Fields == {"pc", "fun", "opt", "cert", "todo", "killed", "scored", "survivor", "cached"}
Record(r) == r = [f \in Fields |-> r[f]]

CheckTyped(r) ==
    /\ Record(r)
    /\ r.pc \in {"idle", "lookup", "judge", "score", "probe", "store", "done"}
    /\ r.pc # "idle" => r.fun \in Funs /\ r.opt \in {"default", "other"}
    /\ r.todo \in SUBSET Funs /\ (r.survivor = None \/ r.survivor \in Bodies)
    /\ r.pc \in {"lookup", "judge"} => r.killed = 0 /\ r.scored = 0
    /\ r.pc \notin {"idle", "done"} => r.cached = FALSE

CheckOk(w, r, is, ps) ==
    /\ CheckTyped(r)
    /\ r.opt = "default" =>
          /\ r.pc = "score" => Scoring(w, r, is, ps)
          /\ r.pc = "probe" => r.cert = L3Cert /\ Judged(w, r, is, ps)
          /\ r.pc \in {"store", "done"} => Judged(w, r, is, ps)
          /\ r.pc = "done" /\ r.cached = TRUE => r.cert.lowered = FALSE

ForgeInv ==
    /\ WorldOK(world) /\ DOMAIN cache = Funs /\ DOMAIN proc = Processes
    /\ cache = [x \in Funs |-> cache[x]] /\ proc = [p \in Processes |-> proc[p]]
    /\ \A x \in Funs : EntryOk(world, x, cache[x], items, probes)
    /\ \A p \in Processes : CheckOk(world, proc[p], items, probes)

(***************************************************************************)
(* The operators.                                                          *)
(***************************************************************************)

LEMMA CertFields ==
    /\ L3Cert.level = 3 /\ L3Cert.reject = None /\ L3Cert.lowered = FALSE
    /\ Refuted.level = 0 /\ Refuted.lowered = FALSE
    /\ \A cause : Rejected(cause).level = 0 /\ Rejected(cause).lowered = FALSE
    /\ \A n : Degraded(n).level = n /\ Degraded(n).lowered = TRUE
BY DEF L3Cert, Refuted, Rejected, Degraded, Cert

(* A mutant that was stored as a mutant only survives if Verus proves it. *)
LEMMA AssembledSurvives ==
    ASSUME NEW v \in {"proved", "refuted", "timeout", "unknown"}
    PROVE  Survives(Assembled(v)) <=> v = "proved"
BY CertFields DEF Survives, Assembled

LEMMA Projections ==
    ASSUME NEW x \in Funs
    PROVE  /\ x[1] \in Bodies /\ x[2] \in Contracts /\ x = <<x[1], x[2]>>
           /\ MutantsOf(x) \subseteq Funs /\ IsFiniteSet(MutantsOf(x))
           /\ {x[1]} \X Stronger[x[2]] \subseteq Funs
<1>1. x[1] \in Bodies /\ x[2] \in Contracts /\ x = <<x[1], x[2]>>
  BY DEF Funs
<1>2. Mutations[x[1]] \subseteq Bodies /\ Stronger[x[2]] \subseteq Contracts
  BY <1>1, ForgeAssumption
<1>3. IsFiniteSet(Mutations[x[1]]) /\ IsFiniteSet({x[2]})
  BY <1>1, ForgeAssumption, FS_Singleton
<1>4. IsFiniteSet(MutantsOf(x))
  BY <1>3, FS_Product DEF MutantsOf
<1> QED
  BY <1>1, <1>2, <1>4 DEF MutantsOf, Funs

(* An entry and a check stay right when more becomes known as item or probe. *)
LEMMA EntryStays ==
    ASSUME NEW w, NEW x, NEW entry, NEW is, NEW ps, NEW it, NEW pt, is \subseteq it, ps \subseteq pt,
           EntryOk(w, x, entry, is, ps)
    PROVE  EntryOk(w, x, entry, it, pt)
BY DEF EntryOk, ApartIn

LEMMA CheckStays ==
    ASSUME NEW w, NEW r, NEW is, NEW ps, NEW it, NEW pt, is \subseteq it, ps \subseteq pt,
           CheckOk(w, r, is, ps)
    PROVE  CheckOk(w, r, it, pt)
<1>1. \A x : ApartIn(x, it, pt) => ApartIn(x, is, ps)
  BY DEF ApartIn
<1> QED
  BY <1>1 DEF CheckOk, Scoring, Judged

(* The step of one process: it is enough to look at its record and at the one
   entry it may have stored. *)
LEMMA OneProcess ==
    ASSUME ForgeInv, NEW p \in Processes, NEW new, Step(p, new), UNCHANGED world,
           items \subseteq items', probes \subseteq probes',
           CheckOk(world, new, items', probes'),
           NEW x \in Funs, NEW entry, Store(x, entry), EntryOk(world, x, entry, items', probes')
    PROVE  ForgeInv'
<1>1. /\ proc' = [q \in Processes |-> IF q = p THEN new ELSE proc[q]]
      /\ cache' = cache \/ cache' = [y \in Funs |-> IF y = x THEN entry ELSE cache[y]]
  BY DEF Step, Store, ForgeInv
<1>2. ASSUME NEW q \in Processes PROVE CheckOk(world, proc'[q], items', probes')
  BY <1>1, CheckStays DEF ForgeInv
<1>3. ASSUME NEW y \in Funs PROVE EntryOk(world, y, cache'[y], items', probes')
  <2>1. EntryOk(world, y, cache[y], items', probes')
    BY EntryStays DEF ForgeInv
  <2> QED
    BY <1>1, <2>1
<1>4. /\ DOMAIN cache' = Funs /\ DOMAIN proc' = Processes
      /\ cache' = [y \in Funs |-> cache'[y]] /\ proc' = [q \in Processes |-> proc'[q]]
  BY <1>1 DEF ForgeInv
<1>5. world' = world
  OBVIOUS
<1> HIDE DEF world
<1> QED
  BY <1>2, <1>3, <1>4, <1>5 DEF ForgeInv

(* Its special case: nothing is stored. *)
LEMMA NothingStored ==
    ASSUME ForgeInv, NEW p \in Processes, NEW new, Step(p, new), NEW x \in Funs,
           UNCHANGED <<world, cache>>, items \subseteq items', probes \subseteq probes',
           CheckOk(world, new, items', probes')
    PROVE  ForgeInv'
<1>1. Store(x, None) /\ EntryOk(world, x, None, items', probes')
  BY DEF Store, EntryOk
<1> QED
  BY <1>1, OneProcess

(***************************************************************************)
(* The steps.                                                              *)
(***************************************************************************)

LEMMA ForgeInitial == Init => ForgeInv
<1> SUFFICES ASSUME Init PROVE ForgeInv
  OBVIOUS
<1>1. WorldOK(world)
  BY ForgeAssumption DEF Init, WorldOK, world
<1>2. CheckOk(world, Idle, items, probes)
  BY DEF CheckOk, CheckTyped, Record, Fields, Idle
<1>3. \A x \in Funs : EntryOk(world, x, None, items, probes)
  BY DEF EntryOk
<1> QED
  BY <1>1, <1>2, <1>3 DEF Init, ForgeInv

(* Where a process is. *)
LEMMA Under ==
    ASSUME ForgeInv, NEW p \in Processes, proc[p].pc # "idle"
    PROVE  /\ CheckOk(world, proc[p], items, probes) /\ Record(proc[p])
           /\ proc[p].fun \in Funs /\ proc[p].opt \in {"default", "other"}
BY DEF ForgeInv, CheckOk, CheckTyped

LEMMA StartKeeps ==
    ASSUME ForgeInv, NEW p \in Processes, NEW x \in Funs, NEW opt \in {"default", "other"},
           Start(p, x, opt)
    PROVE  ForgeInv'
<1> DEFINE new == [Idle EXCEPT !.pc = "lookup", !.fun = x, !.opt = opt]
<1>1. CheckOk(world, new, items', probes')
  BY DEF CheckOk, CheckTyped, Record, Fields, Idle
<1>2. Step(p, new) /\ UNCHANGED <<world, cache>> /\ items' = items /\ probes' = probes
  BY DEF Start
<1> HIDE DEF new
<1> QED
  BY <1>1, <1>2, NothingStored

LEMMA AbortKeeps ==
    ASSUME ForgeInv, NEW p \in Processes, Abort(p)
    PROVE  ForgeInv'
<1>1. CheckOk(world, Idle, items', probes')
  BY DEF CheckOk, CheckTyped, Record, Fields, Idle
<1>2. Step(p, Idle) /\ UNCHANGED <<world, cache>> /\ items' = items /\ probes' = probes
      /\ proc[p].pc # "idle"
  BY DEF Abort
<1> QED
  BY <1>1, <1>2, Under, NothingStored

LEMMA LookupKeeps ==
    ASSUME ForgeInv, NEW p \in Processes, Lookup(p)
    PROVE  ForgeInv'
<1> DEFINE r == proc[p]
<1>1. /\ r.pc = "lookup" /\ UNCHANGED <<world, cache>> /\ items' = items /\ probes' = probes
  BY DEF Lookup
<1>2. /\ CheckOk(world, r, items, probes) /\ Record(r)
      /\ r.fun \in Funs /\ r.opt \in {"default", "other"}
  BY <1>1, Under
<1>3. CASE UseCache(r.opt) /\ Hit(r.fun)
  <2> DEFINE new == [r EXCEPT !.pc = "done", !.cert = cache[r.fun], !.cached = TRUE]
  <2>1. Step(p, new)
    BY <1>3 DEF Lookup
  <2>2. EntryOk(world, r.fun, cache[r.fun], items, probes) /\ cache[r.fun] # None
    BY <1>2, <1>3 DEF ForgeInv, Hit
  <2>3. CheckTyped(new)
    BY <1>1, <1>2 DEF CheckOk, CheckTyped, Record, Fields
  <2>4. /\ new.fun = r.fun /\ new.cert = cache[r.fun] /\ new.pc = "done"
    BY <1>2 DEF Record, Fields
  <2>5. Judged(world, new, items, probes) /\ new.cert.lowered = FALSE
    BY <2>2, <2>4 DEF Judged, EntryOk
  <2>6. CheckOk(world, new, items', probes')
    BY <1>1, <2>3, <2>4, <2>5 DEF CheckOk
  <2> HIDE DEF new
  <2> QED
    BY <1>1, <1>2, <2>1, <2>6, NothingStored
<1>4. CASE ~(UseCache(r.opt) /\ Hit(r.fun))
  <2> DEFINE new == [r EXCEPT !.pc = "judge"]
  <2>1. Step(p, new)
    BY <1>4 DEF Lookup
  <2>2. CheckTyped(new) /\ new.pc = "judge"
    BY <1>1, <1>2 DEF CheckOk, CheckTyped, Record, Fields
  <2>3. CheckOk(world, new, items', probes')
    BY <2>2 DEF CheckOk
  <2> HIDE DEF new
  <2> QED
    BY <1>1, <1>2, <2>1, <2>3, NothingStored
<1> QED
  BY <1>3, <1>4

(* Only a proved function is given an L3 certificate by the ladder. *)
LEMMA LadderProves ==
    ASSUME NEW v \in {"proved", "refuted", "timeout", "unknown"}
    PROVE  /\ L3Cert \in Ladder(v) <=> v = "proved"
           /\ v = "proved" => Ladder(v) = {L3Cert}
BY CertFields DEF Ladder, Undecided, AfterTimeout, Assembled

LEMMA JudgeKeeps ==
    ASSUME ForgeInv, NEW p \in Processes, Judge(p)
    PROVE  ForgeInv'
<1> DEFINE r == proc[p]
<1>1. r.pc = "judge" /\ UNCHANGED <<world, cache>> /\ items' = items /\ probes' = probes
  BY DEF Judge
<1>2. /\ CheckOk(world, r, items, probes) /\ Record(r)
      /\ r.fun \in Funs /\ r.opt \in {"default", "other"}
  BY <1>1, Under
<1>3. PICK v \in Vacuity(r) \cup Contracted(r) :
          Step(p, IF v = L3Cert
                  THEN [r EXCEPT !.pc = "score", !.cert = v,
                                 !.todo = Mutations[r.fun[1]] \X {r.fun[2]}]
                  ELSE [r EXCEPT !.pc = "store", !.cert = v])
  BY DEF Judge
<1>4. Says(world, r.fun) = verus[r.fun] /\ (IsVacuous(world, r.fun) <=> r.fun[2] \in vacuous)
  BY DEF Says, IsVacuous, world
<1>5. Says(world, r.fun) \in {"proved", "refuted", "timeout", "unknown"}
  BY <1>2 DEF ForgeInv, WorldOK, Says
(* At the default budget: a vacuous contract is rejected, and nothing else. *)
<1>6. r.opt = "default" =>
         \/ v = Rejected("Vacuous") /\ IsVacuous(world, r.fun)
         \/ v \in Ladder(Says(world, r.fun)) /\ ~IsVacuous(world, r.fun)
  BY <1>3, <1>4 DEF Vacuity, Contracted, Answers
<1> HIDE DEF r
<1>7. CASE v = L3Cert
  <2> DEFINE new == [r EXCEPT !.pc = "score", !.cert = v, !.todo = MutantsOf(r.fun)]
  <2>1. Step(p, new)
    BY <1>3, <1>7 DEF MutantsOf
  <2>2. /\ CheckTyped(new) /\ new.pc = "score" /\ new.cert = L3Cert /\ new.fun = r.fun
        /\ new.opt = r.opt /\ new.todo = MutantsOf(r.fun) /\ new.scored = 0 /\ new.killed = 0
    BY <1>1, <1>2, <1>7, Projections DEF CheckOk, CheckTyped, Record, Fields
  <2>3. ASSUME r.opt = "default" PROVE Scoring(world, new, items, probes)
    <3>1. Says(world, r.fun) = "proved" /\ ~IsVacuous(world, r.fun)
      BY <1>5, <1>6, <1>7, <2>3, LadderProves, CertFields
    <3>2. ScoredOf(world, r.fun, MutantsOf(r.fun)) = {}
      BY DEF ScoredOf, CountedBy
    <3>3. KilledOf(world, r.fun, MutantsOf(r.fun)) = {} /\ Cardinality({}) = 0
      BY <3>2, FS_EmptySet DEF KilledOf
    <3> QED
      BY <2>2, <3>1, <3>2, <3>3 DEF Scoring
  <2> HIDE DEF new
  <2>4. CheckOk(world, new, items', probes')
    BY <1>1, <2>2, <2>3 DEF CheckOk
  <2> QED
    BY <1>1, <1>2, <2>1, <2>4, NothingStored
<1>8. CASE v # L3Cert
  <2> DEFINE new == [r EXCEPT !.pc = "store", !.cert = v]
  <2>1. Step(p, new)
    BY <1>3, <1>8
  <2>2. /\ CheckTyped(new) /\ new.pc = "store" /\ new.cert = v /\ new.fun = r.fun
        /\ new.opt = r.opt
    BY <1>1, <1>2 DEF CheckOk, CheckTyped, Record, Fields
  <2>3. ASSUME r.opt = "default" PROVE Judged(world, new, items, probes)
    <3>1. CASE v = Rejected("Vacuous") /\ IsVacuous(world, r.fun)
      BY <2>2, <3>1 DEF Judged, VerdictOk, FreshBy
    <3>2. CASE v \in Ladder(Says(world, r.fun)) /\ ~IsVacuous(world, r.fun)
      <4>1. Says(world, r.fun) # "proved"
        BY <1>5, <1>8, <3>2, LadderProves
      <4> QED
        BY <2>2, <3>2, <4>1 DEF Judged, VerdictOk, FreshBy
    <3> QED
      BY <1>6, <2>3, <3>1, <3>2
  <2> HIDE DEF new
  <2>4. CheckOk(world, new, items', probes')
    BY <1>1, <2>2, <2>3 DEF CheckOk
  <2> QED
    BY <1>1, <1>2, <2>1, <2>4, NothingStored
<1> QED
  BY <1>7, <1>8

(* Verify, at the default budget: what is told of a source that is no item is
   what Verus says of it; what may be stored is the answer of Verus. *)
LEMMA VerifyTells ==
    ASSUME ForgeInv, NEW r, NEW m \in Funs, NEW proved \in BOOLEAN, Verify(r, m, proved),
           UNCHANGED <<world, items>>
    PROVE  /\ probes \subseteq probes'
           /\ r.opt = "default" /\ m \notin items => (proved <=> Says(world, m) = "proved")
           /\ \E entry : Store(m, entry) /\ EntryOk(world, m, entry, items', probes')
<1>1. Says(world, m) = verus[m] /\ Says(world, m) \in {"proved", "refuted", "timeout", "unknown"}
  BY DEF ForgeInv, WorldOK, Says, world
<1>2. EntryOk(world, m, cache[m], items, probes)
  BY DEF ForgeInv
<1>3. CASE UseCache(r.opt) /\ Hit(m)
  <2>1. (proved <=> Survives(cache[m])) /\ cache' = cache /\ probes' = probes
    BY <1>3 DEF Verify
  <2>2. m \notin items => cache[m] = Assembled(Says(world, m))
    BY <1>2, <1>3 DEF EntryOk, Hit
  <2>3. m \notin items => (proved <=> Says(world, m) = "proved")
    BY <1>1, <2>1, <2>2, AssembledSurvives
  <2>4. Store(m, None) /\ EntryOk(world, m, None, items', probes')
    BY <2>1 DEF Store, EntryOk
  <2> QED
    BY <2>1, <2>3, <2>4
<1>4. CASE ~(UseCache(r.opt) /\ Hit(m))
  <2>1. PICK v \in Answers(m, r.opt) :
          /\ proved = (v = "proved")
          /\ IF UseCache(r.opt)
             THEN Store(m, Assembled(v)) /\ probes' = probes \cup {m}
             ELSE UNCHANGED <<cache, probes>>
    BY <1>4 DEF Verify
  <2>2. r.opt = "default" => v = verus[m]
    BY <2>1 DEF Answers
  <2>3. CASE UseCache(r.opt)
    <3>1. v = verus[m] /\ Store(m, Assembled(v)) /\ probes' = probes \cup {m}
      BY <2>1, <2>2, <2>3 DEF UseCache
    <3>2. Assembled(v).lowered = FALSE
      BY CertFields DEF Assembled
    <3>3. EntryOk(world, m, Assembled(v), items', probes')
      BY <1>1, <3>1, <3>2 DEF EntryOk, VerdictOk, ApartIn
    <3> QED
      BY <1>1, <2>1, <2>2, <3>1, <3>3
  <2>4. CASE ~UseCache(r.opt)
    <3>1. cache' = cache /\ probes' = probes /\ r.opt # "default"
      BY <2>1, <2>4 DEF UseCache
    <3>2. Store(m, None) /\ EntryOk(world, m, None, items', probes')
      BY <3>1 DEF Store, EntryOk
    <3> QED
      BY <3>1, <3>2
  <2> QED
    BY <2>3, <2>4
<1> QED
  BY <1>3, <1>4

(* One mutant fewer to do: the score of those that were tried. *)
LEMMA OneMoreScored ==
    ASSUME NEW w, NEW x \in Funs, NEW todo, todo \subseteq MutantsOf(x), NEW m \in todo
    PROVE  LET s == Cardinality(ScoredOf(w, x, todo))
               k == Cardinality(KilledOf(w, x, todo))
           IN  /\ s \in Nat /\ k \in Nat
               /\ Cardinality(ScoredOf(w, x, todo \ {m})) =
                     IF ProvesSame(w) /\ Says(w, m) = "proved" THEN s ELSE s + 1
               /\ Cardinality(KilledOf(w, x, todo \ {m})) =
                     IF Says(w, m) = "proved" THEN k ELSE k + 1
<1> DEFINE S == ScoredOf(w, x, todo)
           K == KilledOf(w, x, todo)
           T == ScoredOf(w, x, todo \ {m})
           L == KilledOf(w, x, todo \ {m})
<1>1. S \subseteq MutantsOf(x) /\ K \subseteq S /\ m \notin S /\ m \notin K
  BY DEF ScoredOf, CountedBy, KilledOf
<1>2. IsFiniteSet(S) /\ IsFiniteSet(K)
  BY <1>1, Projections, FS_Subset
<1>3. Cardinality(S) \in Nat /\ Cardinality(K) \in Nat
  BY <1>2, FS_CardinalityType
<1>4. /\ IsFiniteSet(S \cup {m}) /\ Cardinality(S \cup {m}) = Cardinality(S) + 1
      /\ IsFiniteSet(K \cup {m}) /\ Cardinality(K \cup {m}) = Cardinality(K) + 1
  BY <1>1, <1>2, FS_AddElement
<1>5. T = IF ProvesSame(w) /\ Says(w, m) = "proved" THEN S ELSE S \cup {m}
  BY DEF ScoredOf, CountedBy, ProvedBy
<1>6. L = IF Says(w, m) = "proved" THEN K ELSE K \cup {m}
  BY <1>5 DEF KilledOf, ProvedBy
<1> HIDE DEF S, K, T, L
<1>7. /\ Cardinality(T) = IF ProvesSame(w) /\ Says(w, m) = "proved"
                          THEN Cardinality(S) ELSE Cardinality(S) + 1
      /\ Cardinality(L) = IF Says(w, m) = "proved" THEN Cardinality(K) ELSE Cardinality(K) + 1
  BY <1>4, <1>5, <1>6
<1> QED
  BY <1>3, <1>7 DEF S, K, T, L

LEMMA ScoreKeeps ==
    ASSUME ForgeInv, NEW p \in Processes, Score(p)
    PROVE  ForgeInv'
<1> DEFINE r == proc[p]
<1>1. r.pc = "score" /\ UNCHANGED world /\ items' = items
  BY DEF Score
<1>2. /\ CheckOk(world, r, items, probes) /\ Record(r)
      /\ r.fun \in Funs /\ r.opt \in {"default", "other"}
  BY <1>1, Under
<1>3. PICK m \in r.todo : \E proved \in BOOLEAN, same \in ProvesEqual(r.opt) :
          /\ Verify(r, m, proved)
          /\ LET rest == [r EXCEPT !.todo = r.todo \ {m}]
             IN Step(p, IF proved /\ same THEN rest
                        ELSE IF proved
                        THEN [rest EXCEPT !.scored = r.scored + 1,
                                          !.survivor = IF r.survivor = None THEN m[1] ELSE r.survivor]
                        ELSE [rest EXCEPT !.scored = r.scored + 1, !.killed = r.killed + 1])
  BY DEF Score
<1>4. PICK proved \in BOOLEAN : \E same \in ProvesEqual(r.opt) :
          /\ Verify(r, m, proved)
          /\ LET rest == [r EXCEPT !.todo = r.todo \ {m}]
             IN Step(p, IF proved /\ same THEN rest
                        ELSE IF proved
                        THEN [rest EXCEPT !.scored = r.scored + 1,
                                          !.survivor = IF r.survivor = None THEN m[1] ELSE r.survivor]
                        ELSE [rest EXCEPT !.scored = r.scored + 1, !.killed = r.killed + 1])
  BY <1>3
<1>5. PICK same \in ProvesEqual(r.opt) :
          /\ Verify(r, m, proved)
          /\ LET rest == [r EXCEPT !.todo = r.todo \ {m}]
             IN Step(p, IF proved /\ same THEN rest
                        ELSE IF proved
                        THEN [rest EXCEPT !.scored = r.scored + 1,
                                          !.survivor = IF r.survivor = None THEN m[1] ELSE r.survivor]
                        ELSE [rest EXCEPT !.scored = r.scored + 1, !.killed = r.killed + 1])
  BY <1>4
<1>6. r.opt = "default" => (same <=> ProvesSame(world))
  BY <1>5 DEF ProvesEqual, ProvesSame, world
<1> HIDE DEF r
<1> DEFINE new == [r EXCEPT !.todo = r.todo \ {m},
                            !.scored = IF proved /\ same THEN r.scored ELSE r.scored + 1,
                            !.killed = IF proved THEN r.killed ELSE r.killed + 1,
                            !.survivor = IF proved /\ ~same /\ r.survivor = None
                                         THEN m[1] ELSE r.survivor]
<1>7. m \in Funs /\ m[1] \in Bodies
  BY <1>2, Projections DEF CheckOk, CheckTyped
<1>8. Step(p, new)
  BY <1>2, <1>5 DEF Record, Fields
<1>9. /\ CheckTyped(new) /\ new.pc = "score" /\ new.cert = r.cert /\ new.fun = r.fun
      /\ new.opt = r.opt /\ new.todo = r.todo \ {m}
      /\ new.scored = (IF proved /\ same THEN r.scored ELSE r.scored + 1)
      /\ new.killed = (IF proved THEN r.killed ELSE r.killed + 1)
  BY <1>1, <1>2, <1>7 DEF CheckOk, CheckTyped, Record, Fields
<1> HIDE DEF new
<1>10. /\ probes \subseteq probes'
       /\ r.opt = "default" /\ m \notin items => (proved <=> Says(world, m) = "proved")
       /\ \E entry : Store(m, entry) /\ EntryOk(world, m, entry, items', probes')
  BY <1>1, <1>5, <1>7, VerifyTells
<1>11. ASSUME r.opt = "default" PROVE Scoring(world, new, items', probes')
  <2>1. Scoring(world, r, items, probes)
    BY <1>1, <1>2, <1>11 DEF CheckOk
  <2>2. ASSUME ApartIn(r.fun, items', probes')
        PROVE  /\ new.scored = Cardinality(ScoredOf(world, r.fun, r.todo \ {m}))
               /\ new.killed = Cardinality(KilledOf(world, r.fun, r.todo \ {m}))
    <3>1. ApartIn(r.fun, items, probes) /\ m \notin items
      BY <1>1, <1>10, <2>1, <2>2 DEF ApartIn, Scoring
    <3>2. (proved <=> Says(world, m) = "proved") /\ (same <=> ProvesSame(world))
      BY <1>6, <1>10, <1>11, <3>1
    <3>3. /\ r.scored = Cardinality(ScoredOf(world, r.fun, r.todo))
          /\ r.killed = Cardinality(KilledOf(world, r.fun, r.todo))
          /\ r.todo \subseteq MutantsOf(r.fun)
      BY <2>1, <3>1 DEF Scoring
    <3>4. /\ Cardinality(ScoredOf(world, r.fun, r.todo \ {m})) =
                IF ProvesSame(world) /\ Says(world, m) = "proved" THEN r.scored ELSE r.scored + 1
          /\ Cardinality(KilledOf(world, r.fun, r.todo \ {m})) =
                IF Says(world, m) = "proved" THEN r.killed ELSE r.killed + 1
      BY <1>2, <3>3, OneMoreScored
    <3> QED
      BY <1>9, <3>2, <3>4
  <2> QED
    BY <1>9, <2>1, <2>2 DEF Scoring
<1>12. CheckOk(world, new, items', probes')
  BY <1>9, <1>11 DEF CheckOk
<1>13. PICK entry : Store(m, entry) /\ EntryOk(world, m, entry, items', probes')
  BY <1>10
<1> QED
  BY <1>1, <1>7, <1>8, <1>10, <1>12, <1>13, OneProcess

LEMMA GateKeeps ==
    ASSUME ForgeInv, NEW p \in Processes, Gate(p)
    PROVE  ForgeInv'
<1> DEFINE r == proc[p]
<1>1. /\ r.pc = "score" /\ r.todo = {}
      /\ UNCHANGED <<world, cache>> /\ items' = items /\ probes' = probes
  BY DEF Gate
<1>2. /\ CheckOk(world, r, items, probes) /\ Record(r)
      /\ r.fun \in Funs /\ r.opt \in {"default", "other"}
  BY <1>1, Under
<1>3. PICK met \in (IF r.opt = "default" THEN {MeetsFloor(r.killed, r.scored)} ELSE BOOLEAN) :
          Step(p, IF met
                  THEN [r EXCEPT !.pc = "probe", !.todo = {r.fun[1]} \X Stronger[r.fun[2]]]
                  ELSE [r EXCEPT !.pc = "store", !.cert = Rejected("WeakContract")])
  BY DEF Gate
<1> HIDE DEF r
(* The score is complete. *)
<1>4. ASSUME r.opt = "default", ApartIn(r.fun, items, probes)
      PROVE  /\ met => L3Cert \in FreshBy(world, r.fun)
             /\ ~met => Rejected("WeakContract") \in FreshBy(world, r.fun)
  <2>1. Scoring(world, r, items, probes)
    BY <1>1, <1>2, <1>4 DEF CheckOk
  <2>2. ScoredOf(world, r.fun, {}) = CountedBy(world, r.fun)
    BY DEF ScoredOf
  <2>3. met <=> MeetsFloor(Cardinality(CountedBy(world, r.fun)
                                          \ ProvedBy(world, CountedBy(world, r.fun))),
                           Cardinality(CountedBy(world, r.fun)))
    BY <1>1, <1>3, <1>4, <2>1, <2>2 DEF Scoring, KilledOf
  <2> QED
    BY <2>1, <2>3 DEF Scoring, FreshBy
<1>5. CASE met
  <2> DEFINE new == [r EXCEPT !.pc = "probe", !.todo = {r.fun[1]} \X Stronger[r.fun[2]]]
  <2>1. Step(p, new)
    BY <1>3, <1>5
  <2>2. CheckTyped(new) /\ new.pc = "probe" /\ new.cert = r.cert /\ new.fun = r.fun /\ new.opt = r.opt
    BY <1>1, <1>2, Projections DEF CheckOk, CheckTyped, Record, Fields
  <2>3. ASSUME r.opt = "default" PROVE new.cert = L3Cert /\ Judged(world, new, items, probes)
    <3>1. r.cert = L3Cert /\ Says(world, r.fun) = "proved"
      BY <1>1, <1>2, <2>3 DEF CheckOk, Scoring
    <3>2. VerdictOk(world, r.fun, L3Cert)
      BY <3>1, LadderProves DEF VerdictOk
    <3> QED
      BY <1>4, <1>5, <2>2, <2>3, <3>1, <3>2 DEF Judged
  <2> HIDE DEF new
  <2>4. CheckOk(world, new, items', probes')
    BY <1>1, <2>2, <2>3 DEF CheckOk
  <2> QED
    BY <1>1, <1>2, <2>1, <2>4, NothingStored
<1>6. CASE ~met
  <2> DEFINE new == [r EXCEPT !.pc = "store", !.cert = Rejected("WeakContract")]
  <2>1. Step(p, new)
    BY <1>3, <1>6
  <2>2. /\ CheckTyped(new) /\ new.pc = "store" /\ new.cert = Rejected("WeakContract")
        /\ new.fun = r.fun /\ new.opt = r.opt
    BY <1>1, <1>2 DEF CheckOk, CheckTyped, Record, Fields
  <2>3. ASSUME r.opt = "default" PROVE Judged(world, new, items, probes)
    BY <1>4, <1>6, <2>2, <2>3 DEF Judged, VerdictOk
  <2> HIDE DEF new
  <2>4. CheckOk(world, new, items', probes')
    BY <1>1, <2>2, <2>3 DEF CheckOk
  <2> QED
    BY <1>1, <1>2, <2>1, <2>4, NothingStored
<1> QED
  BY <1>5, <1>6

(* What is already judged stays so while the rest of a check goes on. *)
LEMMA JudgedStays ==
    ASSUME NEW w, NEW r, NEW q, NEW is, NEW ps, NEW it, NEW pt, is \subseteq it, ps \subseteq pt,
           Judged(w, r, is, ps), q.fun = r.fun, q.cert = r.cert
    PROVE  Judged(w, q, it, pt)
BY DEF Judged, ApartIn

LEMMA ProbeKeeps ==
    ASSUME ForgeInv, NEW p \in Processes, Probe(p)
    PROVE  ForgeInv'
<1> DEFINE r == proc[p]
<1>1. r.pc = "probe" /\ UNCHANGED world /\ items' = items
  BY DEF Probe
<1>2. /\ CheckOk(world, r, items, probes) /\ Record(r)
      /\ r.fun \in Funs /\ r.opt \in {"default", "other"}
  BY <1>1, Under
<1>3. PICK s \in r.todo : \E proved \in BOOLEAN :
          /\ Verify(r, s, proved)
          /\ Step(p, [r EXCEPT !.todo = (r.todo \ {s}) \cup
                          IF proved /\ s[1] = r.fun[1] /\ r.survivor # None
                          THEN {<<r.survivor, s[2]>>} ELSE {}])
  BY DEF Probe
<1>4. PICK proved \in BOOLEAN :
          /\ Verify(r, s, proved)
          /\ Step(p, [r EXCEPT !.todo = (r.todo \ {s}) \cup
                          IF proved /\ s[1] = r.fun[1] /\ r.survivor # None
                          THEN {<<r.survivor, s[2]>>} ELSE {}])
  BY <1>3
<1> HIDE DEF r
<1> DEFINE todo == (r.todo \ {s}) \cup IF proved /\ s[1] = r.fun[1] /\ r.survivor # None
                                       THEN {<<r.survivor, s[2]>>} ELSE {}
<1> DEFINE new == [r EXCEPT !.todo = todo]
<1>5. s \in Funs /\ todo \subseteq Funs
  <2>1. s \in Funs /\ r.todo \subseteq Funs /\ (r.survivor = None \/ r.survivor \in Bodies)
    BY <1>2 DEF CheckOk, CheckTyped
  <2>2. s[2] \in Contracts
    BY <2>1, Projections
  <2>3. r.survivor # None => <<r.survivor, s[2]>> \in Funs
    BY <2>1, <2>2 DEF Funs
  <2> QED
    BY <2>1, <2>3
<1> HIDE DEF todo
<1>6. Step(p, new)
  BY <1>4 DEF todo
<1>7. CheckTyped(new) /\ new.pc = "probe" /\ new.cert = r.cert /\ new.fun = r.fun /\ new.opt = r.opt
  BY <1>1, <1>2, <1>5 DEF CheckOk, CheckTyped, Record, Fields
<1> HIDE DEF new
<1>8. /\ probes \subseteq probes'
      /\ \E entry : Store(s, entry) /\ EntryOk(world, s, entry, items', probes')
  BY <1>1, <1>4, <1>5, VerifyTells
<1>9. ASSUME r.opt = "default" PROVE new.cert = L3Cert /\ Judged(world, new, items', probes')
  <2>1. r.cert = L3Cert /\ Judged(world, r, items, probes)
    BY <1>1, <1>2, <1>9 DEF CheckOk
  <2> QED
    BY <1>1, <1>7, <1>8, <2>1, JudgedStays
<1>10. CheckOk(world, new, items', probes')
  BY <1>7, <1>9 DEF CheckOk
<1>11. PICK entry : Store(s, entry) /\ EntryOk(world, s, entry, items', probes')
  BY <1>8
<1> QED
  BY <1>1, <1>5, <1>6, <1>8, <1>10, <1>11, OneProcess

LEMMA ProbesDoneKeeps ==
    ASSUME ForgeInv, NEW p \in Processes, ProbesDone(p)
    PROVE  ForgeInv'
<1> DEFINE r == proc[p]
<1> DEFINE new == [r EXCEPT !.pc = "store"]
<1>1. /\ r.pc = "probe" /\ Step(p, new)
      /\ UNCHANGED <<world, cache>> /\ items' = items /\ probes' = probes
  BY DEF ProbesDone
<1>2. /\ CheckOk(world, r, items, probes) /\ Record(r)
      /\ r.fun \in Funs /\ r.opt \in {"default", "other"}
  BY <1>1, Under
<1>3. CheckTyped(new) /\ new.pc = "store" /\ new.cert = r.cert /\ new.fun = r.fun /\ new.opt = r.opt
  BY <1>1, <1>2 DEF CheckOk, CheckTyped, Record, Fields
<1>4. ASSUME r.opt = "default" PROVE Judged(world, new, items', probes')
  BY <1>1, <1>2, <1>3, <1>4 DEF CheckOk, Judged
<1> HIDE DEF new
<1>5. CheckOk(world, new, items', probes')
  BY <1>3, <1>4 DEF CheckOk
<1> QED
  BY <1>1, <1>2, <1>5, NothingStored

LEMMA FinishKeeps ==
    ASSUME ForgeInv, NEW p \in Processes, Finish(p)
    PROVE  ForgeInv'
<1> DEFINE r == proc[p]
<1> DEFINE new == [r EXCEPT !.pc = "done"]
<1>1. r.pc = "store" /\ Step(p, new) /\ UNCHANGED world /\ probes' = probes
  BY DEF Finish
<1>2. /\ CheckOk(world, r, items, probes) /\ Record(r)
      /\ r.fun \in Funs /\ r.opt \in {"default", "other"}
  BY <1>1, Under
<1>3. /\ CheckTyped(new) /\ new.pc = "done" /\ new.cert = r.cert /\ new.fun = r.fun
      /\ new.opt = r.opt /\ new.cached = FALSE
  BY <1>1, <1>2 DEF CheckOk, CheckTyped, Record, Fields
<1> HIDE DEF new
<1>4. items \subseteq items'
  BY DEF Finish
<1>5. CheckOk(world, new, items', probes')
  BY <1>1, <1>2, <1>3, <1>4, JudgedStays DEF CheckOk
<1>6. CASE UseCache(r.opt) /\ Settled(r.cert)
  <2>1. Store(r.fun, r.cert) /\ items' = items \cup {r.fun}
    BY <1>6 DEF Finish
  <2>2. Judged(world, r, items, probes)
    BY <1>1, <1>2, <1>6 DEF CheckOk, UseCache
  <2>3. r.cert.lowered = FALSE
    BY <1>6, <2>2, CertFields
       DEF Settled, Judged, VerdictOk, Ladder, AfterTimeout, Assembled
  <2>4. EntryOk(world, r.fun, r.cert, items', probes')
    BY <1>1, <2>1, <2>2, <2>3 DEF EntryOk, Judged, ApartIn
  <2> QED
    BY <1>1, <1>2, <1>4, <1>5, <2>1, <2>4, OneProcess
<1>7. CASE ~(UseCache(r.opt) /\ Settled(r.cert))
  <2>1. UNCHANGED cache
    BY <1>7 DEF Finish
  <2> QED
    BY <1>1, <1>2, <1>4, <1>5, <2>1, NothingStored
<1> QED
  BY <1>6, <1>7

LEMMA ForgeInductive == ForgeInv /\ [Next]_vars => ForgeInv'
<1> SUFFICES ASSUME ForgeInv, [Next]_vars PROVE ForgeInv'
  OBVIOUS
<1>1. CASE UNCHANGED vars
  <2>1. /\ world' = world /\ cache' = cache /\ proc' = proc /\ items' = items /\ probes' = probes
    BY <1>1 DEF vars
  <2> HIDE DEF world
  <2> QED
    BY <2>1 DEF ForgeInv
<1>2. CASE Next
  BY <1>2, StartKeeps, LookupKeeps, JudgeKeeps, ScoreKeeps, GateKeeps, ProbeKeeps, ProbesDoneKeeps,
     FinishKeeps, AbortKeeps DEF Next
<1> QED
  BY <1>1, <1>2

(* The invariant holds in every reachable state: every entry of the cache is
   what a check of its own function made, and the probes of a check count what
   it tried. *)
THEOREM ForgeInvariant == Spec => []ForgeInv
BY ForgeInitial, ForgeInductive, PTL DEF Spec

(* The operators of the properties are those of the invariant. *)
LEMMA SameFresh ==
    ASSUME NEW x
    PROVE  Fresh(x) = FreshBy(world, x) /\ (Apart(x) <=> ApartIn(x, items, probes))
<1>1. \A S : Proved(S) = ProvedBy(world, S)
  BY DEF Proved, ProvedBy, Says, world
<1>2. Counted(x) = CountedBy(world, x)
  BY <1>1 DEF Counted, CountedBy, ProvesSame, world
<1>3. Says(world, x) = verus[x] /\ (IsVacuous(world, x) <=> x[2] \in vacuous)
  BY DEF Says, IsVacuous, world
<1> QED
  BY <1>1, <1>2, <1>3 DEF Fresh, FreshBy, Apart, ApartIn

(* run_ladder, the gates and the cache: no history of checks certifies what
   Verus refutes, gives level 3 to what it did not prove, or degrades what it
   decided, whatever is in the cache. *)
THEOREM ForgeFalsity == Spec => []FalsityNeverCertifies
<1>1. ForgeInv => FalsityNeverCertifies
  <2> SUFFICES ASSUME ForgeInv, NEW p \in Processes, Delivered(p), Certifies(proc[p].cert)
               PROVE  /\ verus[proc[p].fun] # "refuted"
                      /\ proc[p].cert.level = 3 <=> verus[proc[p].fun] = "proved"
                      /\ proc[p].cert.lowered => verus[proc[p].fun] \in {"timeout", "unknown"}
    BY DEF FalsityNeverCertifies
  <2>1. /\ proc[p].fun \in Funs /\ VerdictOk(world, proc[p].fun, proc[p].cert)
    BY DEF ForgeInv, Delivered, CheckOk, CheckTyped, Judged
  <2>2. /\ Says(world, proc[p].fun) = verus[proc[p].fun]
        /\ verus[proc[p].fun] \in {"proved", "refuted", "timeout", "unknown"}
    BY <2>1 DEF ForgeInv, WorldOK, Says, world
  <2> QED
    BY <2>1, <2>2, CertFields
       DEF VerdictOk, Certifies, Ladder, Undecided, AfterTimeout, Assembled
<1> QED
  BY <1>1, ForgeInvariant, PTL

(* The cache: no check is served a degraded verdict, and a function that is
   apart from the mutants and candidates of the others, and whose mutants are
   nobody's functions, is given the verdict of a check with an empty cache. *)
THEOREM ForgeCacheHarmless == Spec => []CacheHarmless
<1>1. ForgeInv => DegradedNeverServed
  BY DEF ForgeInv, DegradedNeverServed, Delivered, CheckOk
<1>2. ForgeInv => CacheTransparentApart
  BY SameFresh DEF ForgeInv, CacheTransparentApart, Delivered, CheckOk, Judged
<1>3. ForgeInv => CacheHarmless
  BY <1>1, <1>2 DEF CacheHarmless
<1> QED
  BY <1>3, ForgeInvariant, PTL

(***************************************************************************)
(* The route of one function through the engines.                          *)
(***************************************************************************)

CertFormat == {"level", "reject", "located", "lowered", "attributed", "undischarged"}

(* A certificate of a proof is one of every clause that is not tagged; at L4 *)
(* it is one of the tagged clauses too.                                      *)
UntaggedHold(f) == \A i \in DOMAIN f.ens : ~Tagged(f.ens[i]) => f.ens[i].holds # "no"
TaggedHold(f) ==
    \A i \in DOMAIN f.ens : Tagged(f.ens[i]) => f.ens[i].holds # "no" /\ ~f.ens[i].wraps
CertOk(f, c) ==
    /\ DOMAIN c = CertFormat /\ c.level \in 0..4
    /\ c.reject = "" /\ c.level >= 3 => UntaggedHold(f)
    /\ c.reject = "" /\ c.level = 4 => TaggedHold(f)

(* What a gate leaves: a refusal or L1, which auto does not take to Lean. *)
Refusal(c) ==
    ~AutoShouldTryLean(c) /\ ~c.attributed /\ (c.reject # "" \/ c.level = 1)

(* What comes of it: the same, or a proof of all of the contract by an engine *)
(* that does not look at the certificate it replaces.                         *)
Replaced(f, c) ==
    /\ c.level = 4 /\ ~Boundary(f) /\ ~Slag(f) /\ ~Has(f, "tagged loop")
    /\ BvEnsTag(f) \/ EprWhole(f)
Earned(f, c) == c.reject # "" \/ c.level = 1 \/ Replaced(f, c)

LoopAware == engine \in {"auto", "bv"} /\ Has(fn, "tagged loop")

RouteInvariant ==
    /\ fn \in Functions /\ stage \in {"base", "engine", "bv", "epr", "done", "halted"}
    /\ stage # "base" => CertOk(fn, cert)
    /\ stage = "epr" => engine = "auto"
    /\ stage = "bv" => engine = "auto"
    /\ stage \in {"epr", "done"} /\ LoopAware => cert.level <= 3
    /\ engine = "auto" /\ Gated(fn) =>
          /\ stage \in {"engine", "bv"} => Refusal(cert)
          /\ stage \in {"epr", "done"} => Earned(fn, cert)

(* The records that stand for certificates. *)
LEMMA RejectLevel ==
    ASSUME NEW cause
    PROVE  /\ RejectCert(cause).level = 0 /\ RejectCert(cause).level \in 0..4
           /\ RejectCert(cause).level <= 3
<1>1. RejectCert(cause).level = 0
  BY Zenon DEF RejectCert, Certificate
<1> QED BY <1>1

LEMMA RejectIsOk ==
    ASSUME NEW f, NEW cause, cause # ""
    PROVE  /\ CertOk(f, RejectCert(cause)) /\ RejectCert(cause).level = 0 /\ RejectCert(cause).level <= 3
           /\ RejectCert(cause).reject = cause /\ ~RejectCert(cause).lowered
           /\ ~RejectCert(cause).attributed
<1>3. RejectCert(cause).reject = cause /\ RejectCert(cause).reject # ""
  BY Zenon DEF RejectCert, Certificate
<1>4. DOMAIN RejectCert(cause) = CertFormat
  BY DEF RejectCert, Certificate, CertFormat
<1>5. ~RejectCert(cause).lowered /\ ~RejectCert(cause).attributed
  BY Zenon DEF RejectCert, Certificate
<1> QED BY RejectLevel, <1>3, <1>4, <1>5, Zenon DEF CertOk

LEMMA LowIsOk ==
    ASSUME NEW f, NEW l \in {0, 1, 2}, NEW located, NEW lowered, NEW attributed
    PROVE  /\ CertOk(f, Certificate(l, "", located, lowered, attributed))
           /\ Certificate(l, "", located, lowered, attributed).level <= 3
BY DEF CertOk, Certificate, CertFormat

LEMMA L3IsOk ==
    ASSUME NEW f, NEW located, NEW lowered, NEW attributed, UntaggedHold(f)
    PROVE  /\ CertOk(f, Certificate(3, "", located, lowered, attributed))
           /\ Certificate(3, "", located, lowered, attributed).level <= 3
BY DEF CertOk, Certificate, CertFormat

LEMMA L4IsOk ==
    ASSUME NEW f, UntaggedHold(f), TaggedHold(f)
    PROVE  CertOk(f, L4Cert)
BY DEF CertOk, L4Cert, Certificate, CertFormat

LEMMA L1Fields ==
    LET c == Certificate(1, "", FALSE, FALSE, FALSE)
    IN  c.level = 1 /\ c.reject = "" /\ ~c.lowered /\ ~c.attributed
BY DEF Certificate

(* What a function's clauses are. *)
LEMMA ClauseFacts ==
    ASSUME NEW f \in Functions, NEW i \in DOMAIN f.ens
    PROVE  /\ f.ens[i] \in Clauses
           /\ f.ens[i].holds \in {"no", "body", "always"}
           /\ f.ens[i].wraps => f.ens[i].k = "nowrap"
<1>1. PICK n \in 1..MaxClauses : f.ens \in [1..n -> Clauses]
  BY DEF Functions
<1>2. f.ens[i] \in Clauses
  BY <1>1
<1> QED BY <1>2 DEF Clauses

LEMMA OneTrait ==
    ASSUME NEW f \in Functions, Has(f, "tagged loop")
    PROVE  ~Boundary(f) /\ ~Slag(f)
<1>1. f.traits = {"tagged loop"}
  BY DEF Functions, Has
<1> QED BY <1>1 DEF Boundary, Slag, Has

(* The base pass. *)
LEMMA TriageCause ==
    ASSUME NEW f
    PROVE  Triage(f) \in {"", "EnsIsTrivial", "EnsOmitsResult"}
BY DEF Triage

LEMMA TrustedOk ==
    ASSUME NEW f PROVE CertOk(f, TrustedL1(f)) /\ Refusal(TrustedL1(f))
<1>1. CASE Triage(f) = ""
  <2>1. TrustedL1(f) = Certificate(1, "", FALSE, FALSE, FALSE)
    BY <1>1 DEF TrustedL1
  <2>2. CertOk(f, TrustedL1(f))
    BY <2>1, LowIsOk, Zenon
  <2>3. Refusal(TrustedL1(f))
    BY <2>1, L1Fields, Zenon DEF Refusal, AutoShouldTryLean
  <2> QED BY <2>2, <2>3
<1>2. CASE Triage(f) # ""
  <2>1. TrustedL1(f) = RejectCert(Triage(f)) /\ Triage(f) # "VerusTimeout"
    BY <1>2, TriageCause DEF TrustedL1
  <2> QED BY <1>2, <2>1, RejectIsOk DEF Refusal, AutoShouldTryLean
<1> QED BY <1>1, <1>2

(* A rejection by a gate. *)
LEMMA RejectRefuses ==
    ASSUME NEW f, NEW cause, cause # "", cause # "VerusTimeout"
    PROVE  CertOk(f, RejectCert(cause)) /\ Refusal(RejectCert(cause))
BY RejectIsOk DEF Refusal, AutoShouldTryLean

LEMMA GateOk ==
    ASSUME NEW f, NEW c \in GateFn(f)
    PROVE  CertOk(f, c) /\ Refusal(c)
<1>1. \/ c = RejectCert("BoundaryTargetEmpty") \/ c = TrustedL1(f) \/ c = RejectCert("SlagField")
      \/ Triage(f) # "" /\ c = RejectCert(Triage(f))
  BY DEF GateFn
<1>2. Triage(f) # "VerusTimeout"
  BY TriageCause
<1> QED BY <1>1, <1>2, TrustedOk, RejectRefuses

LEMMA CovenantOk ==
    ASSUME NEW f, NEW c \in Covenant(f)
    PROVE  CertOk(f, c) /\ Refusal(c)
<1>1. c = RejectCert("CovenantRefused") \/ c = RejectCert("CovenantRefuted")
  BY DEF Covenant
<1> QED BY <1>1, RejectRefuses

LEMMA VerusOk ==
    ASSUME NEW f, NEW c \in VerusProof(f)
    PROVE  CertOk(f, c) /\ c.level <= 3
<1>1. CASE \A i \in DOMAIN f.ens : f.ens[i].holds # "no" \/ Tagged(f.ens[i])
  <2>1. UntaggedHold(f)
    BY <1>1 DEF UntaggedHold
  <2>2. \/ c = RejectCert("WeakContract") \/ c = Certificate(3, "", FALSE, FALSE, FALSE)
        \/ c = Certificate(0, "", TRUE, FALSE, FALSE)
        \/ \E l \in {1, 2} : c = Certificate(l, "", FALSE, TRUE, FALSE)
    BY DEF VerusProof
  <2>3. CASE c = RejectCert("WeakContract")
    BY <2>3, RejectIsOk, RejectLevel
  <2>4. CASE c = Certificate(3, "", FALSE, FALSE, FALSE)
    BY <2>1, <2>4, L3IsOk, Zenon
  <2>5. CASE c = Certificate(0, "", TRUE, FALSE, FALSE)
    BY <2>5, LowIsOk, Zenon
  <2>6. CASE \E l \in {1, 2} : c = Certificate(l, "", FALSE, TRUE, FALSE)
    BY <2>6, LowIsOk, Zenon
  <2> QED BY <2>2, <2>3, <2>4, <2>5, <2>6
<1>2. CASE ~\A i \in DOMAIN f.ens : f.ens[i].holds # "no" \/ Tagged(f.ens[i])
  <2>1. \/ c = Certificate(0, "", TRUE, FALSE, FALSE)
        \/ \E l \in {1, 2} : c = Certificate(l, "", FALSE, TRUE, FALSE)
    BY <1>2 DEF VerusProof
  <2> QED BY <2>1, LowIsOk, Zenon
<1> QED BY <1>1, <1>2

LEMMA BaseOk ==
    ASSUME NEW f, NEW c \in BaseCerts(f)
    PROVE  CertOk(f, c) /\ (Gated(f) => Refusal(c))
<1>1. CASE Has(f, "no measure")
  <2>1. c = RejectCert("MutualRecursionMissingDecreases")
    BY <1>1 DEF BaseCerts
  <2> QED BY <2>1, RejectRefuses
<1>2. CASE ~Has(f, "no measure") /\ Has(f, "open hole")
  <2>1. c = RejectCert("OpenHole")
    BY <1>2 DEF BaseCerts
  <2> QED BY <2>1, RejectRefuses
<1>3. CASE ~Has(f, "no measure") /\ ~Has(f, "open hole") /\ GateFn(f) # {}
  <2>1. c \in GateFn(f)
    BY <1>3 DEF BaseCerts
  <2> QED BY <2>1, GateOk
<1>4. CASE ~Has(f, "no measure") /\ ~Has(f, "open hole") /\ GateFn(f) = {} /\ Covenant(f) # {}
  <2>1. c \in Covenant(f)
    BY <1>4 DEF BaseCerts
  <2> QED BY <2>1, CovenantOk
<1>5. CASE ~Has(f, "no measure") /\ ~Has(f, "open hole") /\ GateFn(f) = {} /\ Covenant(f) = {}
  <2>1. c \in SolverVacuity(f) \cup VerusProof(f) /\ ~Gated(f)
    BY <1>5 DEF BaseCerts, Gated
  <2>2. ASSUME c \in SolverVacuity(f) PROVE CertOk(f, c)
    <3>1. c = RejectCert("VacuousPrecondition") \/ c = RejectCert("SemanticTautology")
      BY <2>2 DEF SolverVacuity
    <3> QED BY <3>1, RejectIsOk
  <2> QED BY <2>1, <2>2, VerusOk
<1> QED BY <1>1, <1>2, <1>3, <1>4, <1>5

(***************************************************************************)
(* The engines.  "" among the answers about the clauses: each was proved.  *)
(***************************************************************************)
LEMMA LenIs ==
    ASSUME NEW n \in Nat, NEW S, NEW s \in [1..n -> S] PROVE Len(s) = n
OBVIOUS

LEMMA ClauseNumbers ==
    ASSUME NEW f \in Functions PROVE \E n \in Nat : DOMAIN f.ens = 1..n
<1>1. PICK n \in 1..MaxClauses : f.ens \in [1..n -> Clauses]
  BY DEF Functions
<1>2. n \in Nat
  BY RouteAssumption
<1> QED BY <1>1, <1>2

LEMMA AllAnswered ==
    ASSUME NEW f \in Functions, NEW S, NEW asks \in [DOMAIN f.ens -> S], "" \in Answered(asks)
    PROVE  \A i \in DOMAIN f.ens : "" \in asks[i]
<1>1. PICK n \in Nat : DOMAIN f.ens = 1..n
  BY ClauseNumbers
<1>2. Len(asks) = n
  BY <1>1, LenIs, Zenon
<1>3. \A j \in 1..Len(asks) : "" \in asks[j]
  BY DEF Answered
<1> QED BY <1>1, <1>2, <1>3

LEMMA BvAsked ==
    ASSUME NEW f \in Functions, NEW i \in DOMAIN f.ens, "" \in BvAsk(f, f.ens[i])
    PROVE  f.ens[i].holds # "no" /\ ~(Tagged(f.ens[i]) /\ f.ens[i].wraps)
<1> DEFINE c == f.ens[i]
<1>1. c.holds \in {"no", "body", "always"} /\ (c.wraps => c.k = "nowrap")
  BY ClauseFacts
<1>2. "" \in BvClause(f, c) /\ "" \in NowrapClause(c)
  BY DEF BvAsk
<1> HIDE DEF c
<1>3. ~c.wraps
  <2>1. PICK a \in NowrapAnswers(c) : a \notin {"overflow", "undecided"}
    BY <1>2 DEF NowrapClause, NowrapOverflow, NowrapUndecided, NowrapAnswers
  <2> QED BY <1>1, <2>1 DEF NowrapAnswers
<1>4. c.holds # "no"
  <2>1. CASE Tagged(c)
    BY <1>2, <2>1 DEF BvClause, BvAnswers, BvCounterexample, BvTimeout, BvSkip
  <2>2. CASE ~Tagged(c) /\ c.k = "epr"
    BY <1>2, <2>2 DEF BvClause, EprAnswers, BvCounterexample, EprTimeout, EprFailure
  <2>3. CASE ~Tagged(c) /\ c.k # "epr"
    <3>1. Relaxable(f, c)
      BY <1>2, <2>3 DEF BvClause
    <3> QED BY <1>2, <2>3, <3>1 DEF BvClause, NlsatAnswers
  <2> QED BY <2>1, <2>2, <2>3
<1> QED BY <1>3, <1>4 DEF c
LEMMA BvFnOk ==
    ASSUME NEW f \in Functions, NEW c \in BvFn(f) PROVE CertOk(f, c)
<1> DEFINE asks == [i \in DOMAIN f.ens |-> BvAsk(f, f.ens[i])]
<1>1. PICK a \in Answered(asks) :
           c = IF a # "" THEN RejectCert(a)
               ELSE IF BvScored(f) /\ Has(f, "weak") THEN RejectCert("WeakContract") ELSE L4Cert
  BY DEF BvFn
<1>2. CASE a # ""
  BY <1>1, <1>2, RejectIsOk
<1>3. CASE a = ""
  <2>1. \A i \in DOMAIN f.ens : "" \in asks[i]
    <3>1. asks \in [DOMAIN f.ens -> {BvAsk(f, f.ens[i]) : i \in DOMAIN f.ens}]
      OBVIOUS
    <3> HIDE DEF asks
    <3> QED BY <1>1, <1>3, <3>1, AllAnswered
  <2>2. \A i \in DOMAIN f.ens : f.ens[i].holds # "no" /\ ~(Tagged(f.ens[i]) /\ f.ens[i].wraps)
    BY <2>1, BvAsked
  <2>3. CertOk(f, L4Cert)
    BY <2>2, L4IsOk DEF UntaggedHold, TaggedHold
  <2>4. c = RejectCert("WeakContract") \/ c = L4Cert
    BY <1>1, <1>3
  <2> QED BY <2>3, <2>4, RejectIsOk
<1> QED BY <1>2, <1>3

LEMMA ShadowsOk ==
    ASSUME NEW f \in Functions, NEW c, CertOk(f, c), NEW proved
    PROVE  /\ CertOk(f, InvariantShadows(f, c, proved))
           /\ Has(f, "tagged loop") => InvariantShadows(f, c, proved).level <= 3
<1> DEFINE d == InvariantShadows(f, c, proved)
<1>1. CASE ~Has(f, "tagged loop")
  BY <1>1 DEF InvariantShadows
<1>2. CASE Has(f, "tagged loop")
  <2>1. d = [c EXCEPT !.level = IF @ > 3 THEN 3 ELSE @, !.undischarged = ~proved]
    BY <1>2 DEF InvariantShadows
  <2>2. DOMAIN c = CertFormat /\ {"level", "reject", "undischarged"} \subseteq CertFormat /\ c.level \in 0..4
    BY DEF CertOk, CertFormat
  <2>3. /\ DOMAIN d = CertFormat /\ d.reject = c.reject
        /\ d.level = (IF c.level > 3 THEN 3 ELSE c.level)
    BY <2>1, <2>2
  <2>4. d.level \in 0..3 /\ d.level <= 3 /\ (d.level >= 3 => c.level >= 3) /\ d.level # 4 /\ d.level \in 0..4
    BY <2>2, <2>3
  <2> HIDE DEF d
  <2>5. CertOk(f, d)
    BY <2>3, <2>4, Zenon DEF CertOk
  <2> QED BY <2>4, <2>5 DEF d
<1> QED BY <1>1, <1>2

LEMMA BvCheckOk ==
    ASSUME NEW f \in Functions, NEW c, CertOk(f, c), NEW only, NEW d \in BvCheck(f, c, only)
    PROVE  /\ CertOk(f, d)
           /\ Has(f, "tagged loop") => d.level <= 3
<1>1. CASE Boundary(f) \/ Slag(f) \/ ~(BvTag(f) \/ (only /\ EprClauses(f) # {}))
  <2>1. d = c
    BY <1>1, Zenon DEF BvCheck
  <2>2. ~Has(f, "tagged loop")
    BY <1>1, OneTrait DEF BvTag
  <2> QED BY <2>1, <2>2
<1>2. CASE ~Boundary(f) /\ ~Slag(f) /\ (BvTag(f) \/ (only /\ EprClauses(f) # {}))
  <2>1. PICK r \in BvFn(f) \cup {c} : d = InvariantShadows(f, r, L3(c))
    BY <1>2 DEF BvCheck
  <2>2. CertOk(f, r)
    BY BvFnOk
  <2> QED BY <1>2, <2>1, <2>2, ShadowsOk
<1> QED BY <1>1, <1>2

LEMMA L4Fields == L4Cert.level = 4 /\ L4Cert.reject = ""
BY DEF L4Cert, Certificate

LEMMA LevelOne == \A l \in 0..4 : l = 1 => l # 3 /\ (IF l > 3 THEN 3 ELSE l) = 1
OBVIOUS

(* Auto's bit-vector pass after a gate. *)
LEMMA BvEarns ==
    ASSUME NEW f \in Functions, NEW c, CertOk(f, c), Refusal(c), NEW d \in BvCheck(f, c, FALSE)
    PROVE  Earned(f, d)
<1>1. Earned(f, c)
  BY DEF Refusal, Earned
<1>2. CASE Boundary(f) \/ Slag(f) \/ ~BvTag(f)
  <2>1. d = c
    BY <1>2, Zenon DEF BvCheck
  <2> QED BY <1>1, <2>1
<1>3. CASE ~Boundary(f) /\ ~Slag(f) /\ BvTag(f)
  <2>1. PICK r \in IF BvEnsTag(f) /\ (~Has(f, "tagged loop") \/ L3(c)) THEN BvFn(f) ELSE {c} :
                d = InvariantShadows(f, r, L3(c))
    BY <1>3 DEF BvCheck
  <2>2. ~L3(c)
    BY LevelOne, Zenon DEF L3, Refusal, CertOk
  <2>3. CASE Has(f, "tagged loop")
    <3>1. d = [c EXCEPT !.level = IF @ > 3 THEN 3 ELSE @, !.undischarged = ~L3(c)]
      BY <2>1, <2>2, <2>3 DEF InvariantShadows
    <3>2. DOMAIN c = CertFormat /\ {"level", "reject", "undischarged"} \subseteq CertFormat
      BY DEF CertOk, CertFormat
    <3>3. d.reject = c.reject /\ d.level = (IF c.level > 3 THEN 3 ELSE c.level)
      BY <3>1, <3>2
    <3> QED BY <3>3, LevelOne, Zenon DEF Refusal, Earned, CertOk
  <2>4. CASE ~Has(f, "tagged loop")
    <3>1. d \in BvFn(f) /\ BvEnsTag(f)
      BY <1>3, <2>1, <2>4 DEF InvariantShadows, BvTag
    <3>2. \/ \E a : a # "" /\ d = RejectCert(a)
          \/ d = RejectCert("WeakContract") \/ d = L4Cert
      BY <3>1 DEF BvFn
    <3>3. d = L4Cert => Replaced(f, d)
      BY <1>3, <2>4, <3>1, L4Fields, Zenon DEF Replaced
    <3> QED BY <3>2, <3>3, RejectIsOk DEF Earned
  <2> QED BY <2>3, <2>4
<1> QED BY <1>2, <1>3

LEMMA NlsatOk ==
    ASSUME NEW f \in Functions, NEW c \in NlsatItem(f) PROVE CertOk(f, c)
<1>1. CASE \E i \in DOMAIN f.ens : ~Relaxable(f, f.ens[i])
  <2>1. c = RejectCert("NotRelaxable")
    BY <1>1 DEF NlsatItem
  <2> QED BY <2>1, RejectIsOk
<1>2. CASE \A i \in DOMAIN f.ens : Relaxable(f, f.ens[i])
  <2>1. \/ c = RejectCert("NlsatUnknown") \/ c = RejectCert("RealWitnessEscalation")
        \/ c = RejectCert("Counterexample")
        \/ Tautology(f) /\ c = L4Cert
    BY <1>2 DEF NlsatItem, RealWitness, NlsatCounterexample
  <2>2. Tautology(f) => UntaggedHold(f) /\ TaggedHold(f)
    BY <1>2 DEF Tautology, UntaggedHold, TaggedHold, Relaxable, Tagged
  <2> QED BY <2>1, <2>2, RejectIsOk, L4IsOk
<1> QED BY <1>1, <1>2

LEMMA ForgeAsked ==
    ASSUME NEW f \in Functions, NEW i \in DOMAIN f.ens, "" \in ForgeAsk(f, f.ens[i])
    PROVE  f.ens[i].holds # "no"
<1> DEFINE c == f.ens[i]
<1>1. c.holds \in {"no", "body", "always"}
  BY ClauseFacts
<1> HIDE DEF c
<1>2. CASE Relaxable(f, c)
  BY <1>1, <1>2 DEF ForgeAsk, NlsatAnswers, c
<1>3. CASE ~Relaxable(f, c)
  BY <1>1, <1>3 DEF ForgeAsk, GateProofAnswers, c
<1> QED BY <1>2, <1>3 DEF c

LEMMA ForgeOk ==
    ASSUME NEW f \in Functions, NEW c \in ForgeGateItem(f) PROVE CertOk(f, c)
<1> DEFINE asks == [i \in DOMAIN f.ens |-> ForgeAsk(f, f.ens[i])]
<1>1. CASE Covenant(f) # {}
  <2>1. c \in Covenant(f)
    BY <1>1 DEF ForgeGateItem
  <2> QED BY <2>1, CovenantOk
<1>2. CASE Covenant(f) = {} /\ Has(f, "over budget")
  <2>1. c = RejectCert("DefinitionTowerBudget")
    BY <1>2 DEF ForgeGateItem
  <2> QED BY <2>1, RejectIsOk
<1>3. CASE Covenant(f) = {} /\ ~Has(f, "over budget")
  <2>1. PICK a \in Answered(asks) :
            \/ a # "" /\ c = RejectCert(a)
            \/ c = RejectCert("ForgeGateNoL3Clause") \/ c = RejectCert("WeakContract")
            \/ a = "" /\ c = Certificate(3, "", FALSE, FALSE, TRUE)
    BY <1>3 DEF ForgeGateItem
  <2>2. ASSUME a = "" PROVE UntaggedHold(f)
    <3>1. asks \in [DOMAIN f.ens -> {ForgeAsk(f, f.ens[i]) : i \in DOMAIN f.ens}]
      OBVIOUS
    <3>2. \A i \in DOMAIN f.ens : "" \in asks[i]
      <4> HIDE DEF asks
      <4> QED BY <2>1, <2>2, <3>1, AllAnswered
    <3> QED BY <3>2, ForgeAsked DEF UntaggedHold
  <2>3. CASE a # "" /\ c = RejectCert(a)
    BY <2>3, RejectIsOk
  <2>4. CASE a = "" /\ c = Certificate(3, "", FALSE, FALSE, TRUE)
    BY <2>2, <2>4, L3IsOk, Zenon
  <2>5. CASE c = RejectCert("ForgeGateNoL3Clause") \/ c = RejectCert("WeakContract")
    BY <2>5, RejectIsOk
  <2> QED BY <2>1, <2>3, <2>4, <2>5
<1> QED BY <1>1, <1>2, <1>3
LEMMA LeanProvenOk ==
    ASSUME NEW f \in Functions, IsTrue(f) PROVE CertOk(f, LeanProven(f))
<1>1. UntaggedHold(f)
  BY DEF IsTrue, UntaggedHold
<1>2. LeanProven(f) = RejectCert("WeakContract") \/ LeanProven(f) = Certificate(3, "", FALSE, FALSE, TRUE)
  BY DEF LeanProven
<1>3. CASE LeanProven(f) = RejectCert("WeakContract")
  BY <1>3, RejectIsOk
<1>4. CASE LeanProven(f) = Certificate(3, "", FALSE, FALSE, TRUE)
  BY <1>1, <1>4, L3IsOk, Zenon
<1> QED BY <1>2, <1>3, <1>4

LEMMA LeanEngineOk ==
    ASSUME NEW f \in Functions, NEW c, CertOk(f, c), NEW selection,
           NEW d \in LeanEngine(f, c, selection)
    PROVE  /\ CertOk(f, d)
           /\ selection = "auto" /\ Refusal(c) => d = c
<1>1. \A a \in LeanAnswers(f) : a = "proven" => IsTrue(f)
  BY DEF LeanAnswers
<1>2. CASE selection = "auto"
  <2>1. CASE ~AutoShouldTryLean(c)
    <3>1. d = c
      BY <1>2, <2>1 DEF LeanEngine
    <3> QED BY <3>1
  <2>2. CASE AutoShouldTryLean(c)
    <3>1. PICK a \in LeanAnswers(f) :
              \/ d = Alarm
              \/ a = "proven" /\ d = LeanProven(f)
              \/ d = c
      BY <1>2, <2>2 DEF LeanEngine
    <3>2. CertOk(f, Alarm)
      BY RejectIsOk DEF Alarm
    <3>3. CertOk(f, d)
      BY <1>1, <3>1, <3>2, LeanProvenOk
    <3> QED BY <2>2, <3>3 DEF Refusal
  <2> QED BY <2>1, <2>2
<1>3. CASE selection # "auto"
  <2>1. PICK a \in LeanAnswers(f) :
            \/ a = "proven" /\ d = LeanProven(f)
            \/ a = "proven" /\ d = Certificate(3, "", FALSE, FALSE, TRUE)
            \/ d = RejectCert("LeanRefuted")
            \/ d = RejectCert("LeanUnverifiable")
    <3>1. PICK a \in LeanAnswers(f) :
              d \in CASE a = "proven"  -> {LeanProven(f), Certificate(3, "", FALSE, FALSE, TRUE)}
                      [] a = "refuted" -> {RejectCert("LeanRefuted")}
                      [] OTHER         -> {RejectCert(LeanUnverifiable)}
      BY <1>3, Zenon DEF LeanEngine
    <3>2. a \in {"unknown", "proven", "refuted"}
      BY DEF LeanAnswers
    <3> QED BY <3>1, <3>2 DEF LeanUnverifiable
  <2>2. ASSUME a = "proven" /\ d = LeanProven(f) PROVE CertOk(f, d)
    BY <1>1, <2>2, LeanProvenOk
  <2>3. ASSUME a = "proven" /\ d = Certificate(3, "", FALSE, FALSE, TRUE) PROVE CertOk(f, d)
    <3>1. UntaggedHold(f)
      BY <1>1, <2>3 DEF IsTrue, UntaggedHold
    <3> QED BY <3>1, <2>3, L3IsOk, Zenon
  <2>4. ASSUME d = RejectCert("LeanRefuted") \/ d = RejectCert("LeanUnverifiable")
        PROVE  CertOk(f, d)
    BY <2>4, RejectIsOk
  <2>5. CertOk(f, d)
    BY <2>1, <2>2, <2>3, <2>4
  <2> QED BY <1>3, <2>5
<1> QED BY <1>2, <1>3

LEMMA LeanGatesOk ==
    ASSUME NEW f, NEW c, CertOk(f, c), NEW d \in LeanGates(f, c)
    PROVE  CertOk(f, d) /\ (Refusal(c) => d = c)
<1>1. \/ d = c
      \/ c.attributed /\ d = RejectCert("DefinitionTowerBudget")
      \/ c.attributed /\ d = RejectCert("SemanticTautology")
  BY Zenon DEF LeanGates
<1> QED BY <1>1, RejectIsOk DEF Refusal

LEMMA EprCheckOk ==
    ASSUME NEW f \in Functions, NEW c, CertOk(f, c), NEW d \in EprCheck(f, c)
    PROVE  /\ CertOk(f, d)
           /\ Has(f, "tagged loop") => d = c
           /\ Earned(f, c) => Earned(f, d)
<1> DEFINE asks == [i \in DOMAIN f.ens |-> EprAsk(f, f.ens[i])]
<1>1. CASE BvTag(f) \/ Boundary(f) \/ Slag(f) \/ EprClauses(f) = {}
  <2>1. d = c
    BY <1>1 DEF EprCheck
  <2> QED BY <2>1
<1>2. CASE ~(BvTag(f) \/ Boundary(f) \/ Slag(f) \/ EprClauses(f) = {})
  <2>1. ~Has(f, "tagged loop") /\ EprClauses(f) # {} /\ ~BvEnsTag(f)
    BY <1>2 DEF BvTag
  <2>2. PICK a \in Answered(asks) :
            \/ a # "" /\ d = RejectCert(a)
            \/ d = c
            \/ d = RejectCert("EprVerifierDisagreement")
            \/ a = "" /\ EprWhole(f) /\ d = L4Cert
    BY <1>2 DEF EprCheck
  <2>3. ASSUME a = "", EprWhole(f) PROVE CertOk(f, L4Cert)
    <3>1. asks \in [DOMAIN f.ens -> {EprAsk(f, f.ens[i]) : i \in DOMAIN f.ens}]
      OBVIOUS
    <3>2. \A i \in DOMAIN f.ens : "" \in asks[i]
      <4> HIDE DEF asks
      <4> QED BY <2>2, <2>3, <3>1, AllAnswered
    <3>3. ASSUME NEW i \in DOMAIN f.ens PROVE ~Tagged(f.ens[i]) /\ f.ens[i].holds # "no"
      <4>1. f.ens[i].k = "epr" /\ ~Tagged(f.ens[i])
        BY <2>3 DEF EprWhole, EprClauses, Tagged
      <4>2. "" \in EprAsk(f, f.ens[i])
        BY <3>2
      <4> QED BY <4>1, <4>2 DEF EprAsk, EprAnswers, EprCounterexample, EprTimeout, EprFailure
    <3> QED BY <3>3, L4IsOk DEF UntaggedHold, TaggedHold
  <2>4. CertOk(f, d)
    BY <2>2, <2>3, RejectIsOk
  <2>5. EprWhole(f) => Replaced(f, L4Cert)
    BY <1>2, <2>1, L4Fields, Zenon DEF Replaced
  <2>6. Earned(f, c) => Earned(f, d)
    BY <2>2, <2>5, RejectIsOk DEF Earned
  <2> QED BY <2>1, <2>4, <2>6
<1> QED BY <1>1, <1>2

(***************************************************************************)
(* The steps of a route.                                                   *)
(***************************************************************************)
LEMMA RouteInitial == RouteInit => RouteInvariant
BY DEF RouteInit, RouteInvariant

LEMMA RouteStep ==
    ASSUME RouteInvariant, [RouteNext]_routeVars PROVE RouteInvariant'
<1>1. CASE UNCHANGED routeVars
  BY <1>1 DEF routeVars, RouteInvariant, LoopAware
<1>2. CASE CheckBase
  <2>1. /\ stage' = (IF engine = "verus" THEN "done" ELSE "engine")
        /\ cert' \in BaseCerts(fn) /\ UNCHANGED <<engine, fn>>
    BY <1>2 DEF CheckBase
  <2>2. CertOk(fn, cert') /\ (Gated(fn) => Refusal(cert'))
    BY <2>1, BaseOk
  <2> QED BY <2>1, <2>2 DEF RouteInvariant, LoopAware
<1>3. CASE NlsatCheck
  <2>1. /\ stage' = "done" /\ engine = "nlsat" /\ cert' \in NlsatItem(fn) /\ UNCHANGED <<engine, fn>>
        /\ fn \in Functions
    BY <1>3 DEF NlsatCheck, Advance, RouteInvariant
  <2>2. CertOk(fn, cert')
    BY <2>1, NlsatOk
  <2> QED BY <2>1, <2>2 DEF RouteInvariant, LoopAware
<1>4. CASE ForgeGateCheck
  <2>1. /\ stage' = "done" /\ engine = "forge" /\ cert' \in ForgeGateItem(fn) /\ UNCHANGED <<engine, fn>>
        /\ fn \in Functions
    BY <1>4 DEF ForgeGateCheck, Advance, RouteInvariant
  <2>2. CertOk(fn, cert')
    BY <2>1, ForgeOk
  <2> QED BY <2>1, <2>2 DEF RouteInvariant, LoopAware
<1>5. CASE BvEngine
  <2>1. /\ stage = "engine" /\ stage' = "done" /\ engine = "bv" /\ cert' \in BvCheck(fn, cert, TRUE)
        /\ UNCHANGED <<engine, fn>> /\ fn \in Functions /\ CertOk(fn, cert)
    BY <1>5 DEF BvEngine, Advance, RouteInvariant
  <2>2. CertOk(fn, cert') /\ (Has(fn, "tagged loop") => cert'.level <= 3)
    BY <2>1, BvCheckOk
  <2> QED BY <2>1, <2>2 DEF RouteInvariant, LoopAware
<1>6. CASE LeanPass
  <2>1. /\ stage = "engine" /\ engine \in {"lean", "auto"} /\ UNCHANGED <<engine, fn>>
        /\ fn \in Functions /\ CertOk(fn, cert) /\ (engine = "auto" /\ Gated(fn) => Refusal(cert))
    BY <1>6 DEF LeanPass, Advance, RouteInvariant
  <2>2. PICK c \in LeanEngine(fn, cert, engine) :
            IF c = Alarm THEN Advance("halted", {Alarm})
            ELSE Advance(IF engine = "auto" THEN "bv" ELSE "done", LeanGates(fn, c))
    BY <1>6 DEF LeanPass
  <2>3. CertOk(fn, c) /\ (engine = "auto" /\ Refusal(cert) => c = cert)
    BY <2>1, LeanEngineOk
  <2>4. CASE c = Alarm
    <3>1. stage' = "halted" /\ cert' = c
      BY <2>2, <2>4 DEF Advance
    <3> QED BY <2>1, <2>3, <3>1 DEF RouteInvariant, LoopAware
  <2>5. CASE c # Alarm
    <3>1. stage' = (IF engine = "auto" THEN "bv" ELSE "done") /\ cert' \in LeanGates(fn, c)
      BY <2>2, <2>5 DEF Advance
    <3>2. CertOk(fn, cert') /\ (Refusal(c) => cert' = c)
      BY <2>3, <3>1, LeanGatesOk
    <3> QED BY <2>1, <2>3, <3>1, <3>2 DEF RouteInvariant, LoopAware
  <2> QED BY <2>4, <2>5
<1>7. CASE AutoBv
  <2>1. /\ stage = "bv" /\ stage' = "epr" /\ engine = "auto" /\ cert' \in BvCheck(fn, cert, FALSE)
        /\ UNCHANGED <<engine, fn>> /\ fn \in Functions /\ CertOk(fn, cert)
        /\ Gated(fn) => Refusal(cert)
    BY <1>7 DEF AutoBv, Advance, RouteInvariant
  <2>2. /\ CertOk(fn, cert') /\ (Has(fn, "tagged loop") => cert'.level <= 3)
        /\ Gated(fn) => Earned(fn, cert')
    BY <2>1, BvCheckOk, BvEarns
  <2> QED BY <2>1, <2>2 DEF RouteInvariant, LoopAware
<1>8. CASE AutoEpr
  <2>1. /\ stage = "epr" /\ stage' = "done" /\ engine = "auto" /\ cert' \in EprCheck(fn, cert)
        /\ UNCHANGED <<engine, fn>> /\ fn \in Functions /\ CertOk(fn, cert)
        /\ (Gated(fn) => Earned(fn, cert)) /\ (Has(fn, "tagged loop") => cert.level <= 3)
    BY <1>8 DEF AutoEpr, Advance, RouteInvariant, LoopAware
  <2>2. /\ CertOk(fn, cert') /\ (Has(fn, "tagged loop") => cert' = cert)
        /\ Gated(fn) => Earned(fn, cert')
    BY <2>1, EprCheckOk
  <2> QED BY <2>1, <2>2 DEF RouteInvariant, LoopAware
<1> QED BY <1>1, <1>2, <1>3, <1>4, <1>5, <1>6, <1>7, <1>8 DEF RouteNext

LEMMA RouteInvariantIsEnough ==
    ASSUME RouteInvariant PROVE CertifiedContractHolds /\ AutoKeepsRefusals
<1>1. CertifiedContractHolds
  <2> SUFFICES ASSUME stage = "done", Certified(cert), cert.level >= 3
               PROVE  /\ \A i \in DOMAIN fn.ens :
                            LET c == fn.ens[i] IN
                            IF ~Tagged(c) THEN c.holds # "no"
                            ELSE engine \in {"auto", "bv"} /\ cert.level = 4 => c.holds # "no" /\ ~c.wraps
                      /\ Has(fn, "tagged loop") /\ engine \in {"auto", "bv"} => cert.level = 3
    BY DEF CertifiedContractHolds
  <2>1. CertOk(fn, cert) /\ cert.reject = "" /\ cert.level \in 0..4
    BY DEF RouteInvariant, Certified, CertOk
  <2>2. UntaggedHold(fn) /\ (cert.level = 4 => TaggedHold(fn))
    BY <2>1 DEF CertOk
  <2>3. ASSUME Has(fn, "tagged loop"), engine \in {"auto", "bv"} PROVE cert.level = 3
    <3>1. cert.level <= 3
      BY <2>3, Zenon DEF RouteInvariant, LoopAware
    <3>2. cert.level \in 0..4
      BY <2>1
    <3>3. \A n \in 0..4 : n >= 3 /\ n <= 3 => n = 3
      OBVIOUS
    <3> QED BY <3>1, <3>2, <3>3, Zenon
  <2> QED BY <2>2, <2>3 DEF UntaggedHold, TaggedHold
<1>2. AutoKeepsRefusals
  <2> SUFFICES ASSUME stage = "done", engine = "auto", Gated(fn), Certified(cert), cert.level > 1
               PROVE  Replaced(fn, cert)
    BY DEF AutoKeepsRefusals, Replaced
  <2>1. Earned(fn, cert)
    BY DEF RouteInvariant
  <2>2. \A l : l = 1 => ~(l > 1)
    OBVIOUS
  <2> QED BY <2>1, <2>2, Zenon DEF Earned, Certified
<1> QED BY <1>1, <1>2

(***************************************************************************)
(* The realization of a mask, group by group.                              *)
(***************************************************************************)

(* A set of numbers has a first one. *)
LEMMA FirstNumber ==
    ASSUME NEW S \in SUBSET Nat, S # {}
    PROVE  \E i \in S : \A j \in S : i <= j
<1>1. PICK i \in S : \A j \in S : <<j, i>> \notin OpToRel(<, Nat)
  BY NatLessThanWellFounded, WFMin
<1>2. ASSUME NEW j \in S PROVE i <= j
  <2>1. i \in Nat /\ j \in Nat
    OBVIOUS
  <2>2. ~(j < i)
    BY <1>1, <2>1 DEF OpToRel
  <2> QED BY <2>1, <2>2
<1> QED BY <1>2

(* The answers after each of the first i groups. *)
AnswersUpTo(g, i, p, mask) ==
    /\ DOMAIN g = 0..i /\ g = [x \in 0..i |-> g[x]]
    /\ g[0] = {Joint(NoValue)}
    /\ \A j \in 1..i : g[j] = NextGroup(p, mask, GroupWidths[j], g[j-1])

LEMMA AnswersExist ==
    ASSUME NEW p, NEW mask, NEW i \in Nat
    PROVE  \E g : AnswersUpTo(g, i, p, mask)
<1> DEFINE Missing == {k \in Nat : ~\E g : AnswersUpTo(g, k, p, mask)}
<1> SUFFICES ASSUME Missing # {} PROVE FALSE
  OBVIOUS
<1>1. PICK m \in Missing : \A k \in Missing : m <= k
  BY FirstNumber
<1>2. CASE m = 0
  <2> DEFINE h == [x \in 0..0 |-> {Joint(NoValue)}]
  <2>1. AnswersUpTo(h, 0, p, mask)
    <3>1. 0 \in 0..0 /\ \A j : j \notin 1..0
      OBVIOUS
    <3> QED BY <3>1, Zenon DEF AnswersUpTo
  <2> QED BY <1>2, <2>1
<1>3. CASE m # 0
  <2>1. m \in Nat /\ m - 1 \in Nat /\ ~(m <= m - 1)
    BY <1>3
  <2>2. m - 1 \notin Missing
    BY <1>1, <2>1
  <2>3. PICK g : AnswersUpTo(g, m - 1, p, mask)
    BY <2>1, <2>2
  <2> DEFINE h == [x \in 0..m |-> IF x = m THEN NextGroup(p, mask, GroupWidths[m], g[m-1]) ELSE g[x]]
  <2>4. 0 \in 0..m /\ 0 # m
    BY <2>1, <1>3
  <2>5. h[0] = {Joint(NoValue)}
    BY <2>3, <2>4, Zenon DEF AnswersUpTo
  <2>6. ASSUME NEW j \in 1..m PROVE h[j] = NextGroup(p, mask, GroupWidths[j], h[j-1])
    <3>1. j - 1 \in 0..m /\ j - 1 # m /\ j \in 0..m
      BY <2>1
    <3>2. h[j-1] = g[j-1]
      BY <3>1, Zenon
    <3>3. CASE j = m
      BY <3>1, <3>2, <3>3, Zenon
    <3>4. CASE j # m
      <4>1. j \in 1..(m-1)
        BY <2>1, <3>4
      <4>2. g[j] = NextGroup(p, mask, GroupWidths[j], g[j-1])
        BY <4>1, <2>3 DEF AnswersUpTo
      <4>3. h[j] = g[j]
        BY <3>1, <3>4, Zenon
      <4> QED BY <3>2, <4>2, <4>3, Zenon
    <3> QED BY <3>3, <3>4
  <2>7. DOMAIN h = 0..m /\ h = [x \in 0..m |-> h[x]]
    BY Zenon
  <2> HIDE DEF h
  <2>10. AnswersUpTo(h, m, p, mask)
    BY <2>5, <2>6, <2>7, Zenon DEF AnswersUpTo
  <2> QED BY <2>10
<1> QED BY <1>2, <1>3

LEMMA WidthsCounted ==
    /\ GroupWidths \in Seq(Nat) /\ Len(GroupWidths) \in Nat
    /\ DOMAIN GroupWidths = 1..Len(GroupWidths)
    /\ \A i \in DOMAIN GroupWidths : GroupWidths[i] = 0 \/ 2^GroupWidths[i] \in Nat \ {0}
<1>0. <<0>> \in Seq(Nat) /\ Len(<<0>>) = 1
  OBVIOUS
<1>w. Widths \in Seq(Nat)
  BY EprAssumption, Zenon
<1>1. Widths \in Seq(Nat) /\ <<0>> \in Seq(Nat) /\ Len(<<0>>) = 1
  BY <1>0, <1>w, Zenon
<1>2. GroupWidths \in Seq(Nat)
  BY <1>1 DEF GroupWidths
<1>3. Len(GroupWidths) = 1 + Len(Widths) /\ Len(Widths) \in Nat /\ DOMAIN Widths = 1..Len(Widths)
  BY <1>1 DEF GroupWidths
<1>4. Len(GroupWidths) \in Nat /\ DOMAIN GroupWidths = 1..Len(GroupWidths)
  BY <1>2
<1>5. ASSUME NEW i \in DOMAIN GroupWidths PROVE GroupWidths[i] = 0 \/ 2^GroupWidths[i] \in Nat \ {0}
  <2>1. CASE i = 1
    BY <1>1, <2>1 DEF GroupWidths
  <2>2. CASE i # 1
    <3>1. i - 1 \in DOMAIN Widths
      BY <1>3, <1>4, <2>2
    <3>2. GroupWidths[i] = Widths[i-1]
      BY <1>1, <1>3, <1>4, <2>2 DEF GroupWidths
    <3> QED BY <3>1, <3>2, EprAssumption
  <2> QED BY <2>1, <2>2
<1> QED BY <1>2, <1>4, <1>5

LEMMA GroupsTaken ==
    ASSUME NEW p, NEW mask
    PROVE  AnswersUpTo(GroupByGroup(p, mask), Len(GroupWidths), p, mask)
<1> DEFINE N == Len(GroupWidths)
           G == GroupByGroup(p, mask)
<1>1. N \in Nat
  BY WidthsCounted
<1>2. PICK g : AnswersUpTo(g, N, p, mask)
  BY <1>1, AnswersExist
<1>3. g = [i \in 0..N |-> IF i = 0 THEN {Joint(NoValue)} ELSE NextGroup(p, mask, GroupWidths[i], g[i-1])]
  <2>1. ASSUME NEW i \in 0..N
        PROVE  g[i] = IF i = 0 THEN {Joint(NoValue)} ELSE NextGroup(p, mask, GroupWidths[i], g[i-1])
    <3>1. CASE i = 0
      BY <3>1, <1>2, Zenon DEF AnswersUpTo
    <3>2. CASE i # 0
      <4>1. i \in 1..N
        BY <1>1, <3>2
      <4> QED BY <4>1, <3>2, <1>2, Zenon DEF AnswersUpTo
    <3> QED BY <3>1, <3>2
  <2>2. g = [i \in 0..N |-> g[i]]
    BY <1>2, Zenon DEF AnswersUpTo
  <2> QED BY <2>1, <2>2, Zenon
<1>4. G = [i \in 0..N |-> IF i = 0 THEN {Joint(NoValue)} ELSE NextGroup(p, mask, GroupWidths[i], G[i-1])]
  BY <1>3, Zenon DEF GroupByGroup
<1> HIDE DEF G
<1>5. G[0] = {Joint(NoValue)} /\ \A j \in 1..N : G[j] = NextGroup(p, mask, GroupWidths[j], G[j-1])
  <2>1. 0 \in 0..N /\ \A j \in 1..N : j \in 0..N /\ j # 0
    BY <1>1
  <2> QED BY <1>4, <2>1, Zenon
<1>6. DOMAIN G = 0..N /\ G = [x \in 0..N |-> G[x]]
  BY <1>4, Zenon
<1>7. AnswersUpTo(G, N, p, mask)
  BY <1>5, <1>6, Zenon DEF AnswersUpTo
<1> QED BY <1>7 DEF G

GroupAt(p, j) == {q \in DOMAIN p.qfree : p.qfree[q].width = GroupWidths[j]}

(* What an answer after the first i groups says: a value makes their leaves  *)
(* what the mask says, and there is one as soon as there is a leaf; where    *)
(* there is no value, and all leaves are of one group, there is none at all. *)
AnswerOk(p, mask, i, a) ==
    /\ a.kind \in {"joint", "retry", "fatal", "gave up"}
    /\ a.kind = "joint" =>
          \/ a.value = NoValue /\ \A j \in 1..i : GroupAt(p, j) = {}
          \/ /\ a.value # NoValue
             /\ \E j \in 1..i : GroupAt(p, j) # {}
             /\ \A j \in 1..i : Matches(p, mask, GroupAt(p, j), a.value)
    /\ a.kind = "retry" /\ OneGroup(p) => \A v \in 0..MachineMax : MaskAt(p, v) # mask

LEMMA AnswerKinds ==
    /\ Retry.kind = "retry" /\ Fatal.kind = "fatal" /\ GaveUp.kind = "gave up"
    /\ \A v : Joint(v).kind = "joint" /\ Joint(v).value = v
BY DEF Retry, Fatal, GaveUp, Joint

LEMMA EprNumbers == MachineMax \in Nat /\ LiaMax \in Nat /\ MachineMax <= LiaMax
BY EprAssumption, Zenon

LEMMA InBothRanges ==
    ASSUME NEW v \in 0..MachineMax PROVE v \in Nat /\ v \in 0..LiaMax
BY EprNumbers

(* A solver does not answer the value that stands for none. *)
LEMMA CandidateIsValue ==
    ASSUME NEW i \in DOMAIN GroupWidths, NEW v \in Candidates(GroupWidths[i], NoValue)
    PROVE  v # NoValue
<1>1. CASE GroupWidths[i] = 0
  <2>1. v \in 0..LiaMax /\ LiaMax \in Nat
    BY <1>1, EprNumbers DEF Candidates
  <2> QED BY <2>1 DEF NoValue
<1>2. CASE GroupWidths[i] # 0
  <2>1. v \in 0..(2^GroupWidths[i] - 1) /\ 2^GroupWidths[i] \in Nat
    BY <1>2, WidthsCounted DEF Candidates
  <2> QED BY <2>1 DEF NoValue
<1> QED BY <1>1, <1>2

LEMMA Modulus ==
    ASSUME NEW m \in Nat \ {0}, NEW v \in Nat
    PROVE  v % m \in 0..(m - 1) /\ (v % m) % m = v % m
OBVIOUS

(* A value that realizes the mask has a candidate of the group in its place. *)
LEMMA CandidateFor ==
    ASSUME NEW p, NEW mask, NEW i \in DOMAIN GroupWidths, NEW v \in 0..MachineMax,
           MaskAt(p, v) = mask
    PROVE  \E u \in Candidates(GroupWidths[i], NoValue) : Matches(p, mask, GroupAt(p, i), u)
<1> DEFINE w == GroupWidths[i]
<1>1. \A q \in GroupAt(p, i) : q \in DOMAIN p.qfree /\ p.qfree[q].width = w
  BY DEF GroupAt
<1>2. \A q \in DOMAIN p.qfree : LeafHolds(p.qfree[q], v) = mask[q]
  BY DEF MaskAt
<1>3. CASE w = 0
  <2>1. v \in 0..LiaMax
    BY InBothRanges, Zenon
  <2>2. Candidates(w, NoValue) = 0..LiaMax
    BY <1>3 DEF Candidates
  <2>3. Matches(p, mask, GroupAt(p, i), v)
    BY <1>1, <1>2 DEF Matches
  <2> QED BY <2>1, <2>2, <2>3
<1>4. CASE w # 0
  <2> DEFINE m == 2^w
             u == v % m
  <2>1. m \in Nat \ {0} /\ v \in Nat
    BY <1>4, WidthsCounted, InBothRanges, Zenon
  <2>2. u \in 0..(m - 1) /\ u % m = u
    <3> HIDE DEF m
    <3> QED BY <2>1, Modulus
  <2>3. Candidates(w, NoValue) = 0..(m - 1)
    BY <1>4, Zenon DEF Candidates
  <2>4. ASSUME NEW q \in GroupAt(p, i) PROVE LeafHolds(p.qfree[q], u) = mask[q]
    <3>1. p.qfree[q].width = w /\ q \in DOMAIN p.qfree
      BY <1>1
    <3>2. LeafHolds(p.qfree[q], v) = (u \in p.qfree[q].holds)
      BY <1>4, <3>1, Zenon DEF LeafHolds
    <3>3. LeafHolds(p.qfree[q], u) = (u % m \in p.qfree[q].holds)
      BY <1>4, <3>1, Zenon DEF LeafHolds
    <3> QED BY <1>2, <2>2, <3>1, <3>2, <3>3, Zenon
  <2>5. Matches(p, mask, GroupAt(p, i), u)
    BY <2>4, Zenon DEF Matches
  <2> HIDE DEF u, m
  <2> QED BY <2>2, <2>3, <2>5, Zenon
<1> QED BY <1>3, <1>4

LEMMA RealizeOk ==
    ASSUME NEW p, NEW mask, NEW i \in DOMAIN GroupWidths, NEW r, r.kind = "joint",
           AnswerOk(p, mask, i - 1, r), NEW a \in RealizeGroup(p, mask, GroupWidths[i], r.value)
    PROVE  AnswerOk(p, mask, i, a)
<1> DEFINE w == GroupWidths[i]
           group == GroupAt(p, i)
           values == {v \in Candidates(w, r.value) : Matches(p, mask, group, v)}
<1>1. i \in Nat \ {0} /\ \A j \in 1..i : j = i \/ j \in 1..(i-1)
  BY WidthsCounted
<1>2. i \in 1..i /\ \A j \in 1..(i-1) : j \in 1..i
  BY <1>1
<1>3. \/ r.value = NoValue /\ \A j \in 1..(i-1) : GroupAt(p, j) = {}
      \/ /\ r.value # NoValue
         /\ \E j \in 1..(i-1) : GroupAt(p, j) # {}
         /\ \A j \in 1..(i-1) : Matches(p, mask, GroupAt(p, j), r.value)
  BY Zenon DEF AnswerOk
<1>4. RealizeGroup(p, mask, w, r.value) = IF group = {} THEN {Joint(r.value)} ELSE Z3Answers(values)
  BY Zenon DEF RealizeGroup, GroupAt
<1>5. \A j, v : GroupAt(p, j) = {} => Matches(p, mask, GroupAt(p, j), v)
  BY DEF Matches
<1> HIDE DEF w, group, values
<1>6. CASE group = {}
  <2>1. a = Joint(r.value) /\ a.kind = "joint" /\ a.value = r.value
    BY <1>4, <1>6, AnswerKinds, Zenon DEF w
  <2> QED BY <1>1, <1>2, <1>3, <1>5, <1>6, <2>1, Zenon DEF AnswerOk, group
<1>7. CASE group # {}
  <2>1. \/ \E v \in values : a = Joint(v)
        \/ a \in {Fatal, GaveUp}
        \/ values = {} /\ a = Retry
    BY <1>4, <1>7, Zenon DEF Z3Answers, w
  <2>2. CASE \E v \in values : a = Joint(v)
    <3>1. PICK v \in values : a = Joint(v)
      BY <2>2
    <3>2. a.kind = "joint" /\ a.value = v
      BY <3>1, AnswerKinds, Zenon
    <3>3. v \in Candidates(w, r.value) /\ Matches(p, mask, group, v)
      BY DEF values
    <3>4. v # NoValue /\ \A j \in 1..(i-1) : Matches(p, mask, GroupAt(p, j), v)
      <4>1. CASE r.value = NoValue
        BY <1>3, <1>5, <3>3, <4>1, CandidateIsValue, Zenon DEF w
      <4>2. CASE r.value # NoValue
        <5>1. v = r.value
          BY <3>3, <4>2 DEF Candidates
        <5> QED BY <1>3, <4>2, <5>1, Zenon
      <4> QED BY <4>1, <4>2
    <3>5. \A j \in 1..i : Matches(p, mask, GroupAt(p, j), v)
      BY <1>1, <3>3, <3>4, Zenon DEF group
    <3> QED BY <1>2, <1>7, <3>2, <3>4, <3>5, Zenon DEF AnswerOk, group
  <2>3. CASE a \in {Fatal, GaveUp}
    BY <2>3, AnswerKinds DEF AnswerOk
  <2>4. CASE values = {} /\ a = Retry
    <3>1. a.kind = "retry"
      BY <2>4, AnswerKinds
    <3>2. ASSUME OneGroup(p), NEW v \in 0..MachineMax, MaskAt(p, v) = mask PROVE FALSE
      <4>1. CASE r.value = NoValue
        BY <2>4, <3>2, <4>1, CandidateFor DEF values, group, w
      <4>2. CASE r.value # NoValue
        <5>1. PICK j \in 1..(i-1) : GroupAt(p, j) # {} /\ Matches(p, mask, GroupAt(p, j), r.value)
          BY <1>3, <4>2, Zenon
        <5>2. PICK q \in GroupAt(p, j) : TRUE
          BY <5>1
        <5>3. PICK s \in group : TRUE
          BY <1>7
        <5>4. GroupWidths[j] = GroupWidths[i]
          BY <3>2, <5>2, <5>3 DEF OneGroup, GroupAt, group
        <5>5. GroupAt(p, j) = group
          BY <5>4 DEF GroupAt, group
        <5>6. r.value \in Candidates(w, r.value)
          BY <4>2 DEF Candidates
        <5> QED BY <2>4, <5>1, <5>5, <5>6 DEF values
      <4> QED BY <4>1, <4>2
    <3> QED BY <3>1, <3>2 DEF AnswerOk
  <2> QED BY <2>1, <2>2, <2>3, <2>4
<1> QED BY <1>6, <1>7

LEMMA AnswersOk ==
    ASSUME NEW p, NEW mask, NEW a \in CheckQfreeRealization(p, mask)
    PROVE  AnswerOk(p, mask, Len(GroupWidths), a)
<1> DEFINE N == Len(GroupWidths)
           G == GroupByGroup(p, mask)
           Bad == {i \in 0..N : \E b \in G[i] : ~AnswerOk(p, mask, i, b)}
<1>1. N \in Nat /\ DOMAIN GroupWidths = 1..N
  BY WidthsCounted
<1>2. /\ G[0] = {Joint(NoValue)}
      /\ \A j \in 1..N : G[j] = NextGroup(p, mask, GroupWidths[j], G[j-1])
  BY GroupsTaken, Zenon DEF AnswersUpTo
<1> HIDE DEF G
<1>3. ASSUME Bad # {} PROVE FALSE
  <2>1. Bad \in SUBSET Nat
    BY <1>1
  <2>2. PICK m \in Bad : \A k \in Bad : m <= k
    BY <1>3, <2>1, FirstNumber
  <2>3. m \in 0..N
    OBVIOUS
  <2>4. PICK b \in G[m] : ~AnswerOk(p, mask, m, b)
    OBVIOUS
  <2> HIDE DEF Bad
  <2>5. CASE m = 0
    <3>1. b = Joint(NoValue)
      BY <1>2, <2>4, <2>5
    <3>2. b.kind = "joint" /\ b.value = NoValue
      BY <3>1, AnswerKinds, Zenon
    <3>3. \A j : j \notin 1..m
      BY <2>5
    <3> QED BY <2>4, <3>2, <3>3 DEF AnswerOk
  <2>6. CASE m # 0
    <3>1. m \in 1..N /\ m - 1 \in 0..N /\ ~(m <= m - 1)
      BY <1>1, <2>3, <2>6
    <3>2. m - 1 \notin Bad
      BY <2>2, <3>1
    <3>3. \A r \in G[m-1] : AnswerOk(p, mask, m - 1, r)
      BY <3>1, <3>2, Zenon DEF Bad
    <3>4. PICK r \in G[m-1] :
              b \in IF r.kind # "joint" THEN {r} ELSE RealizeGroup(p, mask, GroupWidths[m], r.value)
      <4>1. b \in NextGroup(p, mask, GroupWidths[m], G[m-1])
        BY <1>2, <2>4, <3>1, Zenon
      <4> QED BY <4>1 DEF NextGroup
    <3>5. CASE r.kind # "joint"
      <4>1. b = r
        BY <3>4, <3>5
      <4> QED BY <2>4, <3>3, <3>5, <4>1, Zenon DEF AnswerOk
    <3>6. CASE r.kind = "joint"
      <4>1. b \in RealizeGroup(p, mask, GroupWidths[m], r.value) /\ m \in DOMAIN GroupWidths
        BY <1>1, <3>1, <3>4, <3>6
      <4> QED BY <2>4, <3>3, <3>6, <4>1, RealizeOk, Zenon
    <3> QED BY <3>5, <3>6
  <2> QED BY <2>5, <2>6
<1>4. N \in 0..N /\ a \in G[N]
  BY <1>1 DEF CheckQfreeRealization, G
<1> QED BY <1>3, <1>4

LEMMA SomeElement ==
    ASSUME NEW S, NEW s \in Seq(S), s # <<>> PROVE 1 \in DOMAIN s
OBVIOUS

(* The value of a joint answer realizes the mask. *)
LEMMA JointRealizes ==
    ASSUME NEW p, WellFormed(p), NEW true, NEW a \in CheckQfreeRealization(p, MaskOf(p, true)),
           a.kind = "joint", p.qfree # <<>>
    PROVE  MaskOf(p, true) = MaskAt(p, a.value)
<1> DEFINE mask == MaskOf(p, true)
           N == Len(GroupWidths)
<1>1. AnswerOk(p, mask, N, a)
  BY AnswersOk
<1>2. DOMAIN GroupWidths = 1..N
  BY WidthsCounted
<1>3. \A q \in DOMAIN p.qfree : \E i \in 1..N : q \in GroupAt(p, i)
  BY <1>2, Zenon DEF WellFormed, GroupAt
<1>4. PICK q \in DOMAIN p.qfree : TRUE
  <2>1. p.qfree \in Seq([width : Nat, holds : SUBSET Int])
    BY Zenon DEF WellFormed
  <2> QED BY <2>1, SomeElement, Zenon
<1>5. \A i \in 1..N : Matches(p, mask, GroupAt(p, i), a.value)
  BY <1>1, <1>3, <1>4, Zenon DEF AnswerOk
<1>6. \A s \in DOMAIN p.qfree : mask[s] = LeafHolds(p.qfree[s], a.value)
  BY <1>3, <1>5, Zenon DEF Matches
<1>7. mask = [s \in DOMAIN p.qfree |-> mask[s]]
  BY Zenon DEF MaskOf
<1> HIDE DEF mask
<1> QED BY <1>6, <1>7, Zenon DEF MaskAt, mask

(* What checked_counterexample may answer. *)
LEMMA CheckedAnswer ==
    ASSUME NEW p, WellFormed(p), NEW true, NEW a \in CheckedCounterexample(p, MaskOf(p, true))
    PROVE  /\ a.kind \in {"joint", "retry", "fatal", "gave up"}
           /\ a.kind = "joint" =>
                 /\ \E rels \in p.family : SourceHolds(p, MaskOf(p, true), rels)
                 /\ p.qfree # <<>> => MaskOf(p, true) = MaskAt(p, a.value)
           /\ a.kind = "retry" =>
                 \/ \A rels \in p.family : ~SourceHolds(p, MaskOf(p, true), rels)
                 \/ OneGroup(p) => \A v \in 0..MachineMax : MaskAt(p, v) # MaskOf(p, true)
<1> DEFINE mask == MaskOf(p, true)
<1>1. PICK r \in CheckQfreeRealization(p, mask) :
          a \in IF r.kind # "joint" THEN {r}
                ELSE {IF s.kind = "joint" THEN r ELSE s : s \in SearchFamily(p, mask)}
  BY Zenon DEF CheckedCounterexample
<1>2. AnswerOk(p, mask, Len(GroupWidths), r)
  BY AnswersOk
<1>3. CASE r.kind # "joint"
  <2>1. a = r
    BY <1>1, <1>3
  <2> QED BY <1>2, <1>3, <2>1, Zenon DEF AnswerOk
<1>4. CASE r.kind = "joint"
  <2>1. PICK s \in SearchFamily(p, mask) : a = IF s.kind = "joint" THEN r ELSE s
    BY <1>1, <1>4
  <2>2. \/ s = Fatal
        \/ s = Joint(NoValue) /\ \E rels \in p.family : SourceHolds(p, mask, rels)
        \/ s = Retry /\ ~\E rels \in p.family : SourceHolds(p, mask, rels)
    BY Zenon DEF SearchFamily
  <2>3. p.qfree # <<>> => mask = MaskAt(p, r.value)
    BY <1>4, JointRealizes
  <2>4. CASE s = Fatal
    <3>1. a.kind = "fatal"
      BY <2>1, <2>4, AnswerKinds
    <3> QED BY <3>1
  <2>5. CASE s = Joint(NoValue) /\ \E rels \in p.family : SourceHolds(p, mask, rels)
    <3>1. a = r /\ a.kind = "joint"
      BY <1>4, <2>1, <2>5, AnswerKinds
    <3> QED BY <2>3, <2>5, <3>1
  <2>6. CASE s = Retry /\ ~\E rels \in p.family : SourceHolds(p, mask, rels)
    <3>1. a.kind = "retry"
      BY <2>1, <2>6, AnswerKinds
    <3> QED BY <2>6, <3>1
  <2> QED BY <2>2, <2>4, <2>5, <2>6
<1> QED BY <1>3, <1>4

(***************************************************************************)
(* Masks and the clauses that block them.                                  *)
(***************************************************************************)
LEMMA AtomFacts ==
    ASSUME NEW p, WellFormed(p)
    PROVE  /\ \A i \in DOMAIN p.atoms : p.atoms[i][1] \in Nat \ {0} /\ p.atoms[i][2] \in Nat
           /\ \A q \in DOMAIN p.qfree : q # 0
<1>1. p.atoms \in Seq((Nat \ {0}) \X Nat) /\ p.qfree \in Seq([width : Nat, holds : SUBSET Int])
  BY Zenon DEF WellFormed
<1>2. \A i \in DOMAIN p.atoms : p.atoms[i] \in (Nat \ {0}) \X Nat
  BY <1>1
<1>3. \A q \in DOMAIN p.qfree : q # 0
  BY <1>1
<1> QED BY <1>2, <1>3

LEMMA VarFacts ==
    ASSUME NEW p, WellFormed(p)
    PROVE  /\ \A v \in QfreeVars(p) : v \in Nat \ {0}
           /\ \A q \in DOMAIN p.qfree : VarsOf(p, q) \subseteq QfreeVars(p)
           /\ \A q, r : VarsOf(p, q) \cap VarsOf(p, r) # {} => q = r
<1>1. \A v \in QfreeVars(p) : v \in Nat \ {0}
  BY AtomFacts DEF QfreeVars
<1>2. \A q \in DOMAIN p.qfree : VarsOf(p, q) \subseteq QfreeVars(p)
  BY AtomFacts DEF QfreeVars, VarsOf
<1>3. ASSUME NEW q, NEW r, VarsOf(p, q) \cap VarsOf(p, r) # {} PROVE q = r
  <2>1. PICK i \in DOMAIN p.atoms, j \in DOMAIN p.atoms :
            p.atoms[i][1] = p.atoms[j][1] /\ p.atoms[i][2] = q /\ p.atoms[j][2] = r
    BY <1>3 DEF VarsOf
  <2>2. p.atoms[i][2] = p.atoms[j][2]
    BY <2>1, Zenon DEF WellFormed
  <2> QED BY <2>1, <2>2
<1> QED BY <1>1, <1>2, <1>3

(* An assignment does not satisfy the clause that blocks it. *)
LEMMA BlockExcludes ==
    ASSUME NEW p, WellFormed(p), NEW true, NEW cnf, BlockingClause(p, true) \in cnf
    PROVE  ~Satisfies(true, cnf)
<1> SUFFICES ASSUME Satisfies(true, cnf) PROVE FALSE
  OBVIOUS
<1>1. PICK l \in BlockingClause(p, true) : IF l > 0 THEN l \in true ELSE -l \notin true
  BY DEF Satisfies
<1>2. PICK v \in QfreeVars(p) : l = IF v \in true THEN -v ELSE v
  BY DEF BlockingClause
<1>3. v \in Nat \ {0}
  BY VarFacts
<1>4. CASE v \in true
  <2>1. l = -v
    BY <1>2, <1>4
  <2>2. ~(l > 0) /\ -l = v
    BY <1>3, <2>1
  <2> QED BY <1>1, <1>4, <2>2
<1>5. CASE v \notin true
  <2>1. l = v
    BY <1>2, <1>5
  <2>2. l > 0
    BY <1>3, <2>1
  <2> QED BY <1>1, <1>5, <2>1, <2>2
<1> QED BY <1>4, <1>5

(* Another mask satisfies the clause that blocks this one. *)
LEMMA OtherMaskPasses ==
    ASSUME NEW p, WellFormed(p), NEW true, MaskReadable(p, true), NEW other \in [DOMAIN p.qfree -> BOOLEAN],
           other # MaskOf(p, true)
    PROVE  \E l \in BlockingClause(p, true) :
              IF l > 0 THEN l \in TrueVars(p, other) ELSE -l \notin TrueVars(p, other)
<1> DEFINE mask == MaskOf(p, true)
<1>1. mask \in [DOMAIN p.qfree -> BOOLEAN]
  BY DEF MaskOf
<1>2. PICK q \in DOMAIN p.qfree : mask[q] # other[q]
  BY <1>1
<1>3. mask[q] <=> VarsOf(p, q) \subseteq true
  BY DEF MaskOf
<1>4. PICK w \in VarsOf(p, q) : TRUE
  BY DEF MaskReadable
<1>5. w \in QfreeVars(p) /\ w \in Nat \ {0}
  BY VarFacts
<1>6. w \in TrueVars(p, other) <=> other[q]
  <2>1. ASSUME other[q] PROVE w \in TrueVars(p, other)
    BY <2>1 DEF TrueVars
  <2>2. ASSUME w \in TrueVars(p, other) PROVE other[q]
    <3>1. PICK r \in DOMAIN p.qfree : other[r] /\ w \in VarsOf(p, r)
      BY <2>2 DEF TrueVars
    <3>2. r = q
      BY <1>4, <3>1, VarFacts
    <3> QED BY <3>1, <3>2
  <2> QED BY <2>1, <2>2
<1> HIDE DEF mask
<1>7. CASE mask[q]
  <2>1. w \in true /\ ~other[q]
    BY <1>1, <1>2, <1>3, <1>4, <1>7
  <2>2. -w \in BlockingClause(p, true)
    BY <1>5, <2>1 DEF BlockingClause
  <2>3. ~(-w > 0) /\ -(-w) = w
    BY <1>5
  <2>4. w \notin TrueVars(p, other)
    BY <1>6, <2>1
  <2> QED BY <2>2, <2>3, <2>4
<1>8. CASE ~mask[q]
  <2>1. w \notin true /\ other[q]
    BY <1>1, <1>2, <1>3, <1>4, <1>8 DEF MaskReadable
  <2>2. w \in BlockingClause(p, true)
    BY <1>5, <2>1 DEF BlockingClause
  <2>3. w > 0
    BY <1>5
  <2> QED BY <1>6, <2>1, <2>2, <2>3
<1> QED BY <1>7, <1>8

LEMMA MaskAtType ==
    ASSUME NEW p, NEW v PROVE MaskAt(p, v) \in [DOMAIN p.qfree -> BOOLEAN]
BY DEF MaskAt, LeafHolds

(* A clause whose ground problem has no model has no counterexample. *)
LEMMA UnsatisfiableIsValid ==
    ASSUME NEW p, WellFormed(p), Unsatisfiable(p)
    PROVE  ~Refutable(p)
<1> SUFFICES ASSUME NEW v \in 0..MachineMax, NEW rels \in p.possible, SourceHolds(p, MaskAt(p, v), rels)
             PROVE  FALSE
  BY DEF Refutable
<1> DEFINE true == rels \cup TrueVars(p, MaskAt(p, v))
<1>1. rels \subseteq RelVars(p)
  BY DEF WellFormed
<1>2. TrueVars(p, MaskAt(p, v)) \subseteq QfreeVars(p)
  BY VarFacts, MaskAtType DEF TrueVars
<1>3. true \in Assignments(p)
  BY <1>1, <1>2 DEF Assignments
<1>4. Satisfies(true, p.cnf)
  BY Zenon DEF SourceHolds, Satisfies
<1> QED BY <1>3, <1>4 DEF Unsatisfiable

LEMMA NoLeaves ==
    ASSUME NEW s, s = <<>> PROVE DOMAIN s = {}
OBVIOUS

(* What a counterexample says of the clause. *)
LEMMA CounterexampleRefutes ==
    ASSUME NEW p, WellFormed(p), NEW true, NEW value,
           \E rels \in p.family : SourceHolds(p, MaskOf(p, true), rels),
           p.qfree # <<>> => MaskOf(p, true) = MaskAt(p, value),
           p.qfree = <<>> \/ value \in 0..MachineMax
    PROVE  Refutable(p)
<1>1. PICK rels \in p.family : SourceHolds(p, MaskOf(p, true), rels)
  OBVIOUS
<1>2. rels \in p.possible
  BY Zenon DEF WellFormed
<1>3. CASE p.qfree = <<>>
  <2>1. DOMAIN p.qfree = {}
    BY <1>3, NoLeaves, Zenon
  <2>2. MaskOf(p, true) = MaskAt(p, 0)
    BY <2>1 DEF MaskOf, MaskAt
  <2>3. 0 \in 0..MachineMax
    BY EprNumbers
  <2> QED BY <1>1, <1>2, <2>2, <2>3 DEF Refutable
<1>4. CASE p.qfree # <<>>
  BY <1>1, <1>2, <1>4, Zenon DEF Refutable
<1> QED BY <1>3, <1>4


(***************************************************************************)
(* The invariant of the reconstruction: of one process,                    *)
(***************************************************************************)
RunFields == {"problem", "lean", "stage", "blocked", "true", "value", "guessed", "verdict",
              "lrat", "writes", "outcome", "reason"}

HidesNothing(pr, r) ==
    OneGroup(pr) /\ ~r.guessed =>
        \A v \in 0..MachineMax, rels \in pr.family :
            SourceHolds(pr, MaskAt(pr, v), rels) => Satisfies(TrueVars(pr, MaskAt(pr, v)), r.blocked)

RefutedBy(pr, r) ==
    /\ \E rels \in pr.family : SourceHolds(pr, MaskOf(pr, r.true), rels)
    /\ pr.qfree # <<>> => MaskOf(pr, r.true) = MaskAt(pr, r.value)

ToStore(pr, r) ==
    /\ Unsatisfiable(pr) /\ r.lrat # "no refutation"
    /\ r.verdict = VerdictKey(r.problem, GroundOf(r), r.lrat)
    /\ r.writes \in {StoreOrder, <<"index">>, <<>>}

Justified(pr, r) ==
    /\ r.stage # "done" => r.outcome = "none"
    /\ r.stage = "examine" => Satisfies(r.true, ActiveCnf(pr, r.blocked)) /\ MaskReadable(pr, r.true)
    /\ r.stage = "store" => ToStore(pr, r)
    /\ r.outcome = "proved" => Unsatisfiable(pr)
    /\ r.outcome = "counterexample" => RefutedBy(pr, r)
    /\ r.outcome # "repeated"
    /\ HidesNothing(pr, r)

ProcessOk(r) ==
    /\ DOMAIN r = RunFields /\ r.guessed \in BOOLEAN
    /\ \/ r.problem = "" /\ r.stage = "done" /\ r.outcome = "none"
       \/ r.problem \in DOMAIN Problem \ {""} /\ Justified(Problem[r.problem], r)

(* and of the cache as long as it was only written by reconstructions: what  *)
(* is filed under a digest is what the digest was computed from, and the     *)
(* second component of a digest is the input it belongs to.                  *)
FiledOk(d, e) ==
    /\ e.verdict = d /\ d = VerdictKey(e.problem, e.ground, e.lrat)
    /\ e.source = ReplaySource(e.problem, e.ground, e.lrat)
    /\ e.input = e.ground /\ e.input[1] = e.problem /\ LeanAccepts(e.problem, e.lrat)

ReadsBack(r) ==
    /\ r.outcome = "tampered" => r.reason = "lean failed"
    /\ r.stage = "entry" => r.verdict \in DOMAIN entries /\ r.verdict[2] = InputKey(r)
    /\ r.stage = "store" /\ r.writes # StoreOrder => r.verdict \in DOMAIN entries

CacheOk ==
    /\ \A d \in DOMAIN entries : FiledOk(d, entries[d])
    /\ \A k \in DOMAIN index : index[k] \in DOMAIN entries /\ index[k][2] = k
    /\ \A p \in DOMAIN run : ReadsBack(run[p])

EprInvariant ==
    /\ tampers \in Nat
    /\ \A p \in DOMAIN run : ProcessOk(run[p])
    /\ tampers = 0 => CacheOk

LEMMA SameHidden ==
    ASSUME NEW pr, NEW r, NEW n, HidesNothing(pr, r), n.guessed = r.guessed, n.blocked = r.blocked
    PROVE  HidesNothing(pr, n)
BY Zenon DEF HidesNothing

LEMMA ProblemsFormed ==
    ASSUME NEW name \in DOMAIN Problem PROVE WellFormed(Problem[name])
BY EprAssumption, Zenon

LEMMA AtWork ==
    ASSUME NEW r, ProcessOk(r), r.stage # "done"
    PROVE  /\ r.problem \in DOMAIN Problem \ {""} /\ Justified(Problem[r.problem], r)
           /\ r.outcome = "none" /\ DOMAIN r = RunFields /\ r.guessed \in BOOLEAN
           /\ WellFormed(Problem[r.problem]) /\ HidesNothing(Problem[r.problem], r)
<1>1. r.problem \in DOMAIN Problem \ {""} /\ Justified(Problem[r.problem], r)
  BY Zenon DEF ProcessOk
<1>2. r.outcome = "none" /\ HidesNothing(Problem[r.problem], r)
  BY <1>1, Zenon DEF Justified
<1>3. WellFormed(Problem[r.problem])
  BY <1>1, ProblemsFormed
<1> QED BY <1>1, <1>2, <1>3, Zenon DEF ProcessOk

(* A process that is neither examining nor storing, and has no verdict. *)
LEMMA Neutral ==
    ASSUME NEW r, ProcessOk(r), r.stage # "done", NEW n, DOMAIN n = RunFields,
           n.problem = r.problem, n.guessed = r.guessed, n.blocked = r.blocked,
           n.stage \notin {"examine", "store"}, n.stage # "done" => n.outcome = "none",
           n.outcome \notin {"proved", "counterexample", "repeated"}
    PROVE  ProcessOk(n)
<1>1. HidesNothing(Problem[n.problem], n)
  BY AtWork, SameHidden, Zenon
<1>2. Justified(Problem[n.problem], n)
  BY <1>1 DEF Justified
<1> QED BY <1>2, AtWork DEF ProcessOk

LEMMA EndedFields ==
    ASSUME NEW r, DOMAIN r = RunFields, NEW o
    PROVE  LET n == [r EXCEPT !.stage = "done", !.outcome = o]
           IN  /\ DOMAIN n = RunFields /\ n.problem = r.problem /\ n.guessed = r.guessed
               /\ n.blocked = r.blocked /\ n.stage = "done" /\ n.outcome = o
BY DEF RunFields

LEMMA MovedFields ==
    ASSUME NEW r, DOMAIN r = RunFields, NEW s
    PROVE  LET n == [r EXCEPT !.stage = s]
           IN  /\ DOMAIN n = RunFields /\ n.problem = r.problem /\ n.guessed = r.guessed
               /\ n.blocked = r.blocked /\ n.stage = s /\ n.outcome = r.outcome
BY DEF RunFields

(* One process moves and the cache stays. *)
LEMMA OneMoves ==
    ASSUME EprInvariant, NEW p \in DOMAIN run, NEW r, Become(p, r), UNCHANGED Cache,
           ProcessOk(r), tampers = 0 => ReadsBack(r)
    PROVE  EprInvariant'
<1>1. DOMAIN run' = DOMAIN run /\ \A q \in DOMAIN run : run'[q] = IF q = p THEN r ELSE run[q]
  BY DEF Become
<1>2. index' = index /\ entries' = entries /\ tampers' = tampers
  BY DEF Cache
<1>3. (tampers \in Nat)' /\ \A q \in DOMAIN run' : ProcessOk(run'[q])
  BY <1>1, <1>2 DEF EprInvariant
<1>4. ASSUME tampers' = 0 PROVE CacheOk'
  <2>1. CacheOk /\ ReadsBack(r)
    BY <1>2, <1>4 DEF EprInvariant
  <2>2. \A q \in DOMAIN run' : ReadsBack(run'[q])
    BY <1>1, <2>1 DEF CacheOk
  <2>3. \A q \in DOMAIN run' : ReadsBack(run[q])'
    BY <1>2, <2>2 DEF ReadsBack
  <2> QED BY <1>2, <2>1, <2>3 DEF CacheOk
<1> QED BY <1>3, <1>4 DEF EprInvariant

LEMMA EndStep ==
    ASSUME EprInvariant, NEW p \in DOMAIN run, run[p].stage # "done", NEW o,
           o \notin {"proved", "counterexample", "repeated", "tampered"},
           EndWith(p, o), UNCHANGED Cache
    PROVE  EprInvariant'
<1> DEFINE n == [run[p] EXCEPT !.stage = "done", !.outcome = o]
<1>1. ProcessOk(run[p]) /\ DOMAIN run[p] = RunFields
  BY DEF EprInvariant, ProcessOk
<1>2. /\ DOMAIN n = RunFields /\ n.problem = run[p].problem /\ n.guessed = run[p].guessed
      /\ n.blocked = run[p].blocked /\ n.stage = "done" /\ n.outcome = o
  BY <1>1, EndedFields
<1>3. Become(p, n)
  BY DEF EndWith
<1> HIDE DEF n
<1>4. ProcessOk(n)
  BY <1>1, <1>2, Neutral
<1>5. tampers = 0 => ReadsBack(n)
  BY <1>2 DEF ReadsBack
<1> QED BY <1>3, <1>4, <1>5, OneMoves

LEMMA MoveStep ==
    ASSUME EprInvariant, NEW p \in DOMAIN run, run[p].stage # "done",
           NEW s \in {"index", "ground", "solve", "certify"},
           Become(p, [run[p] EXCEPT !.stage = s]), UNCHANGED Cache
    PROVE  EprInvariant'
<1> DEFINE n == [run[p] EXCEPT !.stage = s]
<1>1. ProcessOk(run[p]) /\ DOMAIN run[p] = RunFields
  BY DEF EprInvariant, ProcessOk
<1>2. /\ DOMAIN n = RunFields /\ n.problem = run[p].problem /\ n.guessed = run[p].guessed
      /\ n.blocked = run[p].blocked /\ n.stage = s /\ n.outcome = run[p].outcome
  BY <1>1, MovedFields
<1>3. n.outcome = "none"
  BY <1>1, <1>2, AtWork
<1>4. Become(p, n)
  OBVIOUS
<1> HIDE DEF n
<1>5. ProcessOk(n)
  BY <1>1, <1>2, <1>3, Neutral
<1>6. tampers = 0 => ReadsBack(n)
  BY <1>2, <1>3 DEF ReadsBack
<1> QED BY <1>4, <1>5, <1>6, OneMoves

LEMMA FailureStep ==
    ASSUME EprInvariant, NEW p \in DOMAIN run, run[p].stage # "done",
           NEW why, tampers = 0 => why = "lean failed",
           CacheFailure(p, why), UNCHANGED Cache
    PROVE  EprInvariant'
<1>1. CASE strict
  <2> DEFINE n == [run[p] EXCEPT !.stage = "done", !.outcome = "tampered", !.reason = why]
  <2>1. ProcessOk(run[p]) /\ DOMAIN run[p] = RunFields
    BY DEF EprInvariant, ProcessOk
  <2>2. /\ DOMAIN n = RunFields /\ n.problem = run[p].problem /\ n.guessed = run[p].guessed
        /\ n.blocked = run[p].blocked /\ n.stage = "done" /\ n.outcome = "tampered"
        /\ n.reason = why
    BY <2>1 DEF RunFields
  <2>3. Become(p, n)
    BY <1>1 DEF CacheFailure
  <2> HIDE DEF n
  <2>4. ProcessOk(n)
    BY <2>1, <2>2, Neutral
  <2>5. tampers = 0 => ReadsBack(n)
    BY <2>2 DEF ReadsBack
  <2> QED BY <2>3, <2>4, <2>5, OneMoves
<1>2. CASE ~strict
  BY <1>2, MoveStep DEF CacheFailure
<1> QED BY <1>1, <1>2

LEMMA OpenStep ==
    ASSUME EprInvariant, NEW p \in DOMAIN run, Open(p) PROVE EprInvariant'
<1>1. run[p].stage # "done" /\ UNCHANGED Cache
  BY DEF Open
<1>2. CASE Become(p, [run[p] EXCEPT !.stage = "index"])
  BY <1>1, <1>2, MoveStep
<1>3. CASE EndWith(p, "failed")
  BY <1>1, <1>3, EndStep
<1> QED BY <1>2, <1>3 DEF Open

(* A digest of a verdict has four parts, junk has one. *)
LEMMA JunkIsNoKey ==
    ASSUME NEW a, NEW b, NEW c PROVE VerdictKey(a, b, c) # Junk
BY DEF VerdictKey, Junk

LEMMA FiledIsNoJunk ==
    ASSUME NEW d, NEW e, FiledOk(d, e) PROVE d # Junk
<1>1. d = VerdictKey(e.problem, e.ground, e.lrat)
  BY DEF FiledOk
<1> QED BY <1>1, JunkIsNoKey

LEMMA KeyParts ==
    ASSUME NEW a, NEW b, NEW c PROVE VerdictKey(a, b, c)[2] = b
BY DEF VerdictKey

LEMMA ReadIndexStep ==
    ASSUME EprInvariant, NEW p \in DOMAIN run, ReadIndex(p) PROVE EprInvariant'
<1> DEFINE key == InputKey(run[p])
           n == [run[p] EXCEPT !.stage = "entry", !.verdict = index[key]]
<1>1. run[p].stage = "index" /\ UNCHANGED Cache
  BY DEF ReadIndex
<1>2. CASE key \notin DOMAIN index
  BY <1>1, <1>2, MoveStep DEF ReadIndex
<1>3. ASSUME tampers = 0, key \in DOMAIN index
      PROVE  index[key] # Junk /\ index[key] \in DOMAIN entries /\ index[key][2] = key
  <2>1. index[key] \in DOMAIN entries /\ index[key][2] = key
    BY <1>3, Zenon DEF EprInvariant, CacheOk
  <2>2. FiledOk(index[key], entries[index[key]])
    BY <1>3, <2>1, Zenon DEF EprInvariant, CacheOk
  <2> QED BY <2>1, <2>2, FiledIsNoJunk, Zenon
<1>4. CASE key \in DOMAIN index /\ index[key] = Junk
  <2>1. CacheFailure(p, "index")
    BY <1>4 DEF ReadIndex
  <2> QED BY <1>1, <1>3, <1>4, <2>1, FailureStep
<1>5. CASE key \in DOMAIN index /\ index[key] # Junk
  <2>1. Become(p, n)
    BY <1>5 DEF ReadIndex
  <2>2. ProcessOk(run[p]) /\ DOMAIN run[p] = RunFields
    BY DEF EprInvariant, ProcessOk
  <2>3. /\ DOMAIN n = RunFields /\ n.problem = run[p].problem /\ n.guessed = run[p].guessed
        /\ n.blocked = run[p].blocked /\ n.stage = "entry" /\ n.outcome = run[p].outcome
        /\ n.verdict = index[key] /\ n.lean = run[p].lean
    BY <2>2 DEF RunFields
  <2>4. n.outcome = "none"
    BY <1>1, <2>2, <2>3, AtWork
  <2>5. InputKey(n) = key
    BY <2>3 DEF InputKey
  <2> HIDE DEF n
  <2>6. ProcessOk(n)
    BY <1>1, <2>2, <2>3, <2>4, Neutral
  <2>7. tampers = 0 => ReadsBack(n)
    BY <1>3, <1>5, <2>3, <2>4, <2>5 DEF ReadsBack
  <2> QED BY <1>1, <2>1, <2>6, <2>7, OneMoves
<1> QED BY <1>2, <1>4, <1>5

(* An entry that is told from a replay is one that Lean accepts. *)
LEMMA HitAccepted ==
    ASSUME NEW r, NEW e, "hit" \in CachedAnswers(r, e) PROVE LeanAccepts(r.problem, e.lrat)
BY DEF CachedAnswers, ReplayAnswers

(* An entry that reconstructions wrote does not differ from its digest. *)
LEMMA OwnEntryReads ==
    ASSUME NEW r, NEW e, FiledOk(r.verdict, e), r.verdict[2] = InputKey(r),
           NEW a \in CachedAnswers(r, e)
    PROVE  a \in {"hit", "lean failed"}
<1>1. r.verdict[2] = e.ground
  BY KeyParts DEF FiledOk
<1>2. e.input = InputKey(r) /\ e.ground = InputKey(r)
  BY <1>1 DEF FiledOk
<1>3. e.problem = r.problem
  <2>1. InputKey(r)[1] = r.problem
    BY DEF InputKey
  <2> QED BY <1>2, <2>1 DEF FiledOk
<1>4. GroundOf(r) = InputKey(r)
  BY DEF GroundOf, InputKey
<1>5. IdentityMatches(r, e)
  BY <1>2, <1>3 DEF IdentityMatches, FiledOk
<1>6. e.ground = GroundOf(r) /\ e.source = ReplaySource(r.problem, e.ground, e.lrat)
  BY <1>2, <1>3, <1>4 DEF FiledOk
<1>7. e.verdict = VerdictKey(r.problem, e.ground, e.lrat) /\ LeanAccepts(r.problem, e.lrat)
  BY <1>3 DEF FiledOk
<1>8. ReplayAnswers(r.problem, e.lrat) = {"budget", "foreign axiom", "checked"}
  BY <1>7 DEF ReplayAnswers
<1> HIDE DEF IdentityMatches
<1> QED BY <1>5, <1>6, <1>7, <1>8 DEF CachedAnswers

LEMMA ReadEntryStep ==
    ASSUME EprInvariant, NEW p \in DOMAIN run, ReadEntry(p) PROVE EprInvariant'
<1> DEFINE r == run[p]
           n == [r EXCEPT !.stage = "done", !.outcome = "proved"]
<1>1. r.stage = "entry" /\ UNCHANGED Cache
  BY DEF ReadEntry
<1>2. ASSUME tampers = 0
      PROVE  /\ r.verdict \in DOMAIN entries /\ r.verdict[2] = InputKey(r)
             /\ FiledOk(r.verdict, entries[r.verdict])
  BY <1>1, <1>2, Zenon DEF EprInvariant, CacheOk, ReadsBack
<1>3. CASE r.verdict \notin DOMAIN entries
  <2>1. CacheFailure(p, "entry")
    BY <1>3 DEF ReadEntry
  <2> QED BY <1>1, <1>2, <1>3, <2>1, FailureStep
<1>4. CASE r.verdict \in DOMAIN entries
  <2>1. PICK a \in CachedAnswers(r, entries[r.verdict]) :
            IF a = "hit" THEN EndWith(p, "proved") ELSE CacheFailure(p, a)
    BY <1>4, Zenon DEF ReadEntry
  <2>2. CASE a = "hit"
    <3>1. Become(p, n)
      BY <2>1, <2>2 DEF EndWith
    <3>2. Unsatisfiable(Problem[r.problem])
      BY <2>2, HitAccepted, Zenon DEF LeanAccepts
    <3>3. ProcessOk(r) /\ DOMAIN r = RunFields
      BY DEF EprInvariant, ProcessOk
    <3>4. /\ DOMAIN n = RunFields /\ n.problem = r.problem /\ n.guessed = r.guessed
          /\ n.blocked = r.blocked /\ n.stage = "done" /\ n.outcome = "proved"
      BY <3>3, EndedFields
    <3> HIDE DEF n
    <3>5. HidesNothing(Problem[n.problem], n)
      BY <1>1, <3>3, <3>4, AtWork, SameHidden
    <3>6. Justified(Problem[n.problem], n)
      BY <3>2, <3>4, <3>5 DEF Justified
    <3>7. ProcessOk(n)
      BY <1>1, <3>3, <3>4, <3>6, AtWork DEF ProcessOk
    <3>8. tampers = 0 => ReadsBack(n)
      BY <3>4 DEF ReadsBack
    <3> QED BY <1>1, <3>1, <3>7, <3>8, OneMoves
  <2>3. CASE a # "hit"
    <3>1. CacheFailure(p, a)
      BY <2>1, <2>3
    <3>2. tampers = 0 => a = "lean failed"
      BY <1>2, <2>3, OwnEntryReads
    <3> QED BY <1>1, <3>1, <3>2, FailureStep
  <2> QED BY <2>2, <2>3
<1> QED BY <1>3, <1>4

LEMMA GroundStep ==
    ASSUME EprInvariant, NEW p \in DOMAIN run, GroundClause(p) PROVE EprInvariant'
<1>1. run[p].stage # "done" /\ UNCHANGED Cache
  BY DEF GroundClause
<1>2. CASE Become(p, [run[p] EXCEPT !.stage = "solve"])
  BY <1>1, <1>2, MoveStep
<1>3. CASE EndWith(p, "failed")
  BY <1>1, <1>3, EndStep
<1> QED BY <1>2, <1>3 DEF GroundClause

LEMMA ModelStep ==
    ASSUME EprInvariant, NEW p \in DOMAIN run, Model(p) PROVE EprInvariant'
<1> DEFINE r == run[p]
           pr == Problem[r.problem]
<1>1. r.stage = "solve" /\ UNCHANGED Cache
  BY DEF Model
<1>2. PICK true \in Assignments(pr) :
          IF Satisfies(true, ActiveCnf(pr, r.blocked)) /\ MaskReadable(pr, true)
          THEN Become(p, [r EXCEPT !.stage = "examine", !.true = true])
          ELSE EndWith(p, "failed")
  BY Zenon DEF Model
<1>3. CASE Satisfies(true, ActiveCnf(pr, r.blocked)) /\ MaskReadable(pr, true)
  <2> DEFINE n == [r EXCEPT !.stage = "examine", !.true = true]
  <2>1. Become(p, n)
    BY <1>2, <1>3
  <2>2. ProcessOk(r) /\ DOMAIN r = RunFields
    BY DEF EprInvariant, ProcessOk
  <2>3. /\ DOMAIN n = RunFields /\ n.problem = r.problem /\ n.guessed = r.guessed
        /\ n.blocked = r.blocked /\ n.stage = "examine" /\ n.outcome = r.outcome /\ n.true = true
    BY <2>2 DEF RunFields
  <2>4. n.outcome = "none"
    BY <1>1, <2>2, <2>3, AtWork
  <2> HIDE DEF n
  <2>5. HidesNothing(Problem[n.problem], n)
    BY <1>1, <2>2, <2>3, AtWork, SameHidden
  <2>6. Justified(Problem[n.problem], n)
    BY <1>3, <2>3, <2>4, <2>5 DEF Justified
  <2>7. ProcessOk(n)
    BY <1>1, <2>2, <2>3, <2>6, AtWork DEF ProcessOk
  <2>8. tampers = 0 => ReadsBack(n)
    BY <2>3, <2>4 DEF ReadsBack
  <2> QED BY <1>1, <2>1, <2>7, <2>8, OneMoves
<1>4. CASE ~(Satisfies(true, ActiveCnf(pr, r.blocked)) /\ MaskReadable(pr, true))
  <2>1. EndWith(p, "failed")
    BY <1>2, <1>4, Zenon
  <2> QED BY <1>1, <2>1, EndStep
<1> QED BY <1>3, <1>4

LEMMA NoModelStep ==
    ASSUME EprInvariant, NEW p \in DOMAIN run, NoModel(p) \/ NoAnswer(p) \/ Die(p)
    PROVE  EprInvariant'
<1>1. run[p].stage # "done" /\ UNCHANGED Cache
  BY DEF NoModel, NoAnswer, Die
<1>2. CASE NoModel(p)
  <2>1. CASE Become(p, [run[p] EXCEPT !.stage = "certify"])
    BY <1>1, <2>1, MoveStep
  <2>2. CASE EndWith(p, "exhausted")
    BY <1>1, <2>2, EndStep
  <2> QED BY <1>2, <2>1, <2>2 DEF NoModel
<1>3. CASE EndWith(p, "timeout")
  BY <1>1, <1>3, EndStep
<1>4. CASE EndWith(p, "died")
  BY <1>1, <1>4, EndStep
<1> QED BY <1>2, <1>3, <1>4 DEF NoAnswer, Die

(* A mask that is put aside for a reason hides nothing. *)
LEMMA RejectHidesNothing ==
    ASSUME NEW pr, WellFormed(pr), NEW true, MaskReadable(pr, true),
           NEW a \in CheckedCounterexample(pr, MaskOf(pr, true)),
           a.kind \notin {"joint", "fatal"},
           NEW r, HidesNothing(pr, r), NEW n,
           n.blocked = r.blocked \cup {BlockingClause(pr, true)},
           ~n.guessed => ~r.guessed /\ a.kind # "gave up"
    PROVE  HidesNothing(pr, n)
<1> SUFFICES ASSUME OneGroup(pr), ~n.guessed, NEW v \in 0..MachineMax, NEW rels \in pr.family,
                    SourceHolds(pr, MaskAt(pr, v), rels)
             PROVE  Satisfies(TrueVars(pr, MaskAt(pr, v)), n.blocked)
  BY Zenon DEF HidesNothing
<1>1. a.kind = "retry" /\ ~r.guessed
  BY CheckedAnswer
<1>2. \/ \A s \in pr.family : ~SourceHolds(pr, MaskOf(pr, true), s)
      \/ \A w \in 0..MachineMax : MaskAt(pr, w) # MaskOf(pr, true)
  BY <1>1, CheckedAnswer, Zenon
<1>3. MaskAt(pr, v) # MaskOf(pr, true)
  BY <1>2, Zenon
<1>4. \E l \in BlockingClause(pr, true) :
          IF l > 0 THEN l \in TrueVars(pr, MaskAt(pr, v)) ELSE -l \notin TrueVars(pr, MaskAt(pr, v))
  BY <1>3, MaskAtType, OtherMaskPasses, Zenon
<1>5. Satisfies(TrueVars(pr, MaskAt(pr, v)), r.blocked)
  BY <1>1, Zenon DEF HidesNothing
<1> QED BY <1>4, <1>5, Zenon DEF Satisfies

LEMMA RejectStep ==
    ASSUME EprInvariant, NEW p \in DOMAIN run, run[p].stage = "examine", UNCHANGED Cache,
           NEW a \in CheckedCounterexample(Problem[run[p].problem],
                                           MaskOf(Problem[run[p].problem], run[p].true)),
           a.kind \notin {"joint", "fatal"}, Reject(p, a.kind = "gave up")
    PROVE  EprInvariant'
<1> DEFINE r == run[p]
           pr == Problem[r.problem]
           block == BlockingClause(pr, r.true)
           n == [r EXCEPT !.stage = "solve", !.blocked = @ \cup {block},
                          !.guessed = @ \/ (a.kind = "gave up")]
<1>1. ProcessOk(r) /\ DOMAIN r = RunFields
  BY DEF EprInvariant, ProcessOk
<1>2. /\ WellFormed(pr) /\ HidesNothing(pr, r) /\ r.outcome = "none" /\ r.guessed \in BOOLEAN
      /\ r.problem \in DOMAIN Problem \ {""}
      /\ Satisfies(r.true, ActiveCnf(pr, r.blocked)) /\ MaskReadable(pr, r.true)
  BY <1>1, AtWork, Zenon DEF Justified
<1>3. CASE EndWith(p, "timeout")
  BY <1>3, EndStep
<1>4. CASE EndWith(p, "failed")
  BY <1>4, EndStep
<1>5. block \notin r.blocked
  <2>1. ASSUME block \in r.blocked PROVE FALSE
    <3>1. block \in ActiveCnf(pr, r.blocked)
      BY <2>1 DEF ActiveCnf
    <3> QED BY <1>2, <3>1, BlockExcludes
  <2> QED BY <2>1
<1>6. CASE Become(p, n)
  <2>1. /\ DOMAIN n = RunFields /\ n.problem = r.problem /\ n.stage = "solve"
        /\ n.outcome = r.outcome /\ n.blocked = r.blocked \cup {block}
        /\ n.guessed = (r.guessed \/ (a.kind = "gave up"))
    BY <1>1 DEF RunFields
  <2> HIDE DEF n
  <2>2. n.guessed \in BOOLEAN /\ (~n.guessed => ~r.guessed /\ a.kind # "gave up")
    BY <1>2, <2>1
  <2>3. HidesNothing(pr, n)
    BY <1>2, <2>1, <2>2, RejectHidesNothing
  <2>4. Justified(Problem[n.problem], n)
    BY <1>2, <2>1, <2>3 DEF Justified
  <2>5. ProcessOk(n)
    BY <1>2, <2>1, <2>2, <2>4 DEF ProcessOk
  <2>6. tampers = 0 => ReadsBack(n)
    BY <1>2, <2>1 DEF ReadsBack
  <2> QED BY <1>6, <2>5, <2>6, OneMoves
<1> QED BY <1>3, <1>4, <1>5, <1>6, Zenon DEF Reject

LEMMA ExamineStep ==
    ASSUME EprInvariant, NEW p \in DOMAIN run, Examine(p) PROVE EprInvariant'
<1> DEFINE r == run[p]
           pr == Problem[r.problem]
<1>1. r.stage = "examine" /\ UNCHANGED Cache
  BY DEF Examine
<1>2. PICK a \in CheckedCounterexample(pr, MaskOf(pr, r.true)) :
          CASE a.kind = "joint" -> Become(p, [r EXCEPT !.stage = "done", !.value = a.value,
                                                       !.outcome = "counterexample"])
            [] a.kind = "fatal" -> EndWith(p, "failed")
            [] OTHER            -> Reject(p, a.kind = "gave up")
  BY Zenon DEF Examine
<1>3. CASE a.kind = "joint"
  <2> DEFINE n == [r EXCEPT !.stage = "done", !.value = a.value, !.outcome = "counterexample"]
  <2>1. Become(p, n)
    BY <1>2, <1>3
  <2>2. ProcessOk(r) /\ DOMAIN r = RunFields
    BY DEF EprInvariant, ProcessOk
  <2>3. /\ DOMAIN n = RunFields /\ n.problem = r.problem /\ n.guessed = r.guessed
        /\ n.blocked = r.blocked /\ n.stage = "done" /\ n.outcome = "counterexample"
        /\ n.true = r.true /\ n.value = a.value
    BY <2>2 DEF RunFields
  <2> HIDE DEF n
  <2>4. HidesNothing(Problem[n.problem], n)
    BY <1>1, <2>2, <2>3, AtWork, SameHidden
  <2>5. WellFormed(pr)
    BY <1>1, <2>2, AtWork
  <2>6. RefutedBy(Problem[n.problem], n)
    BY <1>3, <2>3, <2>5, CheckedAnswer, Zenon DEF RefutedBy
  <2>7. Justified(Problem[n.problem], n)
    BY <2>3, <2>4, <2>6 DEF Justified
  <2>8. ProcessOk(n)
    BY <1>1, <2>2, <2>3, <2>7, AtWork DEF ProcessOk
  <2>9. tampers = 0 => ReadsBack(n)
    BY <2>3 DEF ReadsBack
  <2> QED BY <1>1, <2>1, <2>8, <2>9, OneMoves
<1>4. CASE a.kind = "fatal"
  <2>1. EndWith(p, "failed")
    BY <1>2, <1>4
  <2> QED BY <1>1, <2>1, EndStep
<1>5. CASE a.kind # "joint" /\ a.kind # "fatal"
  <2>1. Reject(p, a.kind = "gave up")
    BY <1>2, <1>5, Zenon
  <2> QED BY <1>1, <1>5, <2>1, RejectStep
<1> QED BY <1>3, <1>4, <1>5

LEMMA CertifyStep ==
    ASSUME EprInvariant, NEW p \in DOMAIN run, Certify(p) PROVE EprInvariant'
<1> DEFINE r == run[p]
<1>1. r.stage = "certify" /\ UNCHANGED Cache
  BY DEF Certify
<1>2. PICK lrat \in Certificates : \E a \in ReplayAnswers(r.problem, lrat) :
          CASE a = "checked" ->
                 Become(p, [r EXCEPT !.stage = "store", !.lrat = lrat, !.writes = StoreOrder,
                                     !.verdict = VerdictKey(r.problem, GroundOf(r), lrat)])
            [] a = "budget"  -> EndWith(p, "timeout")
            [] OTHER         -> EndWith(p, "failed")
  BY Zenon DEF Certify
<1>3. PICK a \in ReplayAnswers(r.problem, lrat) :
          CASE a = "checked" ->
                 Become(p, [r EXCEPT !.stage = "store", !.lrat = lrat, !.writes = StoreOrder,
                                     !.verdict = VerdictKey(r.problem, GroundOf(r), lrat)])
            [] a = "budget"  -> EndWith(p, "timeout")
            [] OTHER         -> EndWith(p, "failed")
  BY <1>2, Zenon
<1>4. CASE a = "checked"
  <2> DEFINE n == [r EXCEPT !.stage = "store", !.lrat = lrat, !.writes = StoreOrder,
                            !.verdict = VerdictKey(r.problem, GroundOf(r), lrat)]
  <2>1. Become(p, n)
    BY <1>3, <1>4
  <2>2. LeanAccepts(r.problem, lrat)
    BY <1>4 DEF ReplayAnswers
  <2>3. ProcessOk(r) /\ DOMAIN r = RunFields
    BY DEF EprInvariant, ProcessOk
  <2>4. /\ DOMAIN n = RunFields /\ n.problem = r.problem /\ n.guessed = r.guessed
        /\ n.blocked = r.blocked /\ n.stage = "store" /\ n.outcome = r.outcome
        /\ n.lrat = lrat /\ n.writes = StoreOrder /\ n.lean = r.lean
        /\ n.verdict = VerdictKey(r.problem, GroundOf(r), lrat)
    BY <2>3 DEF RunFields
  <2>5. n.outcome = "none"
    BY <1>1, <2>3, <2>4, AtWork
  <2>6. GroundOf(n) = GroundOf(r)
    BY <2>4 DEF GroundOf
  <2> HIDE DEF n
  <2>7. HidesNothing(Problem[n.problem], n)
    BY <1>1, <2>3, <2>4, AtWork, SameHidden
  <2>8. ToStore(Problem[n.problem], n)
    BY <2>2, <2>4, <2>6 DEF ToStore, LeanAccepts
  <2>9. Justified(Problem[n.problem], n)
    BY <2>4, <2>5, <2>7, <2>8 DEF Justified
  <2>10. ProcessOk(n)
    BY <1>1, <2>3, <2>4, <2>9, AtWork DEF ProcessOk
  <2>11. tampers = 0 => ReadsBack(n)
    BY <2>4, <2>5 DEF ReadsBack
  <2> QED BY <1>1, <2>1, <2>10, <2>11, OneMoves
<1>5. CASE a = "budget"
  <2>1. EndWith(p, "timeout")
    BY <1>3, <1>5
  <2> QED BY <1>1, <2>1, EndStep
<1>6. CASE a # "checked" /\ a # "budget"
  <2>1. EndWith(p, "failed")
    BY <1>3, <1>6, Zenon
  <2> QED BY <1>1, <2>1, EndStep
<1> QED BY <1>4, <1>5, <1>6

LEMMA WriteOrder ==
    /\ Head(StoreOrder) = "entry" /\ Tail(StoreOrder) = <<"index">>
    /\ Head(<<"index">>) = "index" /\ Tail(<<"index">>) = <<>>
    /\ StoreOrder # <<"index">> /\ StoreOrder # <<>>
BY DEF StoreOrder

(* What a process stores is what the digest says. *)
LEMMA StoredEntryOk ==
    ASSUME NEW r, ToStore(Problem[r.problem], r)
    PROVE  FiledOk(r.verdict, CachedEntry(r, r.lrat)) /\ r.verdict[2] = InputKey(r)
<1>1. InputKey(r) = GroundOf(r) /\ InputKey(r)[1] = r.problem
  BY DEF InputKey, GroundOf
<1>2. r.verdict[2] = InputKey(r)
  <2>1. r.verdict = VerdictKey(r.problem, GroundOf(r), r.lrat)
    BY DEF ToStore
  <2> QED BY <1>1, <2>1, KeyParts
<1>3. LeanAccepts(r.problem, r.lrat)
  BY DEF ToStore, LeanAccepts
<1> QED BY <1>1, <1>2, <1>3 DEF FiledOk, CachedEntry, ToStore

LEMMA StoreStep ==
    ASSUME EprInvariant, NEW p \in DOMAIN run, StoreNext(p) PROVE EprInvariant'
<1> DEFINE r == run[p]
           n == [r EXCEPT !.writes = Tail(@)]
<1>1. r.stage = "store" /\ r.writes # <<>> /\ Become(p, n) /\ tampers' = tampers
  BY DEF StoreNext
<1>2. ProcessOk(r) /\ DOMAIN r = RunFields
  BY DEF EprInvariant, ProcessOk
<1>3. r.problem \in DOMAIN Problem \ {""} /\ ToStore(Problem[r.problem], r) /\ r.outcome = "none"
  BY <1>1, <1>2, AtWork DEF Justified
<1>4. /\ DOMAIN n = RunFields /\ n.problem = r.problem /\ n.guessed = r.guessed
      /\ n.blocked = r.blocked /\ n.stage = "store" /\ n.outcome = r.outcome
      /\ n.lrat = r.lrat /\ n.lean = r.lean /\ n.verdict = r.verdict /\ n.writes = Tail(r.writes)
  BY <1>1, <1>2 DEF RunFields
<1>5. \/ r.writes = StoreOrder /\ Head(r.writes) = "entry" /\ n.writes = <<"index">>
      \/ r.writes = <<"index">> /\ Head(r.writes) = "index" /\ n.writes = <<>>
  BY <1>1, <1>3, <1>4, WriteOrder, Zenon DEF ToStore
<1>6. GroundOf(n) = GroundOf(r)
  BY <1>4 DEF GroundOf
<1>7. DOMAIN run' = DOMAIN run /\ \A q \in DOMAIN run : run'[q] = IF q = p THEN n ELSE run[q]
  BY <1>1 DEF Become
<1> HIDE DEF n
<1>8. ProcessOk(n)
  <2>1. HidesNothing(Problem[n.problem], n)
    BY <1>1, <1>2, <1>4, AtWork, SameHidden
  <2>2. ToStore(Problem[n.problem], n)
    BY <1>3, <1>4, <1>5, <1>6, Zenon DEF ToStore
  <2>3. Justified(Problem[n.problem], n)
    BY <1>3, <1>4, <2>1, <2>2 DEF Justified
  <2> QED BY <1>1, <1>2, <1>4, <2>3, AtWork DEF ProcessOk
<1>9. (tampers \in Nat)' /\ \A q \in DOMAIN run' : ProcessOk(run'[q])
  BY <1>1, <1>7, <1>8 DEF EprInvariant
<1>10. FiledOk(r.verdict, CachedEntry(r, r.lrat)) /\ r.verdict[2] = InputKey(r)
  BY <1>3, StoredEntryOk
<1>11. ASSUME tampers' = 0 PROVE CacheOk'
  <2>1. /\ \A d \in DOMAIN entries : FiledOk(d, entries[d])
        /\ \A k \in DOMAIN index : index[k] \in DOMAIN entries /\ index[k][2] = k
        /\ \A q \in DOMAIN run : ReadsBack(run[q])
    BY <1>1, <1>11 DEF EprInvariant, CacheOk
  <2>2. ASSUME \A d \in DOMAIN entries : d \in DOMAIN entries', r.verdict \in DOMAIN entries'
        PROVE  \A q \in DOMAIN run' : ReadsBack(run[q])'
    <3>1. ASSUME NEW q \in DOMAIN run PROVE ReadsBack(run[q])'
      <4>1. CASE q = p
        <5>1. run'[q] = n
          BY <1>7, <4>1
        <5> QED BY <1>3, <1>4, <2>2, <5>1 DEF ReadsBack
      <4>2. CASE q # p
        <5>1. run'[q] = run[q]
          BY <1>7, <4>2
        <5>2. InputKey(run'[q]) = InputKey(run[q])
          BY <5>1
        <5> QED BY <2>1, <2>2, <5>1, <5>2 DEF ReadsBack
      <4> QED BY <4>1, <4>2
    <3> QED BY <1>7, <3>1
  <2>3. CASE Head(r.writes) = "entry"
    <3> DEFINE e == CachedEntry(r, r.lrat)
    <3>1. entries' = Bind(entries, r.verdict, e) /\ index' = index
      BY <2>3 DEF StoreNext
    <3> HIDE DEF e
    <3>2. /\ DOMAIN entries' = DOMAIN entries \cup {r.verdict} /\ entries'[r.verdict] = e
          /\ \A d \in DOMAIN entries : d # r.verdict => entries'[d] = entries[d]
      BY <3>1 DEF Bind
    <3>3. \A d \in DOMAIN entries' : FiledOk(d, entries'[d])
      BY <1>10, <2>1, <3>2, Zenon DEF e
    <3>4. \A k \in DOMAIN index' : index'[k] \in DOMAIN entries' /\ index'[k][2] = k
      BY <2>1, <3>1, <3>2
    <3>5. \A q \in DOMAIN run' : ReadsBack(run[q])'
      BY <2>2, <3>2
    <3> QED BY <3>3, <3>4, <3>5 DEF CacheOk
  <2>4. CASE Head(r.writes) # "entry"
    <3> DEFINE key == InputKey(r)
    <3>1. index' = Bind(index, key, r.verdict) /\ entries' = entries
      BY <2>4 DEF StoreNext
    <3>2. r.verdict \in DOMAIN entries
      BY <1>1, <1>5, <2>1, <2>4, WriteOrder, Zenon DEF ReadsBack
    <3> HIDE DEF key
    <3>3. /\ DOMAIN index' = DOMAIN index \cup {key} /\ index'[key] = r.verdict
          /\ \A k \in DOMAIN index : k # key => index'[k] = index[k]
      BY <3>1 DEF Bind
    <3>4. \A k \in DOMAIN index' : index'[k] \in DOMAIN entries' /\ index'[k][2] = k
      BY <1>10, <2>1, <3>1, <3>2, <3>3, Zenon DEF key
    <3>5. \A q \in DOMAIN run' : ReadsBack(run[q])'
      BY <2>2, <3>1, <3>2
    <3> QED BY <2>1, <3>1, <3>4, <3>5 DEF CacheOk
  <2> QED BY <2>3, <2>4
<1> QED BY <1>9, <1>11 DEF EprInvariant

LEMMA StoredStep ==
    ASSUME EprInvariant, NEW p \in DOMAIN run, Stored(p) PROVE EprInvariant'
<1> DEFINE r == run[p]
           n == [r EXCEPT !.stage = "done", !.outcome = "proved"]
<1>1. r.stage = "store" /\ UNCHANGED Cache /\ Become(p, n)
  BY DEF Stored, EndWith
<1>2. ProcessOk(r) /\ DOMAIN r = RunFields
  BY DEF EprInvariant, ProcessOk
<1>3. Unsatisfiable(Problem[r.problem])
  BY <1>1, <1>2, AtWork DEF Justified, ToStore
<1>4. /\ DOMAIN n = RunFields /\ n.problem = r.problem /\ n.guessed = r.guessed
      /\ n.blocked = r.blocked /\ n.stage = "done" /\ n.outcome = "proved"
  BY <1>2, EndedFields
<1> HIDE DEF n
<1>5. HidesNothing(Problem[n.problem], n)
  BY <1>1, <1>2, <1>4, AtWork, SameHidden
<1>6. Justified(Problem[n.problem], n)
  BY <1>3, <1>4, <1>5 DEF Justified
<1>7. ProcessOk(n)
  BY <1>1, <1>2, <1>4, <1>6, AtWork DEF ProcessOk
<1>8. tampers = 0 => ReadsBack(n)
  BY <1>4 DEF ReadsBack
<1> QED BY <1>1, <1>7, <1>8, OneMoves

LEMMA TamperStep ==
    ASSUME EprInvariant, NEW p \in DOMAIN run, TamperIndex(p) \/ TamperEntry(p)
    PROVE  EprInvariant'
<1>1. tampers' = tampers + 1 /\ run' = run
  BY DEF TamperIndex, TamperEntry
<1>2. tampers' \in Nat /\ tampers' # 0
  BY <1>1 DEF EprInvariant
<1> QED BY <1>1, <1>2 DEF EprInvariant

LEMMA StartedFields ==
    ASSUME NEW w
    PROVE  LET r == Started(w)
           IN  /\ DOMAIN r = RunFields /\ r.guessed = FALSE /\ r.blocked = {} /\ r.outcome = "none"
               /\ r.problem = w.problem /\ r.stage = IF w = NoWork THEN "done" ELSE "open"
BY DEF Started, RunFields

LEMMA EprInitial == ASSUME EprInit PROVE EprInvariant
<1>1. PICK work \in Assigned : run = [p \in DOMAIN work |-> Started(work[p])]
  BY Zenon DEF EprInit
<1>2. DOMAIN index = {} /\ DOMAIN entries = {} /\ tampers = 0
  BY NoLeaves, Zenon DEF EprInit
<1>3. ASSUME NEW p \in DOMAIN run PROVE ProcessOk(run[p]) /\ ReadsBack(run[p])
  <2> DEFINE w == work[p]
             r == run[p]
  <2>1. p \in DOMAIN work /\ r = Started(w)
    BY <1>1, <1>3
  <2>2. w = NoWork \/ w.problem \in DOMAIN Problem \ {""}
    <3>1. w = NoWork \/ w \in [problem : DOMAIN Problem \ {""}, lean : Nat]
      BY <2>1, EprAssumption, Zenon
    <3> HIDE DEF w
    <3> QED BY <3>1
  <2> HIDE DEF w
  <2>3. /\ DOMAIN r = RunFields /\ r.guessed = FALSE /\ r.blocked = {} /\ r.outcome = "none"
        /\ r.problem = w.problem /\ r.stage = IF w = NoWork THEN "done" ELSE "open"
    BY <2>1, StartedFields, Zenon
  <2> HIDE DEF r
  <2>4. ReadsBack(r)
    BY <2>3 DEF ReadsBack
  <2>5. CASE w = NoWork
    <3>1. r.problem = "" /\ r.stage = "done"
      BY <2>3, <2>5 DEF NoWork
    <3> QED BY <2>3, <2>4, <3>1 DEF ProcessOk, r
  <2>6. CASE w # NoWork
    <3>1. r.problem \in DOMAIN Problem \ {""} /\ r.stage = "open"
      BY <2>2, <2>3, <2>6
    <3>2. \A true : Satisfies(true, r.blocked)
      BY <2>3 DEF Satisfies
    <3>3. HidesNothing(Problem[r.problem], r)
      BY <3>2 DEF HidesNothing
    <3>4. Justified(Problem[r.problem], r)
      BY <2>3, <3>1, <3>3 DEF Justified
    <3> QED BY <2>3, <2>4, <3>1, <3>4 DEF ProcessOk, r
  <2> QED BY <2>5, <2>6
<1> QED BY <1>2, <1>3 DEF EprInvariant, CacheOk

LEMMA EprStep == ASSUME EprInvariant, [EprNext]_eprVars PROVE EprInvariant'
<1>1. CASE UNCHANGED eprVars
  <2>1. run' = run /\ index' = index /\ entries' = entries /\ tampers' = tampers
    BY <1>1 DEF eprVars
  <2> QED BY <2>1 DEF EprInvariant, CacheOk, ReadsBack
<1>2. ASSUME NEW p \in DOMAIN run,
             \/ Open(p) \/ ReadIndex(p) \/ ReadEntry(p) \/ GroundClause(p)
             \/ Model(p) \/ NoModel(p) \/ NoAnswer(p) \/ Examine(p)
             \/ Certify(p) \/ StoreNext(p) \/ Stored(p) \/ Die(p)
             \/ TamperIndex(p) \/ TamperEntry(p)
      PROVE  EprInvariant'
  BY <1>2, OpenStep, ReadIndexStep, ReadEntryStep, GroundStep, ModelStep, NoModelStep,
     ExamineStep, CertifyStep, StoreStep, StoredStep, TamperStep, Zenon
<1> QED BY <1>1, <1>2, Zenon DEF EprNext

LEMMA EprInvariantIsEnough ==
    ASSUME EprInvariant
    PROVE  ReconstructedIsValid /\ CountermodelIsReal /\ BlockedIsHopeless /\ CacheReadsBack
<1>1. ReconstructedIsValid
  <2> SUFFICES ASSUME NEW p \in DOMAIN run, run[p].outcome = "proved"
               PROVE  ~Refutable(Problem[run[p].problem])
    BY DEF ReconstructedIsValid
  <2>1. run[p].problem \in DOMAIN Problem /\ Unsatisfiable(Problem[run[p].problem])
    BY DEF EprInvariant, ProcessOk, Justified
  <2> QED BY <2>1, ProblemsFormed, UnsatisfiableIsValid
<1>2. CountermodelIsReal
  <2> SUFFICES ASSUME NEW p \in DOMAIN run, run[p].outcome = "counterexample"
               PROVE  LET pr == Problem[run[p].problem] mask == MaskOf(pr, run[p].true) IN
                      /\ \E rels \in pr.family : SourceHolds(pr, mask, rels)
                      /\ pr.qfree # <<>> => mask = MaskAt(pr, run[p].value)
                      /\ pr.qfree = <<>> \/ run[p].value \in 0..MachineMax => Refutable(pr)
    BY Zenon DEF CountermodelIsReal
  <2>1. run[p].problem \in DOMAIN Problem /\ RefutedBy(Problem[run[p].problem], run[p])
    BY DEF EprInvariant, ProcessOk, Justified
  <2>2. WellFormed(Problem[run[p].problem])
    BY <2>1, ProblemsFormed
  <2> QED BY <2>1, <2>2, CounterexampleRefutes, Zenon DEF RefutedBy
<1>3. BlockedIsHopeless
  <2> SUFFICES ASSUME NEW p \in DOMAIN run, run[p].problem # ""
               PROVE  run[p].outcome # "repeated" /\ HidesNothing(Problem[run[p].problem], run[p])
    BY Zenon DEF BlockedIsHopeless, HidesNothing
  <2> QED BY DEF EprInvariant, ProcessOk, Justified
<1>4. CacheReadsBack
  BY Zenon DEF CacheReadsBack, EprInvariant, CacheOk, ReadsBack
<1> QED BY <1>1, <1>2, <1>3, <1>4

(***************************************************************************)
(* The stages together.                                                    *)
(***************************************************************************)

(* The stages do not disturb the checks: what is proved of a history of
   checks is true of the composition too. *)
THEOREM StagesKeepChecks == ForgeSpec => Spec
<1>1. ForgeInit => Init
  BY Zenon DEF ForgeInit, NoChecks
<1>2. [ForgeNext]_forgeVars => [Next]_vars
  BY DEF ForgeNext, forgeVars
<1> QED
  BY <1>1, <1>2, PTL DEF ForgeSpec, Spec

StagesInv ==
    /\ focus = "route" => RouteInvariant
    /\ focus = "clause" => EprInvariant

LEMMA StagesInitial == ForgeInit => StagesInv
<1> SUFFICES ASSUME ForgeInit PROVE StagesInv
  OBVIOUS
<1>1. ASSUME focus = "route" PROVE RouteInvariant
  <2>1. RouteInit
    BY <1>1 DEF ForgeInit
  <2> QED BY <2>1, RouteInitial
<1>2. ASSUME focus = "clause" PROVE EprInvariant
  <2>1. EprInit
    BY <1>2 DEF ForgeInit
  <2> QED BY <2>1, EprInitial
<1> QED BY <1>1, <1>2 DEF StagesInv

LEMMA StagesInductive == StagesInv /\ [ForgeNext]_forgeVars => StagesInv'
<1> SUFFICES ASSUME StagesInv, [ForgeNext]_forgeVars PROVE StagesInv'
  OBVIOUS
<1>1. focus' = focus
  BY DEF ForgeNext, forgeVars
<1>2. ASSUME focus = "route" PROVE RouteInvariant'
  <2>1. RouteInvariant /\ [RouteNext]_routeVars
    BY <1>2 DEF StagesInv, ForgeNext, forgeVars
  <2> QED BY <2>1, RouteStep
<1>3. ASSUME focus = "clause" PROVE EprInvariant'
  <2>1. EprInvariant /\ [EprNext]_eprVars
    BY <1>3 DEF StagesInv, ForgeNext, forgeVars
  <2> QED BY <2>1, EprStep
<1> QED BY <1>1, <1>2, <1>3 DEF StagesInv

(* engine.rs and epr_reconstruct.rs: whatever the engines, the solvers and the
   cache answer and wherever a process dies, a certificate of a proof is the
   proof of every clause of the contract, the default route undoes what a gate
   said only for a function all of whose contract the bit-vector or the EPR
   engine proved, a clause that is reconstructed holds, a countermodel is one,
   a mask that was put aside hides none, and a cache that nobody touched is
   called tampered with only where Lean fails to replay it. *)
THEOREM StagesSound == ForgeSpec => []RoutesSound
<1>1. StagesInv => RoutesSound
  BY RouteInvariantIsEnough, EprInvariantIsEnough, Zenon DEF StagesInv, RoutesSound
<1> QED
  BY <1>1, StagesInitial, StagesInductive, PTL DEF ForgeSpec
====
