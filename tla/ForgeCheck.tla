-------------------------------- MODULE ForgeCheck --------------------------------
(***************************************************************************)
(* forge check of one function over the shared proof cache: lookup,        *)
(* solver-vacuity gate, Verus, the L3 -> L2 -> L1 ladder, the mutation     *)
(* gate, the strengthening probes, and the store (forge/src/check.rs,      *)
(* cache.rs, degrade.rs, mutation.rs, strengthen.rs, engine.rs).           *)
(*                                                                         *)
(* A function is a body under a contract; its lowered source, and so its   *)
(* cache key, is that pair (seed and versions are fixed).  A mutant is     *)
(* another body under the same contract, a strengthening candidate the     *)
(* same body under another contract, and an author may write any of them.  *)
(* Several forge processes share the cache directory.  What the provers    *)
(* say of a source is unknown but fixed: it is chosen once, in Init.       *)
(***************************************************************************)
EXTENDS Integers, FiniteSets

CONSTANTS Bodies, Contracts,
          Mutations,     \* Mutations[b]: the bodies mutation::generate makes of b
          Stronger,      \* Stronger[c]: the ens that strengthen generates for c
          Outcomes,      \* what Verus may answer
          Processes, MaxChecks, None

ASSUME ForgeAssumption ==
    /\ Mutations \in [Bodies -> SUBSET Bodies]
    /\ \A b \in Bodies : IsFiniteSet(Mutations[b])
    /\ Stronger \in [Contracts -> SUBSET Contracts]
    /\ Outcomes \subseteq {"proved", "refuted", "timeout", "unknown"}
    /\ MaxChecks \in Nat

Funs == Bodies \X Contracts

VARIABLES verus,      \* the answer at the default budget, per source
          vacuous,    \* contracts the vacuity harness rejects
          equal,      \* can Verus prove a mutant equivalent to the body?
          cache,      \* target/thermite-proof-cache
          proc,       \* the check each process is in
          checks,     \* checks started so far
          items, probes  \* sources stored as an item, and as a probe

world == <<verus, vacuous, equal>>
vars  == <<world, cache, proc, checks, items, probes>>

(***************************************************************************)
(* Certificates.                                                           *)
(***************************************************************************)
Cert(level, reject, failed, lowered) ==
    [level |-> level, reject |-> reject, failed |-> failed, lowered |-> lowered]

L3Cert   == Cert(3, None, FALSE, FALSE)
Refuted  == Cert(0, None, TRUE, FALSE)
Rejected(cause) == Cert(0, cause, TRUE, FALSE)

(* Certificate::into_degraded of the certificate of a lower rung. *)
Degraded(level) == Cert(level, None, FALSE, TRUE)

(* assemble_certificate *)
Assembled(v) ==
    CASE v = "proved"  -> L3Cert
      [] v = "timeout" -> Rejected("VerusTimeout")
      [] OTHER         -> Refuted

(* cert_certifies *)
Certifies(cert) == cert.reject = None /\ cert.level > 0

(* ladder_after_timeout: kani verifies, runs out of its bound, or refutes. *)
AfterTimeout == {Degraded(2), Degraded(1), Refuted}

(* verdict_of: a failure without a witness is as inconclusive as a timeout. *)
Undecided(v) == v \in {"timeout", "unknown"}

(* Mutant: a counterexample takes the degrade edge as well. *)
LadderDegradesAll(v) == IF v = "proved" THEN {L3Cert} ELSE AfterTimeout

(* run_ladder: a counterexample never degrades. *)
Ladder(v) == IF Undecided(v) THEN AfterTimeout ELSE {Assembled(v)}

(***************************************************************************)
(* The cache.                                                              *)
(***************************************************************************)

(* is_internally_consistent *)
Consistent(cert) == cert.reject # None \/ ~cert.failed

(* load: an entry that contradicts itself is a miss. *)
Hit(x) == cache[x] # None /\ Consistent(cache[x])

(* Only the canonical budget and floor use the cache. *)
UseCache(opt) == opt = "default"

(* Mutant: whatever was concluded is stored. *)
SettledAlways(cert) == TRUE

(* A timeout, or a certificate that was degraded, is not stored. *)
Settled(cert) == cert.reject # "VerusTimeout" /\ ~cert.lowered

(* store: the entry is renamed into place, or an I/O error is ignored. *)
Store(x, cert) == cache' \in {cache, [cache EXCEPT ![x] = cert]}

(***************************************************************************)
(* The checks.                                                             *)
(***************************************************************************)
Idle == [pc |-> "idle", fun |-> None, opt |-> None, cert |-> None,
         todo |-> {}, killed |-> 0, scored |-> 0, survivor |-> None,
         cached |-> FALSE]

Init ==
    /\ verus \in [Funs -> Outcomes]
    /\ vacuous \in SUBSET Contracts
    /\ equal \in BOOLEAN
    /\ cache = [x \in Funs |-> None]
    /\ proc = [p \in Processes |-> Idle]
    /\ checks = 0 /\ items = {} /\ probes = {}

(* What Verus answers; a budget of the user's own may run out earlier. *)
Answers(x, opt) == IF opt = "default" THEN {verus[x]} ELSE {verus[x], "timeout"}

Step(p, new) == proc' = [proc EXCEPT ![p] = new]

(* An author starts forge check with the default or with other options. *)
Start(p, x, opt) ==
    /\ proc[p].pc \in {"idle", "done"} /\ checks < MaxChecks
    /\ Step(p, [Idle EXCEPT !.pc = "lookup", !.fun = x, !.opt = opt])
    /\ checks' = checks + 1
    /\ UNCHANGED <<world, cache, items, probes>>

(* The lookup: a hit is the verdict, a miss goes on to the gates. *)
Lookup(p) ==
    LET r == proc[p] IN
    /\ r.pc = "lookup"
    /\ IF UseCache(r.opt) /\ Hit(r.fun)
       THEN Step(p, [r EXCEPT !.pc = "done", !.cert = cache[r.fun], !.cached = TRUE])
       ELSE Step(p, [r EXCEPT !.pc = "judge"])
    /\ UNCHANGED <<world, cache, checks, items, probes>>

(* solver_vacuity_check; a budget of the user's own may also miss it. *)
Vacuity(r) == IF r.fun[2] \in vacuous THEN {Rejected("Vacuous")} ELSE {}

(* run_verus and the ladder, if the vacuity gate let the function pass. *)
Contracted(r) ==
    IF r.fun[2] \in vacuous /\ r.opt = "default" THEN {}
    ELSE UNION {Ladder(v) : v \in Answers(r.fun, r.opt)}

(* The vacuity gate, the proof and the ladder.  Only a proved function is
   scored, against the mutants of its body. *)
Judge(p) ==
    LET r == proc[p] IN
    /\ r.pc = "judge"
    /\ \E cert \in Vacuity(r) \cup Contracted(r) :
          Step(p, IF cert = L3Cert
                  THEN [r EXCEPT !.pc = "score", !.cert = cert,
                                 !.todo = Mutations[r.fun[1]] \X {r.fun[2]}]
                  ELSE [r EXCEPT !.pc = "store", !.cert = cert])
    /\ UNCHANGED <<world, cache, checks, items, probes>>

(* mutant_cert_is_survivor *)
Survives(cert) == cert.level = 3 /\ cert.reject = None

(* Verify the source m for the check r: serve the cached certificate, or run
   Verus and store what it said; proved tells the caller the answer. *)
Verify(r, m, proved) ==
    IF UseCache(r.opt) /\ Hit(m)
    THEN /\ proved = Survives(cache[m])
         /\ UNCHANGED <<cache, probes>>
    ELSE \E v \in Answers(m, r.opt) :
         /\ proved = (v = "proved")
         /\ IF UseCache(r.opt)
            THEN Store(m, Assembled(v)) /\ probes' = probes \cup {m}
            ELSE UNCHANGED <<cache, probes>>

(* equivalence_proves_equal *)
ProvesEqual(opt) == IF opt = "default" THEN {equal} ELSE {equal, FALSE}

(* One round of mutation_score: a killed mutant counts, a survivor that is
   proved equivalent does not, any other survivor counts against the body. *)
Score(p) ==
    LET r == proc[p] IN
    /\ r.pc = "score"
    /\ \E m \in r.todo, proved \in BOOLEAN, same \in ProvesEqual(r.opt) :
          /\ Verify(r, m, proved)
          /\ LET rest == [r EXCEPT !.todo = r.todo \ {m}]
             IN Step(p, IF proved /\ same THEN rest
                        ELSE IF proved
                        THEN [rest EXCEPT !.scored = r.scored + 1,
                                          !.survivor = IF r.survivor = None THEN m[1] ELSE r.survivor]
                        ELSE [rest EXCEPT !.scored = r.scored + 1, !.killed = r.killed + 1])
    /\ UNCHANGED <<world, checks, items>>

(* kill_ratio and meets_floor at MUTATION_FLOOR: 0/0 does not pass. *)
MeetsFloor(killed, scored) == scored > 0 /\ 10 * killed >= 6 * scored

(* The mutation gate; a floor of the user's own may lie anywhere. *)
Gate(p) ==
    LET r == proc[p] IN
    /\ r.pc = "score" /\ r.todo = {}
    /\ \E met \in IF r.opt = "default" THEN {MeetsFloor(r.killed, r.scored)} ELSE BOOLEAN :
          Step(p, IF met
                  THEN [r EXCEPT !.pc = "probe", !.todo = {r.fun[1]} \X Stronger[r.fun[2]]]
                  ELSE [r EXCEPT !.pc = "store", !.cert = Rejected("WeakContract")])
    /\ UNCHANGED <<world, cache, checks, items, probes>>

(* One round of strengthen::probe: a candidate that holds of the body is also
   tried on the survivor.  The certificate's verdict does not depend on it. *)
Probe(p) ==
    LET r == proc[p] IN
    /\ r.pc = "probe"
    /\ \E s \in r.todo, proved \in BOOLEAN :
          /\ Verify(r, s, proved)
          /\ Step(p, [r EXCEPT !.todo = (r.todo \ {s}) \cup
                          IF proved /\ s[1] = r.fun[1] /\ r.survivor # None
                          THEN {<<r.survivor, s[2]>>} ELSE {}])
    /\ UNCHANGED <<world, checks, items>>

ProbesDone(p) ==
    /\ proc[p].pc = "probe" /\ proc[p].todo = {}
    /\ Step(p, [proc[p] EXCEPT !.pc = "store"])
    /\ UNCHANGED <<world, cache, checks, items, probes>>

(* The certificate is stored if it is settled, and delivered. *)
Finish(p) ==
    LET r == proc[p] IN
    /\ r.pc = "store"
    /\ Step(p, [r EXCEPT !.pc = "done"])
    /\ IF UseCache(r.opt) /\ Settled(r.cert)
       THEN Store(r.fun, r.cert) /\ items' = items \cup {r.fun}
       ELSE UNCHANGED <<cache, items>>
    /\ UNCHANGED <<world, checks, probes>>

(* A prover that cannot be run, or a crash, ends the check without a verdict. *)
Abort(p) ==
    /\ proc[p].pc \notin {"idle", "done"}
    /\ Step(p, Idle)
    /\ UNCHANGED <<world, cache, checks, items, probes>>

Next == \E p \in Processes :
    \/ \E x \in Funs, opt \in {"default", "other"} : Start(p, x, opt)
    \/ Lookup(p) \/ Judge(p) \/ Score(p) \/ Gate(p) \/ Probe(p) \/ ProbesDone(p)
    \/ Finish(p) \/ Abort(p)

Spec == Init /\ [][Next]_vars

(***************************************************************************)
(* Properties.                                                             *)
(***************************************************************************)

(* The mutants of x that count, and those that Verus can prove. *)
MutantsOf(x) == Mutations[x[1]] \X {x[2]}
Proved(S)    == {m \in S : verus[m] = "proved"}
Counted(x)   == IF equal THEN MutantsOf(x) \ Proved(MutantsOf(x)) ELSE MutantsOf(x)

(* The verdicts that a check with an empty cache can reach. *)
Fresh(x) ==
    IF x[2] \in vacuous THEN {Rejected("Vacuous")}
    ELSE IF verus[x] # "proved" THEN Ladder(verus[x])
    ELSE IF MeetsFloor(Cardinality(Counted(x) \ Proved(Counted(x))), Cardinality(Counted(x)))
         THEN {L3Cert} ELSE {Rejected("WeakContract")}

Delivered(p) == proc[p].pc = "done" /\ proc[p].opt = "default"

(* No history of checks, whatever is in the cache and whoever put it there,
   turns a disproved function into a certified one, an inconclusive one into
   an L3 one, or degrades one that was decided. *)
FalsityNeverCertifies ==
    \A p \in Processes : Delivered(p) /\ Certifies(proc[p].cert) =>
        LET v == verus[proc[p].fun] IN
        /\ v # "refuted"
        /\ proc[p].cert.level = 3 <=> v = "proved"
        /\ proc[p].cert.lowered => v \in {"timeout", "unknown"}

(* A degraded verdict depends on the budget and is never final: no check is
   ever served one that another check reached. *)
DegradedNeverServed ==
    \A p \in Processes : Delivered(p) /\ proc[p].cached => ~proc[p].cert.lowered

(* x was no probe of another function, and no mutant of x was an item. *)
Apart(x) == x \notin probes /\ (MutantsOf(x) \cap items) = {}

(* As long as nobody checks a function that is also a mutant or a candidate
   of a function that was checked, the cache never changes a verdict: what is
   delivered is what a check with an empty cache delivers. *)
CacheTransparentApart ==
    \A p \in Processes :
        Delivered(p) /\ Apart(proc[p].fun) => proc[p].cert \in Fresh(proc[p].fun)

(* The cache is harmless: no check is served a verdict that depended on
   another one's budget, and as long as nobody checks a mutant of what was
   checked the cache never changes a verdict. *)
CacheHarmless == DegradedNeverServed /\ CacheTransparentApart

(* The cache never changes a verdict: a hit is a fresh verify. *)
CacheTransparent ==
    \A p \in Processes : Delivered(p) => proc[p].cert \in Fresh(proc[p].fun)
=============================================================================
