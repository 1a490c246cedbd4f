------------------------------ MODULE EprReconstruct ------------------------------
(***************************************************************************)
(* The reconstruction of one S2.0 clause (forge/src/epr_reconstruct.rs).   *)
(*                                                                         *)
(* Lean grounds `req /\ ~clause' to a CNF.  If CaDiCaL finds it unsatisfi- *)
(* able, drat-trim's LRAT certificate is replayed by the Lean kernel and   *)
(* the evidence is cached for later runs.  If CaDiCaL finds a model, its   *)
(* truth values of the quantifier-free leaves are realized by numbers,     *)
(* group by group, and Lean searches a family of finite models for one     *)
(* that refutes the clause; where that fails the values are blocked and    *)
(* CaDiCaL is asked again.                                                 *)
(*                                                                         *)
(* The solvers are not trusted: CaDiCaL may answer anything.  The Lean     *)
(* kernel is.  A problem has                                               *)
(*   cnf       the ground clauses, sets of non-zero integers,              *)
(*   more      clauses of the source formula that no ground instance has,  *)
(*   atoms     <<DIMACS variable, leaf>> pairs, leaf 0 for a relation,     *)
(*   qfree     the leaves: the values of the one numeric variable at which *)
(*             each is true, read over the integers (width 0) or modulo    *)
(*             2^width,                                                    *)
(*   possible, family   the sets of relation variables that are true in    *)
(*             some model, and in a model of the searched family.          *)
(* Processes share the cache; one may die at any step.                     *)
(***************************************************************************)
EXTENDS Integers, Sequences, FiniteSets

CONSTANTS Problem,       \* the clauses, by name
          Assigned,      \* what the processes work on, one function for each initial state
          Widths,        \* the bit-vector widths, in the order they are tried
          MachineMax,    \* the largest value of the numeric variable's type
          LiaMax,        \* the largest integer the linear solver tries
          MaxMasks,      \* COUNTERMODEL_QFREE_MASKS
          MaxTampers     \* bound on the changes to the cache from outside

VARIABLES run,           \* the reconstruction of each process
          strict,        \* THERMITE_EPR_CACHE_STRICT
          index,         \* the cache: input key -> verdict key,
          entries,       \* verdict key -> artifact entry
          tampers        \* how often the cache was changed from outside
eprVars == <<run, strict, index, entries, tampers>>

(***************************************************************************)
(* Propositional problems.  An assignment is the set of true variables.    *)
(***************************************************************************)

(* validate_dimacs_assignment: a variable the model omits is false. *)
Satisfies(true, cnf) ==
    \A c \in cnf : \E l \in c : IF l > 0 THEN l \in true ELSE -l \notin true

QfreeVars(p) == {p.atoms[i][1] : i \in {j \in DOMAIN p.atoms : p.atoms[j][2] # 0}}
RelVars(p)   == {p.atoms[i][1] : i \in {j \in DOMAIN p.atoms : p.atoms[j][2] = 0}}
VarsOf(p, leaf) == {p.atoms[i][1] : i \in {j \in DOMAIN p.atoms : p.atoms[j][2] = leaf}}

(* parse_sat_assignment: what a model may say, nothing of some variables. *)
Assignments(p) == SUBSET (QfreeVars(p) \cup RelVars(p))

Unsatisfiable(p) == \A true \in Assignments(p) : ~Satisfies(true, p.cnf)

(* qfree_values_from_assignment: every leaf has a variable, and all its      *)
(* variables one value.                                                      *)
MaskReadable(p, true) ==
    \A q \in DOMAIN p.qfree :
        VarsOf(p, q) # {} /\ (VarsOf(p, q) \subseteq true \/ VarsOf(p, q) \cap true = {})
MaskOf(p, true) == [q \in DOMAIN p.qfree |-> VarsOf(p, q) \subseteq true]

(* Mutant: one leaf is enough to block. *)
BlockingClauseOfOne(p, true) ==
    LET one == {v \in QfreeVars(p) : \A w \in QfreeVars(p) : v <= w}
    IN  {IF v \in true THEN -v ELSE v : v \in one}

(* qfree_blocking_clause *)
BlockingClause(p, true) == {IF v \in true THEN -v ELSE v : v \in QfreeVars(p)}

(* dimacs_with_blocking_clauses *)
ActiveCnf(p, blocked) == p.cnf \cup blocked

(***************************************************************************)
(* What is true of a clause.                                               *)
(***************************************************************************)
LeafHolds(q, v) == (IF q.width = 0 THEN v ELSE v % 2^q.width) \in q.holds

TrueVars(p, mask) == UNION {VarsOf(p, q) : q \in {r \in DOMAIN mask : mask[r]}}

(* evalFrm of the source formula: the leaves as in the mask, the relations   *)
(* that are true.                                                            *)
SourceHolds(p, mask, rels) ==
    Satisfies(rels \cup TrueVars(p, mask), p.cnf \cup p.more)

MaskAt(p, v) == [q \in DOMAIN p.qfree |-> LeafHolds(p.qfree[q], v)]

(* `req /\ ~clause' is true of some value and some model: the clause fails. *)
Refutable(p) ==
    \E v \in 0..MachineMax, rels \in p.possible : SourceHolds(p, MaskAt(p, v), rels)

(***************************************************************************)
(* check_qfree_realization: the groups of leaves, linear ones first.  The  *)
(* value the first group found is fixed for those that follow.             *)
(***************************************************************************)
NoValue == -1
Retry == [kind |-> "retry", value |-> NoValue]     \* EprQFreeUnrealizable
Fatal == [kind |-> "fatal", value |-> NoValue]     \* a tool is missing, Lean refuses the values
GaveUp == [kind |-> "gave up", value |-> NoValue]  \* the solver does not know: a retry as well
Joint(v) == [kind |-> "joint", value |-> v]

Matches(p, mask, group, v) == \A q \in group : LeafHolds(p.qfree[q], v) = mask[q]

(* Mutant: each group is realized by a value of its own. *)
CandidatesAfresh(width, joint) == IF width = 0 THEN 0..LiaMax ELSE 0..(2^width - 1)

(* lia_model_query asks for a value from 0 on, whatever the variable's type. *)
Candidates(width, joint) ==
    IF joint # NoValue THEN {joint}
    ELSE IF width = 0 THEN 0..LiaMax ELSE 0..(2^width - 1)

(* run_z3_at: one of the values, none, or neither; Lean refuses a wrong one. *)
Z3Answers(values) ==
    {Joint(v) : v \in values} \cup {Fatal, GaveUp} \cup (IF values = {} THEN {Retry} ELSE {})

(* realize_lia_group (width 0) and realize_bv_group_with_values *)
RealizeGroup(p, mask, width, joint) ==
    LET group == {q \in DOMAIN p.qfree : p.qfree[q].width = width}
    IN  IF group = {} THEN {Joint(joint)}
        ELSE Z3Answers({v \in Candidates(width, joint) : Matches(p, mask, group, v)})

(* The groups in turn, as long as there is a value for those before. *)
GroupWidths == <<0>> \o Widths
NextGroup(p, mask, width, answers) ==
    UNION {IF r.kind # "joint" THEN {r} ELSE RealizeGroup(p, mask, width, r.value) : r \in answers}
GroupByGroup(p, mask) ==
    LET after[i \in 0..Len(GroupWidths)] ==
          IF i = 0 THEN {Joint(NoValue)} ELSE NextGroup(p, mask, GroupWidths[i], after[i-1])
    IN  after
CheckQfreeRealization(p, mask) == GroupByGroup(p, mask)[Len(GroupWidths)]

(* check_bool_countermodel: the source formula in the models of the family,  *)
(* with the leaves as in the mask; a failure of Lean is fatal.               *)
SearchFamily(p, mask) ==
    {Fatal, IF \E rels \in p.family : SourceHolds(p, mask, rels) THEN Joint(NoValue) ELSE Retry}

(* checked_counterexample *)
CheckedCounterexample(p, mask) ==
    UNION {IF r.kind # "joint" THEN {r}
           ELSE {IF s.kind = "joint" THEN r ELSE s : s \in SearchFamily(p, mask)} :
             r \in CheckQfreeRealization(p, mask)}

(***************************************************************************)
(* Evidence and the cache.  A digest is the tuple it is computed from.     *)
(***************************************************************************)
Certificates == {"lrat a", "lrat b", "no refutation"}   \* two of the refutations there may be

(* The Lean kernel checks the certificate against the CNF that it recomputes. *)
LeanAccepts(name, lrat) == lrat # "no refutation" /\ Unsatisfiable(Problem[name])

(* The replay and its axiom report: the kernel may run out of its budget, and *)
(* a proof from an axiom that is not allowed is refused.                      *)
ReplayAnswers(name, lrat) ==
    {"budget", "foreign axiom", IF LeanAccepts(name, lrat) THEN "checked" ELSE "refused"}

(* cache_input_key: the clause and the Lean sources. *)
InputKey(r) == <<r.problem, r.lean>>

GroundOf(r) == <<r.problem, r.lean>>
(* replay_source *)
ReplaySource(name, ground, lrat) == <<name, ground, lrat>>
(* verdict_key of build_evidence *)
VerdictKey(name, ground, lrat) == <<name, ground, ReplaySource(name, ground, lrat), lrat>>

(* CachedUnsat *)
CachedEntry(r, lrat) ==
    [input |-> InputKey(r), verdict |-> VerdictKey(r.problem, GroundOf(r), lrat),
     problem |-> r.problem, ground |-> GroundOf(r), lrat |-> lrat,
     source |-> ReplaySource(r.problem, GroundOf(r), lrat)]

IdentityMatches(r, e) == e.input = InputKey(r) /\ e.verdict = r.verdict /\ e.problem = r.problem

(* Mutant: the cached certificate is not replayed. *)
CachedAnswersUnreplayed(r, e) ==
    IF ~IdentityMatches(r, e) \/ e.ground # GroundOf(r) THEN {"differs"} ELSE {"hit"}

(* try_cached_unsat_at, once the entry is read: grounding and kernel replay   *)
(* are done again, each of which may fail by itself; a certificate that the   *)
(* kernel refuses was not stored by a reconstruction.                         *)
CachedAnswers(r, e) ==
    IF ~IdentityMatches(r, e) THEN {"differs"}
    ELSE IF e.ground # GroundOf(r) \/ e.source # ReplaySource(r.problem, e.ground, e.lrat)
    THEN {"lean failed", "differs"}
    ELSE {CASE a \in {"budget", "foreign axiom"} -> "lean failed"
            [] a = "refused" \/ e.verdict # VerdictKey(r.problem, e.ground, e.lrat) -> "differs"
            [] OTHER -> "hit" : a \in ReplayAnswers(r.problem, e.lrat)}

(***************************************************************************)
(* reconstruct                                                             *)
(***************************************************************************)
Junk == <<"not a digest">>
NoWork == [problem |-> "", lean |-> 0]

(* What the grounding driver prints: DIMACS variables are counted from 1, and *)
(* one stands for one leaf at most (disequalities, which are encoded as       *)
(* equalities, have a variable in common); a leaf is of one of the groups.    *)
WellFormed(p) ==
    /\ p.atoms \in Seq((Nat \ {0}) \X Nat)
    /\ \A i, j \in DOMAIN p.atoms : p.atoms[i][1] = p.atoms[j][1] => p.atoms[i][2] = p.atoms[j][2]
    /\ p.qfree \in Seq([width : Nat, holds : SUBSET Int])
    /\ \A q \in DOMAIN p.qfree : \E i \in DOMAIN GroupWidths : p.qfree[q].width = GroupWidths[i]
    /\ p.possible \subseteq SUBSET RelVars(p) /\ p.family \subseteq p.possible

(* The widths are 8, 16, 32 and 64; the linear solver's range holds the type. *)
ASSUME EprAssumption ==
    /\ MachineMax \in Nat /\ LiaMax \in Nat /\ MachineMax <= LiaMax
    /\ Widths \in Seq(Nat) /\ \A i \in DOMAIN Widths : 2^Widths[i] \in Nat \ {0}
    /\ \A name \in DOMAIN Problem : WellFormed(Problem[name])
    /\ \A work \in Assigned : \A p \in DOMAIN work :
          work[p] = NoWork \/ work[p] \in [problem : DOMAIN Problem \ {""}, lean : Nat]

Started(work) ==
    [problem |-> work.problem, lean |-> work.lean,
     stage   |-> IF work = NoWork THEN "done" ELSE "open",
     blocked |-> {}, true |-> {}, value |-> NoValue, guessed |-> FALSE,
     verdict |-> Junk, lrat |-> "no refutation", writes |-> <<>>, outcome |-> "none",
     reason  |-> "none"]

EprInit ==
    /\ \E work \in Assigned : run = [p \in DOMAIN work |-> Started(work[p])]
    /\ strict \in BOOLEAN
    /\ index = << >> /\ entries = << >> /\ tampers = 0

Become(p, r) == run' = [run EXCEPT ![p] = r]
Cache == <<strict, index, entries, tampers>>
EndWith(p, outcome) == Become(p, [run[p] EXCEPT !.stage = "done", !.outcome = outcome])

(* verify_solver_toolchain_at *)
SolverTools == {"pinned", "missing", "another version"}

(* The solver tools, the Lean modules, the export of the clause and the       *)
(* scratch directory: any of them may fail.                                   *)
Open(p) ==
    /\ run[p].stage = "open"
    /\ \E found \in SolverTools :
          IF found = "pinned" THEN Become(p, [run[p] EXCEPT !.stage = "index"])
          ELSE EndWith(p, "failed")
    /\ UNCHANGED Cache

(* cache_failure: an error only in strict mode, "EprCacheTampered: <reason>"   *)
(* whatever the reason is.                                                     *)
CacheFailure(p, reason) ==
    IF strict
    THEN Become(p, [run[p] EXCEPT !.stage = "done", !.outcome = "tampered", !.reason = reason])
    ELSE Become(p, [run[p] EXCEPT !.stage = "ground"])

ReadIndex(p) ==
    LET key == InputKey(run[p]) IN
    /\ run[p].stage = "index"
    /\ IF key \notin DOMAIN index THEN Become(p, [run[p] EXCEPT !.stage = "ground"])
       ELSE IF index[key] = Junk THEN CacheFailure(p, "index")
       ELSE Become(p, [run[p] EXCEPT !.stage = "entry", !.verdict = index[key]])
    /\ UNCHANGED Cache

ReadEntry(p) ==
    LET r == run[p] IN
    /\ r.stage = "entry"
    /\ IF r.verdict \notin DOMAIN entries THEN CacheFailure(p, "entry")
       ELSE \E a \in CachedAnswers(r, entries[r.verdict]) :
               IF a = "hit" THEN EndWith(p, "proved") ELSE CacheFailure(p, a)
    /\ UNCHANGED Cache

(* The grounding driver; parse_ground_output refuses what Lean did not verify. *)
GroundClause(p) ==
    /\ run[p].stage = "ground"
    /\ \/ Become(p, [run[p] EXCEPT !.stage = "solve"])
       \/ EndWith(p, "failed")
    /\ UNCHANGED Cache

(* CaDiCaL answers SAT with a model, which is checked. *)
Model(p) ==
    LET r == run[p] pr == Problem[r.problem] IN
    /\ r.stage = "solve"
    /\ \E true \in Assignments(pr) :
          IF Satisfies(true, ActiveCnf(pr, r.blocked)) /\ MaskReadable(pr, true)
          THEN Become(p, [r EXCEPT !.stage = "examine", !.true = true])
          ELSE EndWith(p, "failed")
    /\ UNCHANGED Cache

(* UNSAT: after a rejected model it is no verdict. *)
NoModel(p) ==
    /\ run[p].stage = "solve"
    /\ IF run[p].blocked = {} THEN Become(p, [run[p] EXCEPT !.stage = "certify"])
       ELSE EndWith(p, "exhausted")
    /\ UNCHANGED Cache

NoAnswer(p) == run[p].stage = "solve" /\ EndWith(p, "timeout") /\ UNCHANGED Cache

(* A rejected mask: the budget, then the clause that blocks it. *)
Reject(p, guess) ==
    LET r     == run[p]
        block == BlockingClause(Problem[r.problem], r.true)
    IN  IF Cardinality(r.blocked) + 1 >= MaxMasks THEN EndWith(p, "timeout")
        ELSE IF block = {} THEN EndWith(p, "failed")
        ELSE IF block \in r.blocked THEN EndWith(p, "repeated")
        ELSE Become(p, [r EXCEPT !.stage = "solve", !.blocked = @ \cup {block},
                                 !.guessed = @ \/ guess])

Examine(p) ==
    LET r == run[p] IN
    /\ r.stage = "examine"
    /\ \E a \in CheckedCounterexample(Problem[r.problem], MaskOf(Problem[r.problem], r.true)) :
          CASE a.kind = "joint" -> Become(p, [r EXCEPT !.stage = "done", !.value = a.value,
                                                       !.outcome = "counterexample"])
            [] a.kind = "fatal" -> EndWith(p, "failed")
            [] OTHER            -> Reject(p, a.kind = "gave up")
    /\ UNCHANGED Cache

(* Mutant: the index is written before the entry it names. *)
StoreOrderReversed == <<"index", "entry">>

(* store_cached_unsat_at *)
StoreOrder == <<"entry", "index">>

(* drat-trim, the replay and the axiom report.  A certificate of the active   *)
(* problem is one of the problem: nothing is blocked.                         *)
Certify(p) ==
    LET r == run[p] IN
    /\ r.stage = "certify"
    /\ \E lrat \in Certificates : \E a \in ReplayAnswers(r.problem, lrat) :
          CASE a = "checked" ->
                 Become(p, [r EXCEPT !.stage = "store", !.lrat = lrat, !.writes = StoreOrder,
                                     !.verdict = VerdictKey(r.problem, GroundOf(r), lrat)])
            [] a = "budget"  -> EndWith(p, "timeout")
            [] OTHER         -> EndWith(p, "failed")
    /\ UNCHANGED Cache

Bind(f, k, v) == [x \in DOMAIN f \cup {k} |-> IF x = k THEN v ELSE f[x]]

(* atomic_cache_write, for the next of the two files; an error is ignored. *)
StoreNext(p) ==
    LET r == run[p] IN
    /\ r.stage = "store" /\ r.writes # <<>>
    /\ IF Head(r.writes) = "entry"
       THEN entries' = Bind(entries, r.verdict, CachedEntry(r, r.lrat)) /\ UNCHANGED index
       ELSE index' = Bind(index, InputKey(r), r.verdict) /\ UNCHANGED entries
    /\ Become(p, [r EXCEPT !.writes = Tail(@)])
    /\ UNCHANGED <<strict, tampers>>

Stored(p) == run[p].stage = "store" /\ EndWith(p, "proved") /\ UNCHANGED Cache

Die(p) == run[p].stage \notin {"done"} /\ EndWith(p, "died") /\ UNCHANGED Cache

(* Someone changes the cache: an index to any digest or to none, an entry to  *)
(* one that is made up of whole fields, for this clause or for another.       *)
Forgeries(r) ==
    {[CachedEntry(r, lrat) EXCEPT !.source = ReplaySource(name, GroundOf(r), lrat)] :
        lrat \in Certificates, name \in DOMAIN Problem \cap {r.problem, "unsat"}}

TamperIndex(p) ==
    /\ tampers < MaxTampers /\ tampers' = tampers + 1
    /\ run[p].stage \in {"open", "index", "entry"}
    /\ \E key \in DOMAIN entries \cup {Junk} : index' = Bind(index, InputKey(run[p]), key)
    /\ UNCHANGED <<run, strict, entries>>

TamperEntry(p) ==
    /\ tampers < MaxTampers /\ tampers' = tampers + 1
    /\ run[p].stage \in {"open", "index", "entry"}
    /\ \E e \in Forgeries(run[p]) :
          entries' = Bind(entries, e.verdict, e) /\ index' = Bind(index, e.input, e.verdict)
    /\ UNCHANGED <<run, strict>>

EprNext ==
    \E p \in DOMAIN run :
        \/ Open(p) \/ ReadIndex(p) \/ ReadEntry(p) \/ GroundClause(p)
        \/ Model(p) \/ NoModel(p) \/ NoAnswer(p) \/ Examine(p)
        \/ Certify(p) \/ StoreNext(p) \/ Stored(p) \/ Die(p)
        \/ TamperIndex(p) \/ TamperEntry(p)

(***************************************************************************)
(* Properties.                                                             *)
(***************************************************************************)
OneGroup(p) == \A q, r \in DOMAIN p.qfree : p.qfree[q].width = p.qfree[r].width

(* Whatever the solvers answer, whatever is in the cache and whoever writes   *)
(* it, a clause that is called proved has no counterexample.                  *)
ReconstructedIsValid ==
    \A p \in DOMAIN run : run[p].outcome = "proved" => ~Refutable(Problem[run[p].problem])

(* A countermodel is one: the same value makes the leaves of every group what *)
(* the mask says, a model of the family refutes the source formula under that *)
(* mask, and if the value is one of the variable's type the clause is false.  *)
CountermodelIsReal ==
    \A p \in DOMAIN run :
        run[p].outcome = "counterexample" =>
            LET pr == Problem[run[p].problem] mask == MaskOf(pr, run[p].true) IN
            /\ \E rels \in pr.family : SourceHolds(pr, mask, rels)
            /\ pr.qfree # <<>> => mask = MaskAt(pr, run[p].value)
            /\ pr.qfree = <<>> \/ run[p].value \in 0..MachineMax => Refutable(pr)

(* A mask that is put aside hides no countermodel of the family, unless the   *)
(* solver gave up or the leaves are of several groups, the first of which     *)
(* chose the value; no mask is met twice.                                     *)
BlockedIsHopeless ==
    \A p \in DOMAIN run :
        run[p].problem # "" =>
            LET pr == Problem[run[p].problem] IN
            /\ run[p].outcome # "repeated"
            /\ OneGroup(pr) /\ ~run[p].guessed =>
                  \A v \in 0..MachineMax, rels \in pr.family :
                      SourceHolds(pr, MaskAt(pr, v), rels) =>
                          Satisfies(TrueVars(pr, MaskAt(pr, v)), run[p].blocked)

(* Writers that interleave and writers that die leave a cache that reads: an  *)
(* index names an entry that is there, and what is read is what was stored.   *)
(* EprCacheTampered is then reported for one reason only, that Lean failed to *)
(* ground or to replay an entry of an honest cache, which the label does not  *)
(* tell apart from tampering.                                                 *)
CacheReadsBack ==
    tampers = 0 =>
        /\ \A k \in DOMAIN index : index[k] \in DOMAIN entries
        /\ \A p \in DOMAIN run : run[p].outcome = "tampered" => run[p].reason = "lean failed"
====
