------------------------------ MODULE EngineRouting -------------------------------
(***************************************************************************)
(* forge check with an engine (forge/src/check.rs): the gates and the      *)
(* Verus pass that give a function its base certificate, and the engine    *)
(* that then confirms, replaces or refuses it - Verus, Lean, auto, nlsat,  *)
(* forge or bv; then the command line that selects them.                   *)
(*                                                                         *)
(* One function is checked.  What an engine may answer of a clause is      *)
(* decided by what is true of it: `holds' is "no", "body" (the body makes  *)
(* it true) or "always" (true for any result); an engine may also fail to  *)
(* decide.  Engines are sound, what is checked is how their answers are    *)
(* combined.  Two things are not decided by `holds': Verus reads a tagged  *)
(* clause over the integers and not at its width, and nlsat leaves         *)
(* `result' free.                                                          *)
(***************************************************************************)
EXTENDS Naturals, Sequences, FiniteSets

CONSTANTS Selections,     \* the values of --engine
          MaxClauses      \* bound on the clauses of the function, which has one trait at most

ASSUME RouteAssumption == MaxClauses \in Nat

VARIABLES stage, engine, fn, cert,
          base    \* the certificate of the base pass
routeVars == <<stage, engine, fn, cert, base>>

NoCert == "none"

(***************************************************************************)
(* Functions.  A clause is plain, plain with an author's proof, a relaxable*)
(* polynomial, an S2 sequence clause for the EPR route, or tagged @bv.     *)
(***************************************************************************)
ClauseKinds == {"plain", "proof", "relax", "epr", "bv", "nowrap"}

Clause(k, holds, wraps, result) == [k |-> k, holds |-> holds, wraps |-> wraps, result |-> result]

(* A clause that does not name the result is not made true by the body. *)
Clauses ==
    {c \in [k : ClauseKinds, holds : {"no", "body", "always"}, wraps : BOOLEAN, result : BOOLEAN] :
        /\ c.wraps => c.k = "nowrap"
        /\ c.holds = "body" => c.result}

Tagged(c) == c.k \in {"bv", "nowrap"}

(* What else matters about a function. *)
Traits == {"no measure", "open hole", "boundary", "no target", "slag", "unsigned slag", "diverge",
           "trivial", "no body", "vacuous", "weak", "covenant refused", "covenant refuted",
           "over budget", "tagged loop"}

Functions ==
    {f \in [traits : {{}} \cup {{t} : t \in Traits},
            ens : UNION {[1..n -> Clauses] : n \in 1..MaxClauses}] :
        /\ "vacuous" \in f.traits => \A i \in DOMAIN f.ens : f.ens[i].holds = "always"
        /\ f.traits \cap {"boundary", "no target"} # {} => "tagged loop" \notin f.traits}

Has(f, trait)  == trait \in f.traits
Boundary(f)    == Has(f, "boundary") \/ Has(f, "no target")
Slag(f)        == Has(f, "slag") \/ Has(f, "unsigned slag")
NoBody(f)      == Has(f, "no body") \/ Boundary(f)
IsTrue(f)       == \A i \in DOMAIN f.ens : f.ens[i].holds # "no"
Tautology(f)   == \A i \in DOMAIN f.ens : f.ens[i].holds = "always"
BvEnsTag(f)    == \E i \in DOMAIN f.ens : Tagged(f.ens[i])
BvTag(f)       == BvEnsTag(f) \/ Has(f, "tagged loop")
OmitsResult(f) == \A i \in DOMAIN f.ens : ~f.ens[i].result

(***************************************************************************)
(* Certificates.                                                           *)
(***************************************************************************)
Certificate(level, reject, located, lowered, attributed) ==
    [level |-> level, reject |-> reject, located |-> located, lowered |-> lowered,
     attributed |-> attributed, undischarged |-> FALSE]

RejectCert(cause) == Certificate(0, cause, FALSE, FALSE, FALSE)
Certified(c)    == c.reject = "" /\ c.level > 0 /\ ~c.undischarged
L3(c)           == c.level = 3 /\ c.reject = ""

(* triage: the syntactic rules (a)-(d). *)
Triage(f) ==
    CASE Has(f, "trivial") -> "EnsIsTrivial"
      [] OmitsResult(f)    -> "EnsOmitsResult"
      [] OTHER             -> ""

(* The L1 certificate of a function whose body is not proved, after the triage. *)
TrustedL1(f) == IF Triage(f) = "" THEN Certificate(1, "", FALSE, FALSE, FALSE)
                ELSE RejectCert(Triage(f))

(* gate_fn: "" lets the function go on to the proof. *)
GateFn(f) ==
    CASE Boundary(f) -> {IF Has(f, "no target") THEN RejectCert("BoundaryTargetEmpty")
                                ELSE TrustedL1(f)}
      [] Slag(f)     -> {IF Has(f, "unsigned slag") THEN RejectCert("SlagField")
                                ELSE TrustedL1(f)}
      [] Has(f, "diverge")  -> {TrustedL1(f)}
      [] Triage(f) # ""     -> {RejectCert(Triage(f))}
      [] OTHER              -> {}

(* The covenant gate of the function's witness block. *)
Covenant(f) ==
    IF Has(f, "covenant refused") THEN {RejectCert("CovenantRefused")}
    ELSE IF Has(f, "covenant refuted") THEN {RejectCert("CovenantRefuted")} ELSE {}

(* solver_vacuity_check; the solver may give up. *)
SolverVacuity(f) ==
    (IF Has(f, "vacuous") THEN {RejectCert("VacuousPrecondition")} ELSE {})
        \cup (IF Tautology(f) THEN {RejectCert("SemanticTautology")} ELSE {})

(* Verus on the contract and the ladder after a timeout; a proof is scored.  *)
(* Verus decides a tagged clause over the integers, which says nothing here,  *)
(* and reports a located failure also for a clause it merely cannot prove; a  *)
(* failure is not a rejection.                                                *)
VerusProof(f) ==
    (IF \A i \in DOMAIN f.ens : f.ens[i].holds # "no" \/ Tagged(f.ens[i])
     THEN {IF Has(f, "weak") THEN RejectCert("WeakContract") ELSE Certificate(3, "", FALSE, FALSE, FALSE)}
     ELSE {})
    \cup {Certificate(0, "", TRUE, FALSE, FALSE)}
    \cup {Certificate(l, "", FALSE, TRUE, FALSE) : l \in {1, 2}}

(* The base certificate: the first gate that does not let it pass. *)
BaseCerts(f) ==
    IF Has(f, "no measure") THEN {RejectCert("MutualRecursionMissingDecreases")}
    ELSE IF Has(f, "open hole") THEN {RejectCert("OpenHole")}
    ELSE IF GateFn(f) # {} THEN GateFn(f)
    ELSE IF Covenant(f) # {} THEN Covenant(f)
    ELSE SolverVacuity(f) \cup VerusProof(f)

(***************************************************************************)
(* What the engines answer of a clause.                                    *)
(***************************************************************************)

(* discharge_bv: the clause, grounded by the body, at its width. *)
BvAnswers(f, c) ==
    IF c.result /\ NoBody(f) THEN {"unknown"}
    ELSE {"timeout", "unknown", IF c.holds = "no" THEN "counterexample" ELSE "proved"}

(* bv_nowrap_verdict *)
NowrapAnswers(c) ==
    IF c.k # "nowrap" THEN {"holds"}
    ELSE {"undecided", IF c.wraps THEN "overflow" ELSE "holds"}

(* epr_clause_outcome; a clause that cannot be grounded is a failure. *)
EprAnswers(f, c) ==
    IF c.result /\ NoBody(f) THEN {"failed"}
    ELSE {"timeout", "failed", IF c.holds = "no" THEN "counterexample" ELSE "proved"}

(* discharge_relax: the result is one of the variables. *)
NlsatAnswers(c) ==
    {"unknown", "real witness", IF c.holds = "always" THEN "proved" ELSE "counterexample"}

(* discharge_gate_l3_clause: the author's Lean proof of the grounded clause. *)
GateProofAnswers(c) == {"unknown"} \cup (IF c.holds = "no" THEN {} ELSE {"proved"})

(* LeanEngine::discharge and replay_interactive *)
LeanAnswers(f) ==
    {"unknown"} \cup (IF NoBody(f) THEN {} ELSE {IF IsTrue(f)THEN "proven" ELSE "refuted"})

Relaxable(f, c) == c.k = "relax" /\ ~Boundary(f)

(***************************************************************************)
(* The engines: the certificates each may put in place of the base.        *)
(***************************************************************************)
L4Cert == Certificate(4, "", FALSE, FALSE, TRUE)

(* The causes of the certificates that the engines reject with. *)
NlsatCounterexample == "Counterexample"
RealWitness         == "RealWitnessEscalation"
BvCounterexample    == "Counterexample"
BvTimeout           == "BvBudgetTimeout"
BvSkip              == "BvUnknown"
NowrapOverflow      == "BvNowrapOverflow"
NowrapUndecided     == "BvNowrapUndecided"
EprCounterexample   == "EprCounterexample"
EprTimeout          == "EprSolverTimeout"
EprFailure          == "EprReconstructionFailed"
LeanUnverifiable    == "LeanUnverifiable"

(* nlsat_item_cert: the whole contract is one query. *)
NlsatItem(f) ==
    IF \E i \in DOMAIN f.ens : ~Relaxable(f, f.ens[i]) THEN {RejectCert("NotRelaxable")}
    ELSE {RejectCert("NlsatUnknown"), RejectCert(RealWitness),
          IF Tautology(f) THEN L4Cert ELSE RejectCert(NlsatCounterexample)}

(* The answers about one clause on the bit-vector route: "" goes on with the next. *)
BvClause(f, c) ==
    IF Tagged(c)
    THEN (IF Has(f, "vacuous") THEN {"VacuousPrecondition"} ELSE {})
         \cup {CASE a = "proved"         -> ""
                 [] a = "counterexample" -> BvCounterexample
                 [] a = "timeout"        -> BvTimeout
                 [] OTHER                -> BvSkip : a \in BvAnswers(f, c)}
    ELSE IF c.k = "epr"
    THEN {CASE a = "proved"         -> ""
            [] a = "counterexample" -> BvCounterexample
            [] a = "timeout"        -> EprTimeout
            [] OTHER                -> EprFailure : a \in EprAnswers(f, c)}
    ELSE IF Relaxable(f, c)
    THEN {IF a = "proved" THEN "" ELSE "BvUntaggedUndecided" : a \in NlsatAnswers(c)}
    ELSE {"BvUntaggedUnsupported"}

(* Mutant: the side obligation of @bv nowrap is not asked. *)
NowrapClauseUnasked(c) == {""}

(* ... and of its no-overflow obligation, once the clause is proved. *)
NowrapClause(c) ==
    {CASE a = "holds" -> "" [] a = "overflow" -> NowrapOverflow
       [] OTHER -> NowrapUndecided : a \in NowrapAnswers(c)}

(* What the first clause that is not answered "" may be answered, if any. *)
Answered(asked) ==
    LET passed(n) == \A j \in 1..n : "" \in asked[j]
    IN  UNION {asked[i] \ {""} : i \in {j \in DOMAIN asked : passed(j - 1)}}
          \cup (IF passed(Len(asked)) THEN {""} ELSE {})

BvAsk(f, c) == LET own == BvClause(f, c)
               IN  (own \ {""}) \cup (IF "" \in own THEN NowrapClause(c) ELSE {})

(* bv_mutation_score is None unless a tagged clause names the result. *)
BvScored(f) == \E i \in DOMAIN f.ens : Tagged(f.ens[i]) /\ f.ens[i].result

(* bv_fn_cert *)
BvFn(f) ==
    {IF a # "" THEN RejectCert(a)
     ELSE IF BvScored(f) /\ Has(f, "weak") THEN RejectCert("WeakContract")
     ELSE L4Cert : a \in Answered([i \in DOMAIN f.ens |-> BvAsk(f, f.ens[i])])}

(* attach_bv_invariant_shadows *)
InvariantShadows(f, c, baseProved) ==
    IF ~Has(f, "tagged loop") THEN c
    ELSE [c EXCEPT !.level = IF @ > 3 THEN 3 ELSE @, !.undischarged = ~baseProved]

EprClauses(f) == {i \in DOMAIN f.ens : f.ens[i].k = "epr"}

(* bv_check, for the function *)
BvCheck(f, c, includeEprOnly) ==
    LET epr == includeEprOnly /\ EprClauses(f) # {}
    IN  IF Boundary(f) \/ Slag(f) \/ ~(BvTag(f) \/ epr) THEN {c}
        ELSE {InvariantShadows(f, r, L3(c)) :
                 r \in IF (BvEnsTag(f) \/ epr) /\ (~Has(f, "tagged loop") \/ L3(c))
                       THEN BvFn(f) ELSE {c}}

(* Mutant: one reconstructed clause is taken for the whole contract. *)
EprWholeAny(f) == EprClauses(f) # {}

(* every_clause_reconstructed *)
EprWhole(f) == EprClauses(f) = DOMAIN f.ens

EprAsk(f, c) ==
    IF c.k # "epr" THEN {""}
    ELSE {CASE a = "proved"         -> ""
            [] a = "counterexample" -> EprCounterexample
            [] a = "timeout"        -> EprTimeout
            [] OTHER                -> EprFailure : a \in EprAnswers(f, c)}

(* epr_check: the first clause that is not proved refuses; a contract that is *)
(* reconstructed as a whole is L4, unless the base has a counterexample.      *)
EprCheck(f, c) ==
    IF BvTag(f) \/ Boundary(f) \/ Slag(f) \/ EprClauses(f) = {} THEN {c}
    ELSE {IF a # "" THEN RejectCert(a)
          ELSE IF ~EprWhole(f) THEN c
          ELSE IF c.reject = "Counterexample" THEN RejectCert("EprVerifierDisagreement")
          ELSE L4Cert : a \in Answered([i \in DOMAIN f.ens |-> EprAsk(f, f.ens[i])])}

(* One clause at the forge gate: nlsat for a relaxable one, else the author's proof. *)
ForgeAsk(f, c) ==
    IF Relaxable(f, c)
    THEN {IF a = "proved" THEN "" ELSE "ForgeGateClauseUndecided" : a \in NlsatAnswers(c)}
    ELSE IF c.k # "proof" THEN {"ForgeGateMissingProof"}
    ELSE IF NoBody(f) THEN {"ForgeGateNoBody"}
    ELSE {IF a = "proved" THEN "" ELSE "ForgeGateClauseUndecided" : a \in GateProofAnswers(c)}

(* forge_gate_item_cert: the base certificate is not looked at. *)
ForgeGateItem(f) ==
    IF Covenant(f) # {} THEN Covenant(f)
    ELSE IF Has(f, "over budget") THEN {RejectCert("DefinitionTowerBudget")}
    ELSE {IF a # "" THEN RejectCert(a)
          ELSE IF \A i \in DOMAIN f.ens : Relaxable(f, f.ens[i]) THEN RejectCert("ForgeGateNoL3Clause")
          ELSE IF Has(f, "weak") THEN RejectCert("WeakContract")
          ELSE Certificate(3, "", FALSE, FALSE, TRUE) : a \in Answered([i \in DOMAIN f.ens |-> ForgeAsk(f, f.ens[i])])}

(* lean_proven_cert *)
LeanProven(f) == IF Has(f, "weak") THEN RejectCert("WeakContract")
                 ELSE Certificate(3, "", FALSE, FALSE, TRUE)

(* Mutant: auto asks Lean whatever the base certificate says. *)
AutoShouldTryLeanAlways(c) == TRUE

(* auto_should_try_lean *)
AutoShouldTryLean(c) == c.lowered \/ c.reject = "VerusTimeout"

(* verus_verdict_of *)
VerusVerdict(c) == IF L3(c) THEN "proven" ELSE IF c.located THEN "refuted" ELSE "unknown"

Alarm == RejectCert("SoundnessAlarm")

(* lean_engine_cert; a disagreement of two engines stops the check. *)
LeanEngine(f, c, selection) ==
    IF selection = "auto"
    THEN IF ~AutoShouldTryLean(c) THEN {c}
         ELSE {IF {VerusVerdict(c), a} = {"proven", "refuted"} THEN Alarm
               ELSE IF a = "proven" THEN LeanProven(f) ELSE c : a \in LeanAnswers(f)}
    ELSE UNION {CASE a = "proven"  -> {LeanProven(f), Certificate(3, "", FALSE, FALSE, TRUE)}
                  [] a = "refuted" -> {RejectCert("LeanRefuted")}
                  [] OTHER         -> {RejectCert(LeanUnverifiable)} : a \in LeanAnswers(f)}

(* gate_definition_tower, then gate_arbitrary_result_tautology, which may skip. *)
LeanGates(f, c) ==
    IF ~c.attributed THEN {c}
    ELSE IF Has(f, "over budget") THEN {RejectCert("DefinitionTowerBudget")}
    ELSE IF ~L3(c) THEN {c}
    ELSE {c} \cup (IF Tautology(f) THEN {RejectCert("SemanticTautology")} ELSE {})

(***************************************************************************)
(* check_file_with_engine                                                  *)
(***************************************************************************)
RouteInit ==
    /\ engine \in Selections /\ fn \in Functions
    /\ stage = "base" /\ cert = NoCert /\ base = NoCert

Advance(next, certs) == stage' = next /\ cert' \in certs /\ UNCHANGED <<engine, fn, base>>

CheckBase ==
    /\ stage = "base" /\ stage' = IF engine = "verus" THEN "done" ELSE "engine"
    /\ base' \in BaseCerts(fn) /\ cert' = base'
    /\ UNCHANGED <<engine, fn>>

NlsatCheck     == stage = "engine" /\ engine = "nlsat" /\ Advance("done", NlsatItem(fn))
ForgeGateCheck == stage = "engine" /\ engine = "forge" /\ Advance("done", ForgeGateItem(fn))
BvEngine       == stage = "engine" /\ engine = "bv" /\ Advance("done", BvCheck(fn, cert, TRUE))
LeanPass ==
    /\ stage = "engine" /\ engine \in {"lean", "auto"}
    /\ \E c \in LeanEngine(fn, cert, engine) :
          IF c = Alarm THEN Advance("halted", {Alarm})
          ELSE Advance(IF engine = "auto" THEN "bv" ELSE "done", LeanGates(fn, c))
AutoBv  == stage = "bv" /\ Advance("epr", BvCheck(fn, cert, FALSE))
AutoEpr == stage = "epr" /\ Advance("done", EprCheck(fn, cert))

RouteNext ==
    CheckBase \/ NlsatCheck \/ ForgeGateCheck \/ BvEngine \/ LeanPass \/ AutoBv \/ AutoEpr

(***************************************************************************)
(* Properties.                                                             *)
(***************************************************************************)

(* Whatever the route, a certificate of a proof is the proof of every clause *)
(* of the contract: no clause is left to an engine that did not decide it, a *)
(* tagged clause holds at its width and does not wrap if it says so wherever *)
(* the route knows about tags, and a tagged loop was proved.                 *)
CertifiedContractHolds ==
    stage = "done" /\ Certified(cert) /\ cert.level >= 3 =>
        /\ \A i \in DOMAIN fn.ens :
              LET c == fn.ens[i] IN
              IF ~Tagged(c) THEN c.holds # "no"
              ELSE engine \in {"auto", "bv"} /\ cert.level = 4 => c.holds # "no" /\ ~c.wraps
        /\ Has(fn, "tagged loop") /\ engine \in {"auto", "bv"} => cert.level = 3

(* A gate of the base pass refuses the function, or trusts it at L1 only. *)
Gated(f) == GateFn(f) # {} \/ Covenant(f) # {} \/ Has(f, "open hole") \/ Has(f, "no measure")

(* When the default route undoes what a gate of the base pass said: neither   *)
(* bv_check nor epr_check looks at the certificate it replaces, so that a      *)
(* function with a tagged clause, or with S2 clauses only, is certified at L4  *)
(* if these are proved; a boundary, a slag function, one with a tagged loop    *)
(* and any other function end as the gate left them.                           *)
AutoKeepsRefusals ==
    stage = "done" /\ engine = "auto" /\ Gated(fn) /\ Certified(cert) /\ cert.level > 1 =>
        /\ cert.level = 4 /\ ~Boundary(fn) /\ ~Slag(fn) /\ ~Has(fn, "tagged loop")
        /\ BvEnsTag(fn) \/ EprWhole(fn)

(* The claims of the code about the same (check.rs, in check_program): "a fn   *)
(* carrying any open body hole (`?N') never certifies", and of the vacuity     *)
(* triage "a function does not certify until its contract certifies".          *)
HoledNeverCertifies ==
    stage = "done" /\ engine = "auto" /\ Has(fn, "open hole") => ~Certified(cert)
ContractCertifiesFirst ==
    stage = "done" /\ engine = "auto" /\ ~Boundary(fn) /\ ~Slag(fn) /\ Triage(fn) # ""
        => ~Certified(cert)

(* "The base engine reported a counterexample while Lean kernel replay proved *)
(* every admitted S2.0 clause" is refused as EprVerifierDisagreement: a        *)
(* function that Verus located a failure in is not certified by the EPR route. *)
DisagreementRefused ==
    stage = "done" /\ engine = "auto" /\ base.located /\ ~BvTag(fn) => ~Certified(cert)

(***************************************************************************)
(* The command line of forge (forge/src/cli.rs): parse_args, which decides *)
(* what a command line asks for, and the run_* functions, which decide     *)
(* which part of forge does it, with which of the flags, and the exit code.*)
(*                                                                         *)
(* An argument is a string.  LongFlags are those that begin with `--',     *)
(* ShortFlags the others that begin with `-'; Numerals parse as a number.  *)
(***************************************************************************)

CONSTANTS LongFlags, ShortFlags, Numerals, Words,
          Groups,       \* what a user types at a time, in a fixed order: <<flag, value>>, ..
          MaxGroups,    \* bound on the number of groups
          Reports       \* what the part of forge that runs may report

VARIABLES asked, typed, outcome    \* the verb, the groups typed so far, what came of it
cmdVars == <<asked, typed, outcome>>

Arguments == LongFlags \cup ShortFlags \cup Numerals \cup Words

(* What a verb's loop recognises: flags, flags with a value out of a set,   *)
(* flags that take a number if one follows; the number of positionals.      *)
Grammar(min, max, bare, valued, counted) ==
    [min |-> min, max |-> max, bare |-> bare, valued |-> valued, counted |-> counted,
     refused |-> LongFlags]

(* Some verbs refuse every argument with a dash, others only those with two. *)
Strictly(g) == [g EXCEPT !.refused = LongFlags \cup ShortFlags]

NoValues     == [f \in {} |-> {}]
AnyOf(flags) == [f \in flags |-> Arguments]

(* `forge new' takes its one argument whatever it looks like. *)
NewGrammar == [Grammar(1, 1, {}, NoValues, {}) EXCEPT !.refused = {}]

Engines == {"verus", "lean", "auto", "nlsat", "forge", "bv"}
CheckGrammar ==
    Grammar(1, 1, {"--json"},
            [f \in {"--rlimit", "--mutation-floor", "--engine", "--level"} |->
                CASE f = "--rlimit"         -> Numerals \ {"0"}
                  [] f = "--mutation-floor" -> Numerals \cap {"0", "1"}
                  [] f = "--engine"         -> Engines
                  [] f = "--level"          -> {"l2", "L2", "l3", "L3"}], {})

AuditGrammar  == Grammar(1, 1, {"--json", "--meaning", "--metrics"}, NoValues, {})
RepairGrammar == Grammar(1, 2, {"--json"}, NoValues, {})
ReviewGrammar == Grammar(1, 2, {"--json"}, AnyOf({"--reviewer"}), {})

BuildGrammar ==
    Strictly(Grammar(1, 1, {"--json", "--sandbox", "--no-sandbox", "--sandbox-self-test"},
        [f \in {"--level", "--target", "--export", "--compose-export", "--compose-shell",
                "--crate-name", "--platform", "--entry", "--out", "-o"} |->
            CASE f = "--level"  -> {"l1", "l3"}
              [] f = "--target" -> {"std", "kernel", "kernel-image"}
              [] OTHER          -> Arguments], {}))

VerifyBuildGrammar == Strictly(Grammar(1, 1, {"--replay", "--json"}, NoValues, {}))

Seeded == [f \in {"--seed"} |-> Numerals]
TvGrammar      == Grammar(1, 1, {"--json"}, Seeded, {"--generated"})
ExecTvGrammar  == Grammar(1, 1, {"--json", "--no-generated"}, NoValues, {"--generated"})
StratTvGrammar == Grammar(0, 0, {"--json"}, Seeded, {"--generated"})
StratFaithfulTvGrammar == StratTvGrammar

Verdicts == {"--axiom-probe", "--doc-drift", "--differential", "--two-phase"}
G2GateGrammar ==
    Grammar(0, 0, {"--json"}, [f \in Verdicts |-> {"0", "1", "pass", "fail"}], {})

BodyTvGrammar  == Grammar(1, 1, {"--json"}, NoValues, {})
GoalGrammar    == Grammar(1, 2, {"--proof"}, NoValues, {})
BatteryGrammar == Grammar(1, 2, {}, NoValues, {})
EditGrammar    == Grammar(0, 2, {"--restratify", "--json"}, AnyOf({"--replace"}), {})
FillGrammar    == Grammar(3, 3, {}, NoValues, {})
SmtExportGrammar == Strictly(Grammar(0, 1, {}, AnyOf({"--out", "-o"}), {}))
SkillGrammar   == Strictly(Grammar(0, 0, {"--claude"}, AnyOf({"--write", "--check"}), {}))

GrammarOf(verb) ==
    CASE verb = "new"      -> NewGrammar      [] verb = "check"        -> CheckGrammar
      [] verb = "audit"    -> AuditGrammar    [] verb = "repair"       -> RepairGrammar
      [] verb = "review"   -> ReviewGrammar   [] verb = "build"        -> BuildGrammar
      [] verb = "tv"       -> TvGrammar       [] verb = "verify-build" -> VerifyBuildGrammar
      [] verb = "exec-tv"  -> ExecTvGrammar   [] verb = "strat-tv"     -> StratTvGrammar
      [] verb = "g2-gate"  -> G2GateGrammar   [] verb = "body-tv"      -> BodyTvGrammar
      [] verb = "goal"     -> GoalGrammar     [] verb = "battery"      -> BatteryGrammar
      [] verb = "edit"     -> EditGrammar     [] verb = "fill"         -> FillGrammar
      [] verb = "skill"    -> SkillGrammar    [] verb = "smt-export"   -> SmtExportGrammar
      [] verb = "strat-faithful-tv" -> StratFaithfulTvGrammar

Verbs == {"new", "check", "audit", "repair", "review", "build", "tv", "verify-build", "exec-tv",
          "strat-tv", "g2-gate", "body-tv", "goal", "battery", "edit", "fill", "skill",
          "smt-export", "strat-faithful-tv"}

Usage == [ok |-> FALSE]

(* What the loop of a verb has gathered, with one flag, value or word more. *)
Gathered(bare, vals, pos) == [ok |-> TRUE, bare |-> bare, vals |-> vals, pos |-> pos]
WithFlag(f, got)     == IF got.ok THEN [got EXCEPT !.bare = @ \cup {f}] ELSE Usage
WithValue(f, v, got) == IF got.ok THEN [got EXCEPT !.vals = <<<<f, v>>>> \o @] ELSE Usage
WithWord(w, got)     == IF got.ok THEN [got EXCEPT !.pos = <<w>> \o @] ELSE Usage

(* The loop of a verb: what the arguments from the i-th on say.  A flag with *)
(* a value may be given several times.                                       *)
Scan(g, args) ==
    LET from[i \in 1..(Len(args) + 1)] ==
          IF i > Len(args) THEN Gathered({}, <<>>, <<>>)
          ELSE LET a == args[i]
                   followed(values) == i < Len(args) /\ args[i+1] \in values
               IN  CASE a \in g.bare -> WithFlag(a, from[i+1])
                     [] a \in DOMAIN g.valued ->
                          IF followed(g.valued[a]) THEN WithValue(a, args[i+1], from[i+2]) ELSE Usage
                     [] a \in g.counted ->
                          IF followed(Numerals) THEN WithValue(a, args[i+1], from[i+2])
                          ELSE WithFlag(a, from[i+1])
                     [] a \in g.refused -> Usage
                     [] OTHER -> WithWord(a, from[i+1])
    IN  from[1]

ValuesOf(got, flag) == {got.vals[i][2] : i \in {j \in DOMAIN got.vals : got.vals[j][1] = flag}}
Given(got, flag)    == flag \in got.bare \/ ValuesOf(got, flag) # {}

(* The last occurrence of a flag wins. *)
Last(got, flag, default) ==
    LET at == {j \in DOMAIN got.vals : got.vals[j][1] = flag}
    IN  IF at = {} THEN default ELSE got.vals[CHOOSE j \in at : \A k \in at : k <= j][2]

(***************************************************************************)
(* What a verb asks of its arguments as a whole.                           *)
(***************************************************************************)
Level(got)  == Last(got, "--level", "l1")
Target(got) == Last(got, "--target", "std")
HasOut(got) == Given(got, "--out") \/ Given(got, "-o")
Platform    == "x86_64-pc-uefi-smp-v1"

SandboxFlags     == {"--sandbox", "--no-sandbox", "--sandbox-self-test"}
L3Flags          == {"--export", "--compose-export", "--compose-shell", "--crate-name"}

(* Mutant: a platform is accepted for any target. *)
BuildConsistentAnyPlatform(got) ==
    /\ IF Level(got) = "l3"
       THEN /\ ~Given(got, "--entry") /\ got.bare \cap SandboxFlags = {}
            /\ Given(got, "--export") \/ Given(got, "--compose-export")
       ELSE \A f \in L3Flags : ~Given(got, f)

(* The cross checks of a build. *)
BuildConsistent(got) ==
    /\ IF Target(got) = "kernel-image"
       THEN Level(got) = "l3" /\ Last(got, "--platform", "") = Platform /\ HasOut(got)
       ELSE ~Given(got, "--platform")
    /\ IF Level(got) = "l3"
       THEN /\ ~Given(got, "--entry") /\ got.bare \cap SandboxFlags = {}
            /\ Given(got, "--export") \/ Given(got, "--compose-export")
            /\ Given(got, "--compose-export") = Given(got, "--compose-shell")
       ELSE \A f \in L3Flags : ~Given(got, f)

(* `forge edit --restratify' is a demonstration without arguments, and the   *)
(* only form of edit with --json.                                            *)
EditConsistent(got) ==
    IF "--restratify" \in got.bare THEN got.pos = <<>> /\ got.vals = <<>>
    ELSE "--json" \notin got.bare /\ Len(got.pos) = 2 /\ Given(got, "--replace")

ArgsConsistent(verb, got) ==
    CASE verb = "build"   -> BuildConsistent(got)
      [] verb = "edit"    -> EditConsistent(got)
      [] verb = "g2-gate" -> \A f \in Verdicts : Given(got, f)
      [] verb = "skill"   -> Len(got.vals) <= 1
      [] OTHER            -> TRUE

(* parse_args, after the verb was recognised. *)
ParseArgs(verb, args) ==
    LET g   == GrammarOf(verb)
        got == Scan(g, args)
    IN  IF got.ok /\ Len(got.pos) \in g.min..g.max /\ ArgsConsistent(verb, got) THEN got ELSE Usage

(***************************************************************************)
(* The run_* functions: [part, uses], the part of forge that is called and *)
(* the flags that decide how.                                              *)
(***************************************************************************)
Call(part, uses) == [part |-> part, uses |-> uses]

DefaultBudget(got) == ~Given(got, "--rlimit") /\ ~Given(got, "--mutation-floor")
DefaultEngine == "auto"

(* run_check; only the Verus engine at the default budget reaches the cache. *)
RunCheck(got) ==
    LET named == Last(got, "--engine", DefaultEngine)
    IN  IF Last(got, "--level", "l3") \in {"l2", "L2"} THEN Call("check_l2_file", {"--level"})
        ELSE IF named # "verus"
             THEN Call("check_file_with_engine",
                       {"--level", "--engine", "--rlimit", "--mutation-floor"})
        ELSE IF DefaultBudget(got) THEN Call("check_file", {"--level", "--engine"})
        ELSE Call("check_file_with_options",
                  {"--level", "--engine", "--rlimit", "--mutation-floor"})

(* run_build; a kernel image takes its exports from the composition alone. *)
RunBuild(got) ==
    IF Target(got) = "kernel-image"
    THEN Call("build_image", {"--level", "--target", "--compose-export", "--compose-shell",
                              "--platform", "--out", "-o"})
    ELSE IF Level(got) = "l1"
    THEN Call("build_file", {"--level", "--target", "--entry", "--out", "-o"} \cup SandboxFlags)
    ELSE IF ~Given(got, "--compose-export")
    THEN Call("verified_build_file",
              {"--level", "--target", "--export", "--crate-name", "--out", "-o"})
    ELSE Call("build_composition_file", L3Flags \cup {"--level", "--target", "--out", "-o"})

(* The other run_* functions use every flag they are given. *)
Dispatch(verb, got) ==
    CASE verb = "check" -> RunCheck(got)
      [] verb = "build" -> RunBuild(got)
      [] verb = "edit" /\ "--restratify" \in got.bare -> Call("restratify", {"--restratify"})
      [] OTHER -> Call(verb, LongFlags \cup ShortFlags)

Success     == 0
Failure     == 1
Environment == 2

(* The exit code of each verb for what its part of forge reported.  A        *)
(* ForgeError of any kind is Environment.                                    *)
ExitCheck(report)  == IF report.headline = "certified" THEN Success ELSE Failure
ExitAudit(report)  == IF report.headline = "certified" THEN Success ELSE Failure
ExitRepair(report) == IF report.upgraded THEN Success ELSE Failure
ExitBuild(report)  == IF report.rejected THEN Failure ELSE Success
ExitTv(report)     == IF report.divergent + report.generated = 0 THEN Success ELSE Failure
ExitExecTv(report) == IF report.divergent + report.generated = 0 THEN Success ELSE Failure
ExitBodyTv(report) == IF report.divergent = 0 THEN Success ELSE Failure
ExitStratTv(report) ==
    IF report.skipped \/ report.passed THEN Success ELSE Failure
ExitStratFaithfulTv(report) == IF report.passed THEN Success ELSE Failure
ExitSkill(report) == IF report.stale THEN Failure ELSE Success

(* run_g2_gate: the flip is declared in the code, and blocked by a red check. *)
G2Declared == TRUE
ExitG2Gate(got) ==
    IF G2Declared /\ \E f \in Verdicts : Last(got, f, "0") \in {"0", "fail"}
    THEN Failure ELSE Success

ExitCode(verb, got, report) ==
    IF report.error THEN Environment
    ELSE CASE verb = "check"   -> ExitCheck(report)
           [] verb = "audit"   -> ExitAudit(report)
           [] verb = "repair"  -> ExitRepair(report)
           [] verb = "build"   -> ExitBuild(report)
           [] verb = "tv"      -> ExitTv(report)
           [] verb = "exec-tv" -> ExitExecTv(report)
           [] verb = "body-tv" -> ExitBodyTv(report)
           [] verb = "strat-tv" -> ExitStratTv(report)
           [] verb = "strat-faithful-tv" -> ExitStratFaithfulTv(report)
           [] verb = "g2-gate" -> ExitG2Gate(got)
           [] verb = "skill"   -> IF Given(got, "--check") THEN ExitSkill(report) ELSE Success
           [] OTHER            -> Success

(***************************************************************************)
(* A user types a command line and runs it.                                *)
(***************************************************************************)
Pending == [exit |-> 3]    \* no exit code of forge

CmdInit == asked \in Verbs /\ typed = <<>> /\ outcome = Pending

Flatten(groups) ==
    LET upTo[n \in 0..Len(groups)] == IF n = 0 THEN <<>> ELSE upTo[n-1] \o Groups[groups[n]]
    IN  upTo[Len(groups)]

Reversed(s) == [i \in DOMAIN s |-> s[Len(s) + 1 - i]]

(* Words, flags of the verb, and --json, which not every verb knows. *)
Typable(g) ==
    LET grammar == GrammarOf(asked)
    IN  g[1] \in Words \cup {"--json"} \cup grammar.bare \cup DOMAIN grammar.valued \cup grammar.counted

TypeGroup(i) ==
    /\ outcome = Pending /\ Len(typed) < MaxGroups /\ Typable(Groups[i])
    /\ \A j \in DOMAIN typed : typed[j] < i
    /\ typed' = Append(typed, i)
    /\ UNCHANGED <<asked, outcome>>

(* run and dispatch *)
Invoke(report) ==
    LET got == ParseArgs(asked, Flatten(typed))
    IN  /\ outcome = Pending
        /\ outcome' = IF got.ok
                      THEN [exit |-> ExitCode(asked, got, report), report |-> report, got |-> got,
                            call |-> Dispatch(asked, got)]
                      ELSE [exit |-> Environment]
        /\ UNCHANGED <<asked, typed>>

CmdNext ==
    \/ \E i \in DOMAIN Groups : TypeGroup(i)
    \/ \E report \in Reports : Invoke(report)

(***************************************************************************)
(* Properties.                                                             *)
(***************************************************************************)
Ran == outcome # Pending /\ outcome.exit # Environment

(* The flags that may be left out of account: the export and crate name of a  *)
(* kernel image, and the L3 levers of a bounded check.                        *)
Waived(part) ==
    CASE part = "build_image"   -> {"--export", "--crate-name"}
      [] part = "check_l2_file" -> {"--engine", "--rlimit", "--mutation-floor"}
      [] OTHER                  -> {}

(* A command line that is accepted means what it says: every flag on it       *)
(* reaches the part of forge that runs, apart from those Waived names; and    *)
(* typing the same groups in the opposite order asks for the same thing, if   *)
(* no flag is given twice (the last one wins).                                *)
FlagsHonoured ==
    LET got == ParseArgs(asked, Flatten(typed))
        opposite == ParseArgs(asked, Flatten(Reversed(typed)))
        flags    == {Groups[typed[i]][1] : i \in DOMAIN typed}
    IN  /\ Ran => \A i \in DOMAIN typed :
              LET f == Groups[typed[i]][1]
              IN  f \in (LongFlags \cup ShortFlags) \ {"--json"}
                    => f \in outcome.call.uses \cup Waived(outcome.call.part) \/ asked = "new"
        /\ got.ok /\ asked # "new" /\ Len(got.pos) <= 1 /\ Cardinality(flags) = Len(typed)
             => /\ opposite.ok /\ opposite.bare = got.bare
                /\ {opposite.vals[i] : i \in DOMAIN opposite.vals}
                       = {got.vals[i] : i \in DOMAIN got.vals}
====
