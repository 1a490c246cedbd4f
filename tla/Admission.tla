-------------------------------- MODULE Admission ---------------------------------
(***************************************************************************)
(* What forge asks of a parsed program before it lowers it: the rules of   *)
(* the specification language and of data types (thermite-spec/src/        *)
(* validator.rs) and the effects of calls (thermite-lower/src/effects.rs). *)
(*                                                                         *)
(* A program is a sequence of items: functions [k, name, reserved, req,    *)
(* ens, dec, fx, body], specification functions [k, name, reserved, dec,   *)
(* body], structs [k, name, sealed, fields, inv] and enums [k, name,       *)
(* variants], a variant being [name, upper, fields, arity].  A diagnostic  *)
(* is its kind; positions are left out.  A qualified callee has n = 1.     *)
(***************************************************************************)
EXTENDS Surface

CONSTANTS MaxContractDepth, MaxWalkDepth   \* MAX_RECURSION_DEPTH, MAX_WALK_DEPTH

ItemsOf(p, k) == {p[i] : i \in {j \in DOMAIN p : p[j].k = k}}

(***************************************************************************)
(* Registries.                                                             *)
(***************************************************************************)
CombinatorKinds ==
    [sorted |-> <<"slice">>, permutation_of |-> <<"slice", "slice">>, disjoint |-> <<"slice", "slice">>,
     forall_in |-> <<"slice", "pred">>, exists_in |-> <<"slice", "pred">>, count_where |-> <<"slice", "pred">>,
     forall_below |-> <<"slice", "index", "pred">>, forall_from |-> <<"slice", "index", "pred">>]
(* Arguments before the step, and parameters of the step *)
SchemeShape ==
    [fold |-> <<2, 2>>, traverse |-> <<1, 2>>, map |-> <<1, 1>>, for_all |-> <<1, 1>>, exists |-> <<1, 1>>]
BuiltinMethods == {"len", "get", "last", "contains", "contains_key", "byte_at", "concat", "slice", "push_byte",
                   "to_string", "starts_with", "ends_with", "find", "split", "trim"}
GeneratedSpecFns == {"final", "parse_be", "parse_le", "pow10", "all_digits", "is_digit", "occurs_at", "contains_sub",
                     "count_sep", "sep_free", "is_space", "bytes_eq"}

(***************************************************************************)
(* Validator::new: what the items declare.  Of two enums with a variant of *)
(* one name the later has it; Option and Result give way to the user's.    *)
(***************************************************************************)
Builtin == [Option |-> {"Some", "None"}, Result |-> {"Ok", "Err"}]
VariantNames(e) == {e.variants[j].name : j \in DOMAIN e.variants}
EnumAt(p, x) == LET is == {i \in DOMAIN p : p[i].k = "enum" /\ p[i].name = x} IN p[CHOOSE i \in is : \A j \in is : j <= i]
OwnerAt(p, v) ==
    LET is == {i \in DOMAIN p : p[i].k = "enum" /\ v \in VariantNames(p[i])}
    IN  p[CHOOSE i \in is : \A j \in is : j <= i].name
Declares(p) ==
    LET enums == {e.name : e \in ItemsOf(p, "enum")}
        users == UNION {VariantNames(e) : e \in ItemsOf(p, "enum")}
        all   == users \cup UNION {Builtin[b] : b \in DOMAIN Builtin}
    IN  [specFns |-> GeneratedSpecFns \cup {s.name : s \in ItemsOf(p, "spec")},
         enums   |-> [x \in enums \cup DOMAIN Builtin |-> IF x \in enums THEN VariantNames(EnumAt(p, x)) ELSE Builtin[x]],
         owner   |-> [v \in all |-> IF v \in users THEN OwnerAt(p, v)
                                    ELSE CHOOSE b \in DOMAIN Builtin : v \in Builtin[b]],
         fields  |-> UNION {s.fields : s \in ItemsOf(p, "struct")}
                     \cup UNION {UNION {e.variants[j].fields : j \in DOMAIN e.variants} : e \in ItemsOf(p, "enum")},
         sealed  |-> {s.name : s \in {t \in ItemsOf(p, "struct") : t.sealed}}]
(* Mutant: a variant that looks like a binding may be declared. *)
CasingErrorsLax(p) == {}
CasingErrors(p) ==
    {"InvalidVariantCasing" : e \in {d \in ItemsOf(p, "enum") : \E j \in DOMAIN d.variants : ~d.variants[j].upper}}

(***************************************************************************)
(* Matches.                                                                *)
(***************************************************************************)
RECURSIVE CoveredVariants(_)
(* collect_covered_variants; the first of them is variant_pattern_name *)
CoveredVariants(q) ==
    CASE q.k \in {"enum", "structpat"} -> <<q.x>>
      [] q.k = "or" -> LET RECURSIVE all(_)
                           all(j) == IF j > Len(q.s) THEN <<>> ELSE CoveredVariants(q.s[j]) \o all(j + 1)
                       IN  all(1)
      [] OTHER -> <<>>
RECURSIVE IsCatchAll(_)
IsCatchAll(q) == q.k \in {"wild", "bind"} \/ (q.k = "or" /\ \E j \in DOMAIN q.s : IsCatchAll(q.s[j]))

Guarded(arm) == Len(arm.s) = 3

(* The loop of check_match_exhaustiveness over the arms from the j-th on *)
RECURSIVE ArmErrors(_, _, _, _, _)
VariantErrors(vs, declared, covered, wild, guarded) ==
    {CASE wild -> "UnreachableArm"
       [] ~wild /\ vs[i] \notin declared -> "UnknownVariant"
       [] ~wild /\ vs[i] \in declared /\ ~guarded
          /\ (vs[i] \in covered \/ \E h \in 1..(i - 1) : vs[h] = vs[i]) -> "UnreachableArm"
       [] OTHER -> "none" : i \in DOMAIN vs} \ {"none"}
ArmErrors(arms, j, declared, covered, wild) ==
    IF j > Len(arms)
    THEN IF wild \/ declared \subseteq covered THEN {} ELSE {"NonExhaustiveMatch"}
    ELSE LET q  == arms[j].s[1]
             vs == CoveredVariants(q)
             g  == Guarded(arms[j])
         IN  IF ~g /\ IsCatchAll(q)
             THEN (IF wild THEN {"UnreachableArm"} ELSE {}) \cup ArmErrors(arms, j + 1, declared, covered, TRUE)
             ELSE VariantErrors(vs, declared, covered, wild, g)
                  \cup ArmErrors(arms, j + 1, declared,
                                 IF g \/ wild THEN covered ELSE covered \cup ({vs[i] : i \in DOMAIN vs} \cap declared), wild)

(* The enum is that of the first arm that names a known variant *)
MatchedEnum(arms, v) ==
    LET named == {j \in DOMAIN arms : CoveredVariants(arms[j].s[1]) # <<>>
                                      /\ CoveredVariants(arms[j].s[1])[1] \in DOMAIN v.owner}
    IN  IF named = {} THEN <<>>
        ELSE <<v.owner[CoveredVariants(arms[CHOOSE j \in named : \A i \in named : j <= i].s[1])[1]]>>
(* Mutant: a guarded arm counts as one that is taken. *)
CheckMatchGuardless(arms, v) ==
    IF MatchedEnum(arms, v) = <<>> THEN {}
    ELSE ArmErrors([j \in DOMAIN arms |-> [arms[j] EXCEPT !.s = <<arms[j].s[1], arms[j].s[Len(arms[j].s)]>>]], 1,
                   v.enums[MatchedEnum(arms, v)[1]], {}, FALSE)
(* check_match_exhaustiveness: without a known variant only guards are looked at *)
CheckMatchExhaustiveness(arms, v) ==
    IF MatchedEnum(arms, v) = <<>>
    THEN IF arms # <<>> /\ \A j \in DOMAIN arms : Guarded(arms[j]) THEN {"NonExhaustiveMatch"} ELSE {}
    ELSE ArmErrors(arms, 1, v.enums[MatchedEnum(arms, v)[1]], {}, FALSE)

(***************************************************************************)
(* Names of fields, variants and sealed structs.                           *)
(***************************************************************************)
CheckSealedConstruction(x, v) == IF x \in v.sealed THEN {"SealedConstruction"} ELSE {}
CheckField(x, v)      == IF v.fields # {} /\ x \notin v.fields THEN {"UnknownField"} ELSE {}
CheckVariantRef(x, v) == IF x \in DOMAIN v.owner THEN {} ELSE {"UnknownVariant"}

(* What both walks ask of one node *)
NodeErrors(e, v) ==
    CASE e.k = "field"  -> CheckField(e.x, v)
      [] e.k = "struct" -> CheckSealedConstruction(e.x, v) \cup UNION {CheckField(e.s[j].x, v) : j \in DOMAIN e.s}
      [] e.k = "is"     -> CheckVariantRef(e.x, v)
      [] e.k = "match"  -> CheckMatchExhaustiveness(Tail(e.s), v)
      [] OTHER -> {}

(* The expressions and blocks right below a node, without patterns, types and binders, *)
(* and without the condition of a while and the clauses of a loop.                     *)
Parts(e) ==
    CASE e.k \in {"path", "int", "bool", "str"} -> {}
      [] e.k = "closure" -> {e.s[Len(e.s)]}
      [] e.k = "quant"   -> {e.s[2], e.s[3]}
      [] e.k = "match"   -> {e.s[1]} \cup UNION {{e.s[j].s[i] : i \in 2..Len(e.s[j].s)} : j \in 2..Len(e.s)}
      [] e.k = "struct"  -> {e.s[j].s[1] : j \in DOMAIN e.s}
      [] e.k \in {"let", "loop", "while"} -> {e.s[Len(e.s)]}
      [] OTHER -> {e.s[j] : j \in DOMAIN e.s}
Clauses(l) == {l.s[j] : j \in (IF l.k = "while" THEN 2 ELSE 1)..(Len(l.s) - 1)}

(***************************************************************************)
(* The walk of a contract position.  m: how deep it is and whether it is   *)
(* within a predicate of a combinator (comb) or a step of a scheme (step). *)
(***************************************************************************)
RECURSIVE WalkExpr(_, _, _)
Deeper(m) == [m EXCEPT !.depth = @ + 1]
WalkAll(es, m, v) == UNION {WalkExpr(e, m, v) : e \in es}
Args(e) == {e.s[j] : j \in DOMAIN e.s}

(* check_arg_kind *)
CheckArgKind(kind, arg, m, v) ==
    IF kind = "pred"
    THEN IF arg.k = "closure" THEN WalkExpr(arg.s[Len(arg.s)], [m EXCEPT !.comb = TRUE], v)
         ELSE {"WrongArgKind"} \cup WalkExpr(arg, m, v)
    ELSE (IF arg.k = "closure" THEN {"WrongArgKind"} ELSE {}) \cup WalkExpr(arg, m, v)
CheckCombinator(e, m, v) ==
    IF Len(e.s) # Len(CombinatorKinds[e.x]) THEN {"WrongArity"} \cup WalkAll(Args(e), m, v)
    ELSE UNION {CheckArgKind(CombinatorKinds[e.x][j], e.s[j], m, v) : j \in DOMAIN e.s}
CheckScheme(e, m, v) ==
    LET before == SchemeShape[e.x][1]
        step   == e.s[before + 1]
    IN  IF Len(e.s) # before + 1 THEN {"SchemeWrongArity"} \cup WalkAll(Args(e), m, v)
        ELSE WalkAll({e.s[j] : j \in 1..before}, m, v)
             \cup (IF step.k # "closure" THEN {"SchemeStepShape"} \cup WalkExpr(step, m, v)
                   ELSE (IF step.n # SchemeShape[e.x][2] THEN {"SchemeStepShape"} ELSE {})
                        \cup WalkExpr(step.s[Len(step.s)], [m EXCEPT !.step = TRUE], v))
(* Mutant: what is within a step is not known to be. *)
WalkCallUnnested(e, m, v) ==
    CASE e.x \in DOMAIN SchemeShape -> CheckScheme(e, m, v)
      [] e.x \in DOMAIN CombinatorKinds /\ ~m.comb -> CheckCombinator(e, m, v)
      [] OTHER -> (IF e.x \in v.specFns THEN {} ELSE {"UnknownCombinator"}) \cup WalkAll(Args(e), m, v)
(* walk_call *)
WalkCall(e, m, v) ==
    CASE e.n = 1 -> {"ForbiddenCall"} \cup WalkAll(Args(e), m, v)
      [] e.n = 0 /\ e.x \in DOMAIN SchemeShape ->
            IF m.step \/ m.comb THEN {"NestedScheme"} \cup WalkAll(Args(e), m, v) ELSE CheckScheme(e, m, v)
      [] e.n = 0 /\ e.x \in DOMAIN CombinatorKinds ->
            IF m.step \/ m.comb THEN {IF m.step THEN "NestedScheme" ELSE "NestedCombinator"} \cup WalkAll(Args(e), m, v)
            ELSE CheckCombinator(e, m, v)
      [] OTHER -> (IF e.x \in v.specFns THEN {} ELSE {"UnknownCombinator"}) \cup WalkAll(Args(e), m, v)

(* walk_expr_inner, walk_block and walk_stmt *)
WalkInner(e, m, v) ==
    CASE e.k = "call"   -> WalkCall(e, m, v)
      [] e.k = "method" -> (IF e.x \in BuiltinMethods THEN {} ELSE {"ForbiddenCall"}) \cup WalkAll(Parts(e), m, v)
      [] e.k = "closure" -> {"ForbiddenCall"} \cup WalkAll(Parts(e), m, v)
      [] e.k \in {"loop", "while"} -> WalkAll(Clauses(e), m, v) \cup WalkAll(Parts(e), m, v)
      [] OTHER -> NodeErrors(e, v) \cup WalkAll(Parts(e), m, v)
(* walk_expr and descend: a statement is no deeper than its block *)
WalkExpr(e, m, v) ==
    IF e.k \in StmtKinds THEN WalkInner(e, m, v)
    ELSE IF m.depth >= MaxContractDepth THEN {"ExpressionTooDeep"} ELSE WalkInner(e, Deeper(m), v)
WalkClause(e, v) == WalkExpr(e, [depth |-> 0, comb |-> FALSE, step |-> FALSE], v)

(* scan_block_for_loops, scan_stmt_for_loops, scan_expr_for_loops: code *)
RECURSIVE ScanForLoops(_, _)
ScanForLoops(e, v) ==
    (IF e.k \in {"loop", "while"} THEN UNION {WalkClause(c, v) : c \in Clauses(e)} ELSE NodeErrors(e, v))
    \cup UNION {ScanForLoops(c, v) : c \in Parts(e)}

(***************************************************************************)
(* Recursion without a measure, and the whole validator.                   *)
(***************************************************************************)
RECURSIVE CallsName(_, _)
(* block_calls_name: neither guards of arms nor conditions of while *)
CallsName(e, f) ==
    \/ e.k = "call" /\ e.x = f
    \/ IF e.k = "match" THEN \E c \in {e.s[1]} \cup {e.s[j].s[Len(e.s[j].s)] : j \in 2..Len(e.s)} : CallsName(c, f)
       ELSE \E c \in Parts(e) : CallsName(c, f)

ItemErrors(it, v) ==
    (IF it.k \in {"fn", "spec"} /\ it.reserved THEN {"ReservedName"} ELSE {})
    \cup CASE it.k = "fn" ->
                WalkClause(it.req, v) \cup UNION {WalkClause(it.ens[j], v) : j \in DOMAIN it.ens}
                \cup (IF it.body = <<>> THEN {}
                      ELSE ScanForLoops(it.body[1], v)
                           \cup (IF it.dec = <<>> /\ "diverge" \notin it.fx /\ CallsName(it.body[1], it.name)
                                 THEN {"MissingDecreases"} ELSE {}))
           [] it.k = "spec"   -> WalkClause(it.dec, v) \cup WalkClause(it.body, v)
           [] it.k = "struct" -> UNION {WalkClause(it.inv[j], v) : j \in DOMAIN it.inv}
           [] OTHER -> {}
Validate(p) == LET v == Declares(p) IN CasingErrors(p) \cup UNION {ItemErrors(p[i], v) : i \in DOMAIN p}

(***************************************************************************)
(* Effects.                                                                *)
(***************************************************************************)
(* EffectKind::bit: a row is a word with a bit for each kind *)
EffectBit ==
    [read |-> 0, write |-> 1, net |-> 2, alloc |-> 3, time |-> 4, rand |-> 5, panic |-> 6, diverge |-> 7, term |-> 8,
     boot |-> 9, memory |-> 10, mmio |-> 11, pio |-> 12, irq |-> 13, cpu |-> 14, atomic |-> 15, smp |-> 16, dma |-> 17,
     clock |-> 18, entropy |-> 19, power |-> 20]
RECURSIVE Mask(_)
Mask(row) == IF row = {} THEN 0 ELSE LET a == CHOOSE x \in row : TRUE IN Power(EffectBit[a]) + Mask(row \ {a})
(* Mutant: the masks are cut to the nine kinds of the first version. *)
SubsumesNine(caller, callee) == BitsOp("&", callee, Power(9) - 1 - (caller % Power(9)), 9) = 0
SubsumesMasks(caller, callee) == BitsOp("&", callee, Power(21) - 1 - caller, 21) = 0
Subsumes(caller, callee) == SubsumesMasks(Mask(caller), Mask(callee))

(* check_call: the first function of the name; what is none is free *)
RowOf(p, f) ==
    LET is == {i \in DOMAIN p : p[i].k = "fn" /\ p[i].name = f}
    IN  IF is = {} THEN <<>> ELSE <<p[CHOOSE i \in is : \A j \in is : i <= j].fx>>
CheckCall(p, f, row) == IF RowOf(p, f) = <<>> \/ Subsumes(row, RowOf(p, f)[1]) THEN {} ELSE {"EffectNotSubsumed"}

(* The parts of a statement or a block that check_block looks at, and those of an *)
(* expression that check_expr looks at: no guards                                 *)
EffectiveStmt(t) == IF t.k = "while" THEN {t.s[1], t.s[Len(t.s)]} ELSE Parts(t)
Effective(e) ==
    CASE e.k = "match" -> {e.s[1]} \cup {e.s[j].s[Len(e.s[j].s)] : j \in 2..Len(e.s)}
      [] e.k \in StmtKinds \cup {"block"} -> EffectiveStmt(e)
      [] OTHER -> Parts(e)
RECURSIVE CheckExpr(_, _, _, _)
CheckExpr(e, row, p, depth) ==
    IF e.k \notin StmtKinds /\ depth >= MaxWalkDepth THEN {"TooDeep"}
    ELSE (IF e.k \in {"call", "method"} THEN CheckCall(p, e.x, row) ELSE {})
         \cup (IF e.k = "call" /\ depth + 1 >= MaxWalkDepth THEN {"TooDeep"} ELSE {})   \* the callee is a path
         \cup UNION {CheckExpr(c, row, p, IF e.k \in StmtKinds THEN depth ELSE depth + 1) : c \in Effective(e)}
CheckEffects(p) == UNION {IF f.body = <<>> THEN {} ELSE CheckExpr(f.body[1], f.fx, p, 0) : f \in ItemsOf(p, "fn")}

(* check_file, before anything is lowered *)
Admission(p) == IF Validate(p) # {} THEN Validate(p) ELSE CheckEffects(p)

(***************************************************************************)
(* Reference: what a program that is let through does not do.              *)
(***************************************************************************)
(* Everything that is evaluated when a body runs; guards and conditions on demand *)
RECURSIVE Evaluated(_, _, _)
Evaluated(e, guards, conds) ==
    {e} \cup UNION {Evaluated(c, guards, conds) :
        c \in (IF guards \/ e.k # "match" THEN Parts(e) ELSE Effective(e)) \cup (IF conds /\ e.k = "while" THEN {e.s[1]} ELSE {})}
BodyOfItem(it, guards, conds) ==
    CASE it.k = "fn" -> IF it.body = <<>> THEN {} ELSE Evaluated(it.body[1], guards, conds)
      [] it.k = "spec" -> Evaluated(it.body, guards, conds)
      [] OTHER -> {}

(* The functions a call of f may run *)
CalledBy(p, f, guards) ==
    {e.x : e \in {d \in UNION {BodyOfItem(it, guards, TRUE) : it \in {q \in ItemsOf(p, "fn") : q.name = f}} : d.k \in {"call", "method"}}}
RECURSIVE Reaches(_, _, _)
Reaches(p, seen, guards) ==
    LET more == seen \cup UNION {CalledBy(p, f, guards) : f \in seen}
    IN  IF more = seen THEN seen ELSE Reaches(p, more, guards)
EffectsDeclared(p, guards) ==
    \A f \in ItemsOf(p, "fn") :
        UNION {g.fx : g \in {h \in ItemsOf(p, "fn") : h.name \in Reaches(p, CalledBy(p, f.name, guards), guards)}} \subseteq f.fx

(* A value is Node("val", variant, 0, payload).  A binding with the name of a variant is *)
(* meant to be that variant.                                                            *)
RECURSIVE MatchesValue(_, _, _)
MatchesValue(q, u, en) ==
    CASE q.k = "wild" -> TRUE
      [] q.k = "bind" -> q.x \in VariantNames(en) => u.x = q.x
      [] q.k = "lit" -> u = q.s[1]
      [] q.k = "or"  -> \E j \in DOMAIN q.s : MatchesValue(q.s[j], u, en)
      [] q.k = "enum" -> u.k = "val" /\ u.x = q.x /\ Len(q.s) <= Len(u.s) /\ \A j \in DOMAIN q.s : MatchesValue(q.s[j], u.s[j], en)
      [] OTHER -> FALSE
ValuesOf(e) ==
    UNION {{Node("val", e.variants[j].name, 0, s) : s \in [1..e.variants[j].arity -> {Lit(0), Lit(1)}]} : j \in DOMAIN e.variants}
(* A payload pattern that may fail *)
Refutable(q) == \E u \in Subtrees(q) : u.k \in {"enum", "structpat"} /\ \E j \in DOMAIN u.s : ~IsCatchAll(u.s[j])
(* A match over the values of an enum has an arm for each, whatever its guards say *)
MatchTotal(e, en) ==
    \A u \in ValuesOf(en) : \E j \in 2..Len(e.s) : ~Guarded(e.s[j]) /\ MatchesValue(e.s[j].s[1], u, en)
MatchesTotal(p, en, conds) ==
    \A e \in UNION {BodyOfItem(p[i], TRUE, conds) : i \in DOMAIN p} :
        e.k = "match" /\ (\E j \in 2..Len(e.s) : \E u \in Subtrees(e.s[j].s[1]) : u.k \in {"enum", "bind"} /\ u.x \in VariantNames(en))
        /\ (\A j \in 2..Len(e.s) : ~Refutable(e.s[j].s[1])) => MatchTotal(e, en)

SealedKept(p, conds) ==
    \A e \in UNION {BodyOfItem(p[i], TRUE, conds) : i \in DOMAIN p} :
        e.k = "struct" => \A s \in ItemsOf(p, "struct") : s.sealed => s.name # e.x

(* A function that runs itself directly has a measure or says that it diverges *)
MeasuresGiven(p, guards, conds) ==
    \A f \in ItemsOf(p, "fn") :
        (\E e \in BodyOfItem(f, guards, conds) : e.k = "call" /\ e.x = f.name) => f.dec # <<>> \/ "diverge" \in f.fx

(* No quantifier within the predicate of another *)
IsQuantifier(e) == e.k = "call" /\ e.n = 0 /\ e.x \in DOMAIN CombinatorKinds \cup DOMAIN SchemeShape
Flat(c) ==
    \A e \in Subtrees(c) : IsQuantifier(e) =>
        \A j \in DOMAIN e.s : e.s[j].k = "closure" => \A u \in Subtrees(e.s[j].s[Len(e.s[j].s)]) : ~IsQuantifier(u)
ContractsOf(p) ==
    UNION {{f.req} \cup {f.ens[j] : j \in DOMAIN f.ens} : f \in ItemsOf(p, "fn")} \cup {s.body : s \in ItemsOf(p, "spec")}
====
