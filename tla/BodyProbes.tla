--------------------------------- MODULE BodyProbes -------------------------------
(***************************************************************************)
(* What forge does with a function besides proving it.                     *)
(*                                                                         *)
(* The gate (forge/src/vacuity.rs, slag.rs, check.rs): a contract that     *)
(* promises nothing is refused on sight, and a function that is waived,    *)
(* foreign or may run for ever is certified without proof.                 *)
(*                                                                         *)
(* Covenants (forge/src/covenant_eval.rs, covenant_engine.rs): the body is *)
(* executed on the inputs its author wrote and on generated ones, and      *)
(* proof search starts only if its contract survives.                      *)
(*                                                                         *)
(* Mutants (forge/src/mutation.rs): early returns at the head of the body, *)
(* then one mutant for each operator, literal and branch.  A first walk    *)
(* numbers the sites and records what to do at each; a second walk of its  *)
(* own, with one action armed, numbers them again and rewrites the site    *)
(* with the action's number.                                               *)
(*                                                                         *)
(* A function is [params, ret, req, ens, body], with a body <<b>> or <<>>  *)
(* where a covenant is about it; at the gate it has no body but effects fx *)
(* and the attribute attr, [kind, fields].  structs is a function from the *)
(* names of the structs to the sequence of their <<field, type>>.          *)
(***************************************************************************)
EXTENDS Surface

Scalars == {"u8", "u16", "u32", "u64", "usize", "bool"}

(***************************************************************************)
(* The evaluator of covenants.  A result is an integer or a Boolean, a     *)
(* trap, or any other error, of which only the wording differs.  Integers  *)
(* are i128, which nothing here leaves; every word has w bits.             *)
(***************************************************************************)
IntOf(n)  == [k |-> "int", v |-> n]
BoolOf(b) == [k |-> "bool", v |-> Flag(b)]
Trap      == [k |-> "trap", v |-> 0]
Error     == [k |-> "error", v |-> 0]
Failed(r) == r.k \in {"trap", "error"}

(* Value::as_int, Value::as_bool *)
AsInt(r)  == IF r.k = "bool" THEN Error ELSE r
AsBool(r) == IF r.k = "int" THEN Error ELSE r

(* Two's complement of more bits than any number here has. *)
SignedBits(op, a, b) ==
    LET bits == BitsOp(op, a, b, 8)
        neg  == BitsOp(op, Flag(a < 0), Flag(b < 0), 1) = 1
    IN  IF neg THEN bits - Power(8) ELSE bits

(* eval_binary, of two integers *)
IntBinary(op, a, b) ==
    CASE op = "+" -> IntOf(a + b) [] op = "-" -> IntOf(a - b) [] op = "*" -> IntOf(a * b)
      [] op \in Division -> IF b = 0 THEN Trap
                            ELSE IF op = "/" THEN IntOf(Quotient(a, b)) ELSE IntOf(a - b * Quotient(a, b))
      [] op \in Shifts   -> IF b \notin 0..127 THEN Trap
                            ELSE IF op = "<<" THEN IntOf(a * Power(b)) ELSE IntOf(a \div Power(b))
      [] op \in BitOps   -> IntOf(SignedBits(op, a, b))
      [] op = "<"  -> BoolOf(a < b)  [] op = ">"  -> BoolOf(a > b)
      [] op = "<=" -> BoolOf(a <= b) [] op = ">=" -> BoolOf(a >= b)

(* eval_binary and value_eq, after both operands *)
EvalBinary(op, l, r) ==
    CASE Failed(l) -> l
      [] ~Failed(l) /\ Failed(r) -> r
      [] ~Failed(l) /\ ~Failed(r) /\ op \in {"==", "!="} ->
            IF l.k # r.k THEN Error ELSE BoolOf((l.v = r.v) <=> (op = "=="))
      [] OTHER -> IF Failed(AsInt(l)) \/ Failed(AsInt(r)) THEN Error ELSE IntBinary(op, l.v, r.v)

(* eval_binary of && and ||, which leave the right operand alone if they can *)
Connected(op, l, r) ==
    CASE Failed(AsBool(l)) -> AsBool(l)
      [] ~Failed(AsBool(l)) /\ l.v = Flag(op = "||") -> l
      [] OTHER -> AsBool(r)

(* eval_expr of ! *)
Inverted(r) == CASE r.k = "bool" -> BoolOf(r.v = 0) [] r.k = "int" -> IntOf(-r.v - 1) [] OTHER -> r

(* eval_expr of a cast, with cast_width *)
Truncated(r, ty, w) ==
    CASE Failed(AsInt(r)) -> AsInt(r)
      [] ~Failed(AsInt(r)) /\ ty \in Scalars \ {"bool"} -> IntOf(r.v % Power(w))
      [] OTHER -> Error

(* What eval_block and eval_stmts thread: the environment, the names of let mut, *)
(* and the value of a return, <<>> before it.  An expression ends with a value.  *)
Fresh(env)  == [env |-> env, mutable |-> {}, out |-> <<>>]
Gives(s, r) == [s EXCEPT !.out = <<r>>]

Bound(t, s, r) ==
    IF Failed(r) THEN Gives(s, r)
    ELSE [s EXCEPT !.env = With(s.env, t.x, r),
                   !.mutable = IF t.n = 1 THEN s.mutable \cup {t.x} ELSE s.mutable \ {t.x}]

Assigned(t, s, r) ==
    CASE t.s[1].k # "path" \/ t.s[1].x \notin s.mutable -> Gives(s, Error)
      [] t.s[1].k = "path" /\ t.s[1].x \in s.mutable /\ Failed(r) -> Gives(s, r)
      [] OTHER -> [s EXCEPT !.env = With(s.env, t.s[1].x, r)]

(* eval_expr, eval_block and eval_stmts call one another.  A branch of an if   *)
(* statement runs in the environment around it, and its tail has no meaning;   *)
(* an expression statement is skipped.                                         *)
RECURSIVE Evaluate(_, _, _, _)
Evaluate(what, t, s, w) ==
    LET value(e)  == Evaluate("expr", e, s, w).out[1]
        last      == value(t.s[Len(t.s)])
        truth     == AsBool(value(t.s[1]))
        branch(r) == IF r.v = 1 THEN 2 ELSE 3
        after     == Evaluate("stmts", Stmts(t), Fresh(s.env), w)
    IN  CASE what = "stmts" ->
               IF t = <<>> \/ s.out # <<>> THEN s
               ELSE Evaluate("stmts", SubSeq(t, 2, Len(t)), Evaluate("stmt", t[1], s, w), w)
          [] what = "stmt" ->
               (CASE t.k = "let"    -> Bound(t, s, last)
                  [] t.k = "assign" -> Assigned(t, s, last)
                  [] t.k = "return" -> Gives(s, IF t.n = 1 THEN last ELSE Error)
                  [] t.k = "ifstmt" ->
                       IF Failed(truth) THEN Gives(s, truth)
                       ELSE IF branch(truth) > Len(t.s) THEN s
                       ELSE Evaluate("stmts", Stmts(t.s[branch(truth)]), s, w)
                  [] t.k = "expr"   -> s
                  [] OTHER          -> Gives(s, Error))
          [] what = "block" ->
               Gives(s, IF after.out # <<>> THEN after.out[1]
                        ELSE IF HasTail(t) THEN Evaluate("expr", TailOf(t), after, w).out[1]
                        ELSE Error)
          [] what = "expr" ->
               Gives(s, CASE t.k = "int"   -> IntOf(t.n)
                          [] t.k = "bool"  -> BoolOf(t.n = 1)
                          [] t.k = "path"  -> IF t.n = 1 /\ t.x \in DOMAIN s.env THEN s.env[t.x] ELSE Error
                          [] t.k = "unary" -> Inverted(value(t.s[1]))
                          [] t.k = "binary" /\ t.x \in Connectives -> Connected(t.x, value(t.s[1]), value(t.s[2]))
                          [] t.k = "binary" /\ t.x \notin Connectives -> EvalBinary(t.x, value(t.s[1]), value(t.s[2]))
                          [] t.k = "if"    -> IF Failed(truth) THEN truth
                                              ELSE Evaluate("block", t.s[branch(truth)], s, w).out[1]
                          [] t.k = "cast"  -> Truncated(value(t.s[1]), t.x, w)
                          [] OTHER         -> Error)

EvalExpr(e, env, w)  == Evaluate("expr", e, Fresh(env), w).out[1]
EvalBlock(b, env, w) == Evaluate("block", b, Fresh(env), w).out[1]

(***************************************************************************)
(* The covenant engine.  A witness block is [inhabits, budget]: sequences  *)
(* of expressions, and how many inputs are generated.                      *)
(***************************************************************************)
(* witness_bindings: the block belongs to the last function before it. *)
RECURSIVE BindingsFrom(_, _, _, _)
BindingsFrom(items, i, fn, out) ==
    IF i > Len(items) THEN out
    ELSE CASE items[i].k = "fn" -> BindingsFrom(items, i + 1, <<items[i].name>>, out)
           [] items[i].k = "witness" /\ fn # <<>> -> BindingsFrom(items, i + 1, fn, With(out, fn[1], items[i]))
           [] OTHER -> BindingsFrom(items, i + 1, fn, out)
WitnessBindings(items) == BindingsFrom(items, 1, <<>>, [x \in {} |-> 0])

(* ParamKind::of_type *)
ScalarType(ty) == ty.k = "prim" /\ ty.x \in Scalars

(* gen_value: what may be drawn for a type.  Every value of it may. *)
Drawn(ty, w) == IF ty.x = "bool" THEN {BoolOf(b) : b \in BOOLEAN} ELSE {IntOf(n) : n \in 0..(Power(w) - 1)}

(* Mutant: the width of a parameter is not compared. *)
BindParamsUnranged(params, vals, w) ==
    IF Len(vals) # Len(params) THEN "CovenantArityMismatch"
    ELSE IF \E i \in DOMAIN vals : vals[i].k # (IF params[i][2].x = "bool" THEN "bool" ELSE "int")
         THEN "CovenantWitnessTypeMismatch"
    ELSE "none"

(* bind_params: the cause of a refusal, or none. *)
BindParams(params, vals, w) ==
    IF Len(vals) # Len(params) THEN "CovenantArityMismatch"
    ELSE IF \E i \in DOMAIN vals : vals[i] \notin Drawn(params[i][2], w) THEN "CovenantWitnessTypeMismatch"
    ELSE "none"
Environment(params, vals) ==
    [x \in {params[i][1] : i \in DOMAIN params} |-> vals[CHOOSE i \in DOMAIN params : params[i][1] = x]]

(* eval_inhabit, in no environment *)
EvalInhabit(args, w) == [i \in DOMAIN args |-> EvalExpr(args[i], [x \in {} |-> 0], w)]

(* eval_req *)
EvalReq(f, env, w) == AsBool(EvalExpr(f.req, env, w))

(* body_satisfies_ens: the clauses in order, up to one that fails. *)
RECURSIVE ClausesFrom(_, _, _, _)
ClausesFrom(ens, i, env, w) ==
    IF i > Len(ens) THEN BoolOf(TRUE)
    ELSE LET r == AsBool(EvalExpr(ens[i], env, w))
         IN  IF Failed(r) \/ r.v = 0 THEN r ELSE ClausesFrom(ens, i + 1, env, w)
EnsOf(ens, env, result, w) == IF Failed(result) THEN result ELSE ClausesFrom(ens, 1, With(env, "result", result), w)
BodySatisfiesEns(f, env, w) ==
    IF f.body = <<>> THEN Error ELSE EnsOf(f.ens, env, EvalBlock(f.body[1], env, w), w)

(* analyze_covenant, (2): one witness of the author *)
Inhabits(f, vals, w) ==
    CASE \E i \in DOMAIN vals : Failed(vals[i]) -> "CovenantUnsupportedItem"
      [] (\A i \in DOMAIN vals : ~Failed(vals[i])) /\ BindParams(f.params, vals, w) # "none" -> BindParams(f.params, vals, w)
      [] OTHER -> LET r == EvalReq(f, Environment(f.params, vals), w)
                  IN  CASE Failed(r) -> "CovenantUnsupportedItem"
                        [] ~Failed(r) /\ r.v = 0 -> "CovenantWitnessRefutesReq"
                        [] OTHER -> "none"

(* analyze_covenant, (4): what one input comes to.  A trap is passed over. *)
Judged(r) == CASE r.k = "trap" -> "pass" [] r.k = "error" -> "unsupported" [] OTHER -> IF r.v = 1 THEN "pass" ELSE "refuted"
Authored(f, vals, w) == Judged(BodySatisfiesEns(f, Environment(f.params, vals), w))
Generated(f, vals, w) ==
    LET env == Environment(f.params, vals)
        req == EvalReq(f, env, w)
    IN  CASE req.k = "trap" -> "pass"
          [] req.k = "error" -> "unsupported"
          [] OTHER -> IF req.v = 0 THEN "pass" ELSE Judged(BodySatisfiesEns(f, env, w))

Outcome(verdict, cause, input) == [verdict |-> verdict, cause |-> cause, input |-> input]
Refusal(cause)   == Outcome("error", cause, <<>>)
Decided(j, vals) == IF j = "refuted" THEN Outcome("refuted", "none", vals) ELSE Refusal("CovenantUnsupportedItem")

(* analyze_covenant: the outcomes, for every sequence of inputs the generator may draw. *)
AnalyzeCovenant(f, witness, w) ==
    LET given   == [i \in DOMAIN witness.inhabits |-> EvalInhabit(witness.inhabits[i], w)]
        refused == {i \in DOMAIN given : Inhabits(f, given[i], w) # "none"}
        stopped == {i \in DOMAIN given : Authored(f, given[i], w) # "pass"}
        first(S) == CHOOSE i \in S : \A j \in S : i <= j
        inputs  == {vals \in [DOMAIN f.params -> UNION {Drawn(f.params[i][2], w) : i \in DOMAIN f.params}] :
                        \A i \in DOMAIN vals : vals[i] \in Drawn(f.params[i][2], w)}
        valid   == Outcome("validated", "none", <<>>)
    IN  CASE \E i \in DOMAIN f.params : ~ScalarType(f.params[i][2]) -> {Refusal("CovenantUnsupportedItem")}
          [] (\A i \in DOMAIN f.params : ScalarType(f.params[i][2])) /\ given = <<>> -> {Refusal("CovenantNoAuthorWitness")}
          [] OTHER ->
               IF refused # {} THEN {Refusal(Inhabits(f, given[first(refused)], w))}
               ELSE IF stopped # {} THEN {Decided(Authored(f, given[first(stopped)], w), given[first(stopped)])}
               ELSE IF witness.budget = 0 THEN {valid}
               ELSE {LET j == Generated(f, vals, w) IN IF j = "pass" THEN valid ELSE Decided(j, vals) : vals \in inputs}

(* covenant_gate: proof search is started after a validated covenant only. *)
CovenantGate(a) ==
    CASE a.verdict = "validated" -> Outcome("burned", "none", <<>>)
      [] a.verdict = "refuted"   -> Outcome("refuted", "CovenantRefuted", a.input)
      [] a.verdict = "error"     -> Outcome("refused", a.cause, <<>>)

(* check_file_with_options: the certificate that ends the check, or none. *)
CovenantRoute(f, witness, w) ==
    {IF g.verdict = "burned" THEN [burned |-> TRUE, cause |-> "none", input |-> <<>>]
     ELSE [burned |-> FALSE, cause |-> g.cause, input |-> g.input] : g \in {CovenantGate(a) : a \in AnalyzeCovenant(f, witness, w)}}

(***************************************************************************)
(* Early returns.  A value comes as <<e>>, or <<>> if there is none.       *)
(***************************************************************************)
AllOf(values) == IF \A i \in DOMAIN values : values[i] # <<>> THEN <<[i \in DOMAIN values |-> values[i][1]]>> ELSE <<>>

RECURSIVE ZeroValueFor(_)
(* zero_value_for *)
ZeroValueFor(ty) ==
    CASE ty.k = "prim"   -> IF ty.x = "bool" THEN <<Truth(FALSE)>> ELSE <<Lit(0)>>
      [] ty.k = "option" -> <<Path("None")>>
      [] ty.k = "tuplety" -> LET es == AllOf([i \in DOMAIN ty.s |-> ZeroValueFor(ty.s[i])])
                             IN  IF es = <<>> THEN <<>> ELSE <<Tuple(es[1])>>
      [] OTHER -> <<>>

(* The literal of a struct or of a generated wrapper. *)
StructOfValues(x, fields, es) == Node("struct", x, 0, [i \in DOMAIN es |-> Node("init", fields[i], 0, <<es[i]>>)])

(* empty_vec_value and empty_string_value: a wrapper around an empty Vec; only *)
(* of vectors of scalars is there one.                                         *)
EmptyWrapper(ty) ==
    CASE ty.k = "string" -> <<StructOfValues("TString", <<"data">>, <<Call("Vec::new", <<>>)>>)>>
      [] ty.k = "vec" /\ ty.s[1].k = "prim" /\ ty.s[1].x \in Scalars -> <<StructOfValues("TVec", <<"data">>, <<Call("Vec::new", <<>>)>>)>>
      [] OTHER -> <<>>

RECURSIVE ZeroValueWithDefs(_, _)
(* zero_value_with_defs, and struct_zero_value for its structs *)
ZeroValueWithDefs(ty, structs) ==
    LET parts(types) == AllOf([i \in DOMAIN types |-> ZeroValueWithDefs(types[i], structs)])
    IN  IF ZeroValueFor(ty) # <<>> THEN ZeroValueFor(ty)
        ELSE CASE ty.k \in {"vec", "string"} -> EmptyWrapper(ty)
               [] ty.k = "tuplety" -> LET es == parts(ty.s) IN IF es = <<>> THEN <<>> ELSE <<Tuple(es[1])>>
               [] ty.k = "named" /\ ty.x \in DOMAIN structs ->
                      LET fs == structs[ty.x]
                          es == parts([i \in DOMAIN fs |-> fs[i][2]])
                      IN  IF es = <<>> THEN <<>> ELSE <<StructOfValues(ty.x, [i \in DOMAIN fs |-> fs[i][1]], es[1])>>
               [] OTHER -> <<>>

(* early_return_value: a tuple is returned only if it has a zero without the structs. *)
EarlyReturnValue(ret, structs) ==
    CASE ZeroValueFor(ret) # <<>> -> ZeroValueFor(ret)
      [] ret.k = "named" -> ZeroValueWithDefs(ret, structs)
      [] ret.k = "refty" /\ ret.s[1].k = "slicety" -> <<Ref(Path("[]"))>>
      [] OTHER -> EmptyWrapper(ret)

(***************************************************************************)
(* The frozen tables.                                                      *)
(***************************************************************************)
(* flip_binop *)
FlipBinop(op) ==
    CASE op = "+" -> "-"   [] op = "-" -> "+"   [] op = "*" -> "/"   [] op = "/" -> "*"   [] op = "%" -> "/"
      [] op = "<<" -> ">>" [] op = ">>" -> "<<" [] op = "&" -> "|"   [] op = "|" -> "&"   [] op = "^" -> "&"
      [] op = "<" -> "<="  [] op = "<=" -> "<"  [] op = ">" -> ">="  [] op = ">=" -> ">"
      [] op = "==" -> "!=" [] op = "!=" -> "==" [] op = "&&" -> "||" [] op = "||" -> "&&"

(* negate_comparison *)
Complement(op) ==
    CASE op = "<" -> ">="  [] op = "<=" -> ">"  [] op = ">" -> "<=" [] op = ">=" -> "<"
      [] op = "==" -> "!=" [] op = "!=" -> "=="

(***************************************************************************)
(* The first walk.                                                         *)
(***************************************************************************)
(* scan_block, scan_stmt, scan_expr, scan_index: the children that are walked. *)
(* Of a loop it is the body, not its condition, invariants or measure.         *)
ScannedParts(e) ==
    CASE e.k \in {"let", "loop", "while", "closure"} -> {Len(e.s)}
      [] e.k \in {"arm", "quant"}          -> 2..Len(e.s)
      [] e.k \in PatternKinds \cup TypeKinds -> {}
      [] OTHER                             -> DOMAIN e.s

RECURSIVE Walk(_, _)
(* The nodes in the order of the walk, those of the children from i on. *)
Walk(e, i) ==
    IF i > Len(e.s) THEN <<>>
    ELSE (IF i \in ScannedParts(e) THEN <<e.s[i]>> \o Walk(e.s[i], 1) ELSE <<>>) \o Walk(e, i + 1)

(* Counters: each kind of site has a numbering of its own. *)
SiteKind(e) == CASE e.k \in {"binary", "int"} -> e.k
                 [] e.k \in {"if", "ifstmt"} -> "if"
                 [] OTHER -> "none"

Action(site, kind, op, n) == [site |-> site, kind |-> kind, op |-> op, n |-> n]

(* record_if *)
RecordIf(e, site) ==
    IF e.s[1].k = "binary" /\ e.s[1].x \in Comparisons THEN <<Action(site, "negate", Complement(e.s[1].x), 0)>>
    ELSE IF Len(e.s) = 3 THEN <<Action(site, "swap", "", 0)>>
    ELSE <<>>

(* scan_expr, at one node *)
Actions(e, site) ==
    CASE e.k = "int" -> <<Action(site, "offbyone", "", e.n + 1)>>
                        \o (IF e.n # 0 THEN <<Action(site, "offbyone", "", e.n - 1)>> ELSE <<>>)
      [] e.k = "binary" -> <<Action(site, "flip", FlipBinop(e.x), 0)>>
      [] SiteKind(e) = "if" -> RecordIf(e, site)
      [] OTHER -> <<>>

RECURSIVE ScanFrom(_, _)
(* walk_block: the actions of the nodes from i on. *)
ScanFrom(nodes, i) ==
    IF i > Len(nodes) THEN <<>>
    ELSE Actions(nodes[i], Cardinality({j \in 1..(i - 1) : SiteKind(nodes[j]) = SiteKind(nodes[i])}))
         \o ScanFrom(nodes, i + 1)

(***************************************************************************)
(* The second walk, with one action armed.                                 *)
(***************************************************************************)
(* Mutant: the guards of match arms are copied. *)
AppliedPartsUnguarded(e) ==
    CASE e.k \in {"let", "loop", "while", "closure", "arm"} -> {Len(e.s)}
      [] e.k = "quant"                       -> 2..Len(e.s)
      [] e.k \in PatternKinds \cup TypeKinds -> {}
      [] OTHER                               -> DOMAIN e.s

(* apply_block, apply_stmt, apply_expr, apply_index: the children that are rewritten. *)
AppliedParts(e) ==
    CASE e.k = "let"               -> {Len(e.s)}
      [] e.k \in {"loop", "while"} -> {Len(e.s)}
      [] e.k = "closure"           -> {Len(e.s)}
      [] e.k = "arm"               -> 2..Len(e.s)
      [] e.k = "quant"             -> 2..Len(e.s)
      [] e.k \in PatternKinds \cup TypeKinds -> {}
      [] OTHER                     -> DOMAIN e.s

(* apply_expr and apply_if: the node itself, before its children. *)
Armed(e, a) ==
    CASE a.kind = "offbyone" -> [e EXCEPT !.n = a.n]
      [] a.kind = "flip"     -> [e EXCEPT !.x = a.op]
      [] a.kind = "negate"   -> [e EXCEPT !.s[1].x = a.op]
      [] a.kind = "swap"     -> e

Targeted(kind) == CASE kind = "offbyone" -> "int" [] kind = "flip" -> "binary" [] OTHER -> "if"

(* apply_stmt and apply_expr of an if whose arms are swapped. *)
Swapped(e) == [e EXCEPT !.s[2] = e.s[3], !.s[3] = e.s[2]]

RECURSIVE ApplyAction(_, _, _, _)
(* The children of e from i on, c being how many sites of the action's kind came *)
(* before.  A node that is the site is rewritten, its children after it, and its *)
(* arms are swapped last.                                                        *)
ApplyAction(e, c, a, i) ==
    IF i > Len(e.s) THEN [e |-> e, c |-> c]
    ELSE IF i \notin AppliedParts(e) THEN ApplyAction(e, c, a, i + 1)
    ELSE LET child == e.s[i]
             is   == SiteKind(child) = Targeted(a.kind)
             hit  == is /\ c = a.site
             done == ApplyAction(IF hit THEN Armed(child, a) ELSE child, IF is THEN c + 1 ELSE c, a, 1)
             new  == IF hit /\ a.kind = "swap" THEN Swapped(done.e) ELSE done.e
         IN  ApplyAction([e EXCEPT !.s[i] = new], done.c, a, i + 1)

(* into_mutants *)
IntoMutants(body) ==
    LET actions == ScanFrom(Walk(body, 1), 1)
    IN  [k \in DOMAIN actions |-> ApplyAction(body, 0, actions[k], 1).e]

(* A return before everything else. *)
Headed(body, e) == [body EXCEPT !.s = <<Return(e)>> \o body.s]

(* generate: the early returns first, so that the cap does not crowd them out. *)
Generate(f, structs, cap) ==
    LET zero   == EarlyReturnValue(f.ret, structs)
        early  == [i \in DOMAIN zero |-> Headed(f.body, zero[i])]
        same   == SelectSeq(f.params, LAMBDA p : p[2] = f.ret)
        copies == [i \in DOMAIN same |-> Headed(f.body, Path(same[i][1]))]
        all    == early \o copies \o IntoMutants(f.body)
    IN  [k \in 1..(IF Len(all) > cap THEN cap ELSE Len(all)) |-> [f EXCEPT !.body = all[k]]]

(***************************************************************************)
(* The gate.  max is MAX_EXPR_DEPTH, at which the walks stop.              *)
(***************************************************************************)
RECURSIVE MentionsResult(_, _, _)
(* expr_mentions_result, block_, stmt_ and index_arg_mentions_result: they walk the *)
(* children that the first walk of the mutants walks, and a path that is called.    *)
MentionsResult(e, d, max) ==
    \/ d >= max
    \/ e.k = "path" /\ e.x = "result"
    \/ e.k = "call" /\ (d + 1 >= max \/ e.x = "result")
    \/ \E i \in ScannedParts(e) : MentionsResult(e.s[i], IF e.k \in {"arm", "init"} THEN d ELSE d + 1, max)

(* identity_clause *)
IdentityClause(e) == e.k = "binary" /\ e.x \in {"==", "<=", ">="} /\ e.s[1] = e.s[2]

EnsIsTriviallyTrue(ens) ==
    \/ \E i \in DOMAIN ens : IdentityClause(ens[i])
    \/ ens # <<>> /\ \A i \in DOMAIN ens : ens[i] = Truth(TRUE)

EnsOmitsResult(ret, ens, max) ==
    ret.k # "unit" /\ \A i \in DOMAIN ens : ~MentionsResult(ens[i], 0, max)

RECURSIVE FlattenAnd(_, _, _)
(* flatten_and: every conjunction on the way down is kept too. *)
FlattenAnd(e, d, max) ==
    {e} \cup (IF d < max /\ e.k = "binary" /\ e.x = "&&"
              THEN FlattenAnd(e.s[1], d + 1, max) \cup FlattenAnd(e.s[2], d + 1, max) ELSE {})

(* Mutant: one clause that the precondition contains is enough. *)
EnsImpliedByReqOnce(req, ens, max) ==
    ens # <<>> /\ \E i \in DOMAIN ens : ens[i] \in FlattenAnd(req, 0, max)

EnsImpliedByReq(req, ens, max) ==
    ens # <<>> /\ \A i \in DOMAIN ens : ens[i] \in FlattenAnd(req, 0, max)

(* effect_row_is_maximal, fx_maximal_without_slag *)
BroadEffects == {"read", "write", "net", "alloc", "time", "rand", "panic", "diverge"}
FxMaximalWithoutSlag(f) == f.attr.kind = "none" /\ BroadEffects \subseteq f.fx

(* triage: the first rule that applies. *)
Triage(f, max) ==
    IF EnsIsTriviallyTrue(f.ens) THEN "EnsIsTrivial"
    ELSE IF EnsOmitsResult(f.ret, f.ens, max) THEN "EnsOmitsResult"
    ELSE IF EnsImpliedByReq(f.req, f.ens, max) THEN "EnsImpliedByReq"
    ELSE IF FxMaximalWithoutSlag(f) THEN "MaximalFxWithoutSlag"
    ELSE "passed"

(* slag::validate: the first of reason, owner and review that is missing or blank. *)
ValidateField(v) == CASE v = "missing" -> "SlagFieldMissing" [] v = "blank" -> "SlagFieldEmpty" [] OTHER -> "passed"
SlagValidate(fields) ==
    LET bad == {i \in DOMAIN fields : ValidateField(fields[i]) # "passed"}
    IN  IF bad = {} THEN "passed" ELSE ValidateField(fields[CHOOSE i \in bad : \A j \in bad : i <= j])

(* What the attribute must say before the contract is looked at. *)
AttributeVerdict(attr) ==
    CASE attr.kind = "slag"     -> SlagValidate(attr.fields)
      [] attr.kind = "boundary" -> IF attr.fields[1] = "blank" THEN "BoundaryTargetEmpty" ELSE "passed"
      [] OTHER                  -> "passed"

(* gate_fn: whether the function is refused, certified at L1 as waived, as foreign  *)
(* or as one that may run for ever, or goes on to proof.                            *)
GateOutcome(f, verdict) ==
    [outcome |-> IF verdict # "passed" THEN "rejected"
                 ELSE IF f.attr.kind # "none" THEN f.attr.kind
                 ELSE IF "diverge" \in f.fx THEN "diverge"
                 ELSE "proceed",
     slag |-> f.attr.kind = "slag", cause |-> verdict]
GateFn(f, max) ==
    GateOutcome(f, IF AttributeVerdict(f.attr) # "passed" THEN AttributeVerdict(f.attr) ELSE Triage(f, max))

(***************************************************************************)
(* Reference definitions.                                                  *)
(***************************************************************************)
(* A let in a branch of an if statement whose name is known before it. *)
Branches(b) == UNION {{u.s[i] : i \in 2..Len(u.s)} : u \in {t \in Subtrees(b) : t.k = "ifstmt"}}
LeaksLet(f) ==
    \E b \in Branches(f.body[1]) : \E i \in DOMAIN Stmts(b) :
        /\ Stmts(b)[i].k = "let"
        /\ Stmts(b)[i].x \in {f.params[p][1] : p \in DOMAIN f.params}
                             \cup {t.x : t \in {u \in Subtrees(f.body[1]) \ {Stmts(b)[i]} : u.k = "let"}}

(* Whether an input is one of the function, and whether the code run on it panics *)
(* or breaks a clause that can be asked.                                          *)
InRange(f, vals, w) ==
    Len(vals) = Len(f.params) /\ \A i \in DOMAIN vals : vals[i] \in 0..(IF f.params[i][2].x = "bool" THEN 1 ELSE Power(w) - 1)
Meets(f, vals, w) == Eval(f.req, Environment(f.params, vals), "spec", w) = Value(1)
Breaks(f, run, env, w) ==
    LET clause(i) == Eval(f.ens[i], With(env, "result", run.v[1]), "spec", w)
    IN  run.ok /\ \E i \in DOMAIN f.ens : clause(i) = Value(0) /\ \A j \in 1..(i - 1) : clause(j).ok
RunOn(f, vals, w) == RunBody(f.body[1], Environment(f.params, vals), w, 1)

(* A refutation is an input of the function that its precondition allows and at   *)
(* which the code panics or breaks its contract; proof search starts only after   *)
(* witnesses that are such inputs, and at which the code does not run to a result *)
(* that breaks the contract.  leaks: also for a body that leaks a let.            *)
CovenantExact(f, witness, w, gate, leaks) ==
    LET values(args) == [i \in DOMAIN args |-> Eval(args[i], [x \in {} |-> 0], "spec", w).v]
    IN  f.body # <<>> /\ (leaks \/ ~LeaksLet(f)) =>
          /\ gate.cause = "CovenantRefuted" =>
                LET vals == Plainly(gate.input)
                    run  == RunOn(f, vals, w)
                IN  /\ InRange(f, vals, w) /\ Meets(f, vals, w)
                    /\ run.ok => Breaks(f, run, Environment(f.params, vals), w)
          /\ gate.burned => /\ witness.inhabits # <<>>
                            /\ \A i \in DOMAIN witness.inhabits :
                                  LET vals == values(witness.inhabits[i])
                                  IN  /\ InRange(f, vals, w) /\ Meets(f, vals, w)
                                      /\ ~Breaks(f, RunOn(f, vals, w), Environment(f.params, vals), w)
          /\ gate.cause = "CovenantWitnessRefutesReq" =>
                \E i \in DOMAIN witness.inhabits : ~Meets(f, values(witness.inhabits[i]), w)

(* What is refused says nothing: a clause of it is never false, no clause depends  *)
(* on the result, or none is false when the precondition is true; what is not names *)
(* the result, as far as the walk goes.  Nothing is certified without proof unless  *)
(* it is waived or foreign, says all it must about that, or declares that it may    *)
(* not end; and nothing with every effect is proved.                                *)
GateExact(f, max, w, g) ==
    LET inputs == [x : 0..(Power(w) - 1), result : 0..(Power(w) - 1)]
        clause(i, env) == Eval(f.ens[i], env, "spec", w)
        given  == {env \in inputs : Eval(f.req, env, "spec", w) = Value(1)}
    IN  /\ g.cause = "EnsIsTrivial" => \E i \in DOMAIN f.ens : \A env \in inputs : clause(i, env) # Value(0)
        /\ g.cause = "EnsOmitsResult" =>
              /\ f.ret.k # "unit"
              /\ \A i \in DOMAIN f.ens, env \in inputs : clause(i, env) = clause(i, [env EXCEPT !.result = 0])
        /\ g.cause = "EnsImpliedByReq" => \A i \in DOMAIN f.ens, env \in given : clause(i, env) = Value(1)
        /\ g.outcome # "rejected" =>
              /\ f.ret.k = "unit" \/ \E i \in DOMAIN f.ens : \/ Depth(f.ens[i]) > max
                                                               \/ \E u \in Subtrees(f.ens[i]) : u.k \in {"path", "call"} /\ u.x = "result"
              /\ ~(\A i \in DOMAIN f.ens : f.ens[i] = Truth(TRUE))
              /\ \A i \in DOMAIN f.attr.fields : f.attr.fields[i] = "text"
              /\ f.attr.kind = "none" => ~(BroadEffects \subseteq f.fx)
        /\ g.outcome \in {"slag", "boundary"} <=> g.outcome # "rejected" /\ f.attr.kind # "none"
        /\ g.outcome = "proceed" => "diverge" \notin f.fx
        /\ g.slag <=> f.attr.kind = "slag"

RECURSIVE Differ(_, _)
(* The places, as paths from the root, at which two trees differ; two ifs with *)
(* their arms exchanged differ at the if.                                      *)
Differ(a, b) ==
    IF a = b THEN {}
    ELSE IF a.k # b.k \/ Len(a.s) # Len(b.s) \/ (Len(a.s) = 3 /\ SiteKind(a) = "if" /\ b = Swapped(a)) THEN {<<>>}
    ELSE (IF a.x # b.x \/ a.n # b.n THEN {<<>>} ELSE {})
         \cup UNION {{<<i>> \o p : p \in Differ(a.s[i], b.s[i])} : i \in DOMAIN a.s}

RECURSIVE CodeSites(_)
(* The operators and literals of code: not those of clauses, patterns and types. *)
CodeSites(e) ==
    (IF e.k \in {"binary", "int"} THEN {<<>>} ELSE {})
    \cup UNION {{<<i>> \o p : p \in CodeSites(e.s[i])} :
                  i \in {j \in DOMAIN e.s : /\ e.s[j].k \notin PatternKinds \cup TypeKinds
                                            /\ e.k \in {"loop", "while"} => j = Len(e.s)}}

RECURSIVE OfType(_, _, _)
(* Whether a value that was made up has the type. *)
OfType(e, ty, structs) ==
    CASE ty.k = "prim"    -> e.k = IF ty.x = "bool" THEN "bool" ELSE "int"
      [] ty.k = "tuplety" -> e.k = "tuple" /\ Len(e.s) = Len(ty.s) /\ \A i \in DOMAIN ty.s : OfType(e.s[i], ty.s[i], structs)
      [] ty.k = "named"   -> /\ e.k = "struct" /\ e.x = ty.x /\ Len(e.s) = Len(structs[ty.x])
                             /\ \A i \in DOMAIN e.s : e.s[i].x = structs[ty.x][i][1] /\ OfType(e.s[i].s[1], structs[ty.x][i][2], structs)
      [] ty.k = "refty"   -> e.k = "ref"
      [] ty.k = "option"  -> e.k = "path"
      [] OTHER            -> e.k = "struct"

(* Every mutant is the function with one site of its code changed, or with a     *)
(* return of its type before everything else; every operator and literal of the  *)
(* code is changed by some mutant unless the cap is reached; exchanging two arms *)
(* that are the same is the one change that changes nothing.                     *)
MutantsExact(f, structs, cap, ms) ==
    LET headed(m) == Len(m.body.s) = Len(f.body.s) + 1
        equalArms == \E u \in Subtrees(f.body) : SiteKind(u) = "if" /\ Len(u.s) = 3 /\ u.s[2] = u.s[3]
    IN  /\ Len(ms) <= cap
        /\ \A k \in DOMAIN ms :
              /\ [ms[k] EXCEPT !.body = f.body] = f
              /\ IF headed(ms[k])
                 THEN LET e == ms[k].body.s[1].s[1]
                      IN  (\E p \in DOMAIN f.params : e = Path(f.params[p][1]) /\ f.params[p][2] = f.ret) \/ OfType(e, f.ret, structs)
                 ELSE \/ Cardinality(Differ(f.body, ms[k].body)) = 1
                      \/ ms[k].body = f.body /\ equalArms
        /\ Len(ms) < cap =>
              \A p \in CodeSites(f.body) : \E k \in DOMAIN ms : ~headed(ms[k]) /\ Differ(f.body, ms[k].body) = {p}
====
