-------------------------------- MODULE LeanExport --------------------------------
(***************************************************************************)
(* The exporter of proof obligations to Lean (forge/src/lean_export.rs)    *)
(* and the meaning Lean gives to what it writes (lean/Thermite/Denote.lean,*)
(* Exec.lean, Exec/Stmt.lean, Exec/Loop.lean).                             *)
(*                                                                         *)
(* An item is exported as one of four goals: its contract over the value   *)
(* of a pure body, the same over an arbitrary result, a contract and an    *)
(* overflow goal over a straight-line body, or the five obligations of a   *)
(* while loop.  A construct Lean's trees lack is refused, never            *)
(* approximated.  Terms are nodes of Surface; text is left out.            *)
(*                                                                         *)
(* An item is [kind, holes, params, ret, req, ens, dec, body]: params are  *)
(* pairs of a name and a type, dec and body are sequences of at most one.  *)
(* decls maps the file's spec functions to [params, dec, body].            *)
(***************************************************************************)
EXTENDS Surface

Elements(s) == {s[i] : i \in DOMAIN s}
Final(s)    == s[Len(s)]

(***************************************************************************)
(* Contract terms: encode_expr and what it calls.  A refusal is a node     *)
(* inside the term, so a term is exported only if it holds none.           *)
(***************************************************************************)
Refused(why)  == Node("refused", why, 0, <<>>)
OutOfFragment == Refused("OutOfFragment")
Reasons(es)   == UNION {{u.x : u \in {d \in Subtrees(e) : d.k = "refused"}} : e \in es}

Combinators == {"forall_in", "exists_in", "sorted", "forall_below", "forall_from", "disjoint", "count_where",
                "permutation_of"}
BuiltIn     == {"Some", "None", "Ok", "Err"}
CastTargets == {"u8", "u16", "u32", "u64", "usize", "nat", "int"}

OpClass(op) == CASE op \in Comparisons -> "cmp" [] op \in Connectives -> "logic" [] OTHER -> "arith"

(* sort_param: the sort a parameter's name is read at; ctx_for_params *)
RECURSIVE SortOf(_)
SortOf(t) ==
    CASE t.k = "refty" -> SortOf(t.s[1])
      [] t.k = "slicety" -> "seqs"
      [] t.k = "named" /\ t.x = "String" -> "strings"
      [] t.k = "generic" /\ t.x \in {"Option", "Result"} -> "optres"
      [] OTHER -> "ints"
ContextFor(params) == [c \in {"seqs", "strings", "optres"} |-> {p[1] : p \in {q \in Elements(params) : SortOf(q[2]) = c}}]

(* EncodeCtx::bind_int *)
BindInt(ctx, x) == [c \in DOMAIN ctx |-> ctx[c] \ {x}]

EncodeName(x, ctx) ==
    Node(CASE x \in ctx.seqs -> "seqVar" [] x \in ctx.strings -> "strVar" [] x \in ctx.optres -> "optResVar"
           [] OTHER -> "var", x, 0, <<>>)

(* The one name an arm's pattern binds, if it binds one *)
ArmBinder(a) ==
    IF a.s[1].k = "enum" /\ Len(a.s[1].s) = 1 /\ a.s[1].s[1].k = "bind" THEN {a.s[1].s[1].x} ELSE {}

RECURSIVE Encode(_, _)

(* encode_match, one arm: a built-in variant with at most one binding and no guard *)
EncodeArm(a, ctx) ==
    LET p == a.s[1]
        inner == IF ArmBinder(a) = {} THEN ctx ELSE BindInt(ctx, p.s[1].x)
    IN  IF a.n = 0 /\ p.k = "enum" /\ p.n = 1 /\ p.x \in BuiltIn /\ (p.s = <<>> \/ ArmBinder(a) # {})
        THEN Node("arm", p.x, Len(p.s), <<p, Encode(Final(a.s), inner)>>) ELSE OutOfFragment

(* encode_combinator's encode_pred *)
EncodePred(e, ctx) ==
    IF e.k = "closure" /\ e.n = 1 THEN Node("pred", e.s[1].x, 0, <<Encode(e.s[2], BindInt(ctx, e.s[1].x))>>)
    ELSE OutOfFragment

EncodeCombinator(e, ctx) ==
    LET arity == CASE e.x = "sorted" -> 1 [] e.x \in {"forall_below", "forall_from"} -> 3 [] OTHER -> 2
        last  == IF e.x \in {"sorted", "disjoint", "permutation_of"} THEN 0 ELSE arity
    IN  IF Len(e.s) # arity THEN OutOfFragment
        ELSE Node("comb", e.x, 0, [i \in DOMAIN e.s |-> IF i = last THEN EncodePred(e.s[i], ctx) ELSE Encode(e.s[i], ctx)])

(* encode_call: old(x) is a name of its own *)
EncodeCall(e, ctx) ==
    CASE e.x = "old" -> IF Len(e.s) = 1 /\ e.s[1].k = "path" /\ e.s[1].n = 1
                        THEN Node("var", "old " \o e.s[1].x, 0, <<>>) ELSE OutOfFragment
      [] e.x \in Combinators -> EncodeCombinator(e, ctx)
      [] OTHER -> Node("specCall", e.x, 0, [i \in DOMAIN e.s |-> Encode(e.s[i], ctx)])

(* encode_method_call *)
EncodeMethod(e, parts) ==
    CASE e.x = "len" /\ Len(parts) = 1     -> Node("seqLen", "", 0, parts)
      [] e.x = "byte_at" /\ Len(parts) = 2 -> Node("byteAt", "", 0, parts)
      [] OTHER -> OutOfFragment

Encode(e, ctx) ==
    LET parts == [i \in DOMAIN e.s |-> Encode(e.s[i], ctx)]
        as(k) == Node(k, e.x, e.n, parts)
    IN  CASE e.k = "int"    -> as("intLit")
          [] e.k = "bool"   -> as("boolLit")
          [] e.k = "path"   -> IF e.n = 1 THEN EncodeName(e.x, ctx) ELSE OutOfFragment
          [] e.k = "binary" -> as(OpClass(e.x))
          [] e.k = "unary"  -> as("neg")
          [] e.k = "cast"   -> IF e.x \in CastTargets THEN as("cast") ELSE OutOfFragment
          [] e.k = "index"  -> as(IF e.x = "single" THEN "idx" ELSE "subrange")
          [] e.k = "method" -> EncodeMethod(e, parts)
          [] e.k = "call"   -> EncodeCall(e, ctx)
          [] e.k = "match"  -> Node("match_", "", 0, <<Encode(e.s[1], ctx)>> \o [i \in 1..Len(e.s) - 1 |-> EncodeArm(e.s[i + 1], ctx)])
          [] e.k = "is"     -> IF e.x \in BuiltIn THEN Node("is_", e.x, 0, <<Encode(e.s[1], ctx)>>) ELSE OutOfFragment
          [] e.k = "ref"    -> parts[1]
          [] OTHER -> OutOfFragment

(* encode_contract_clause, encode_expr_bool_result: a boolean result is read as a boolean *)
RECURSIVE EncodeClause(_, _, _)
EncodeClause(e, ctx, boolean) ==
    LET part(i) == EncodeClause(e.s[i], ctx, TRUE)
        isResult(i) == e.s[i].k = "path" /\ e.s[i].x = "result"
        read == Node("boolVar", "result", 0, <<>>)
        not(t) == Node("neg", "!", 0, <<t>>)
        against(i) == IF e.s[i].n = 1 THEN read ELSE not(read)
        equality == CASE isResult(1) /\ e.s[2].k = "bool" -> against(2)
                      [] isResult(2) /\ e.s[1].k = "bool" -> against(1)
                      [] OTHER -> Encode(Binary("==", e.s[1], e.s[2]), ctx)
    IN  CASE ~boolean -> Encode(e, ctx)
          [] e.k = "path" /\ e.x = "result" -> read
          [] e.k = "binary" /\ e.x = "==" -> equality
          [] e.k = "binary" /\ e.x = "!=" /\ (isResult(1) \/ isResult(2)) -> not(equality)
          [] e.k = "binary" /\ e.x \in Connectives -> Node("logic", e.x, 0, <<part(1), part(2)>>)
          [] e.k = "unary" -> not(part(1))
          [] OTHER -> Encode(e, ctx)

RECURSIVE Conjoin(_)
Conjoin(ts) ==
    CASE ts = <<>>     -> Node("boolLit", "", 1, <<>>)
      [] Len(ts) = 1   -> ts[1]
      [] OTHER         -> Node("logic", "&&", 0, <<ts[1], Conjoin(Tail(ts))>>)

(***************************************************************************)
(* Which spec functions a term reaches, and their static unfolding.        *)
(***************************************************************************)
Kept == {"binary", "unary", "cast", "ref", "method", "index", "is"}

(* The parts the collectors walk: collect_expr_calls, collect_block_calls and      *)
(* collect_all_call_names.  Of a block's statements only what a let starts from.   *)
Parts(e) ==
    CASE e.k \in Kept \cup {"call", "if"} -> Elements(e.s)
      [] e.k = "match"   -> {e.s[1]} \cup {Final(e.s[i].s) : i \in 2..Len(e.s)}
      [] e.k = "closure" -> {Final(e.s)}
      [] e.k = "block"   -> {Final(t.s) : t \in {u \in Elements(Stmts(e)) : u.k = "let"}}
                              \cup (IF HasTail(e) THEN {TailOf(e)} ELSE {})
      [] OTHER -> {}
RECURSIVE Callees(_)
Callees(e) == (IF e.k = "call" THEN {e.x} ELSE {}) \cup UNION {Callees(d) : d \in Parts(e)}

CallNames(e, decls) == Callees(e) \cap DOMAIN decls
AllCallNames(e)     == Callees(e) \ ({"old"} \cup Combinators)

(* check.rs, reachable_spec_fn_names_from_seed: the functions an obligation carries, which *)
(* are looked for in every position of the clauses, the body and the measure               *)
Mentioned(es, decls) == UNION {{u.x : u \in {d \in Subtrees(e) : d.k \in {"call", "method"}}} : e \in es} \cap DOMAIN decls
RECURSIVE ReachableFrom(_, _)
ReachableFrom(names, decls) ==
    LET more == names \cup UNION {Mentioned({decls[n].body, decls[n].dec}, decls) : n \in names}
    IN  IF more = names THEN names ELSE ReachableFrom(more, decls)
SpecDefs(item, decls) ==
    ReachableFrom(Mentioned(Elements(item.req \o item.ens \o item.dec \o item.body), decls), decls)

(* The transitive set of names the terms call, defined or not *)
RECURSIVE Present(_, _)
Present(names, decls) ==
    LET more == names \cup UNION {AllCallNames(decls[n].body) \cup AllCallNames(decls[n].dec) : n \in names \cap DOMAIN decls}
    IN  IF more = names THEN names ELSE Present(more, decls)

(* The hard gate: every name present is defined, and in the closure the obligation carries *)
Gate(es, called, decls) ==
    LET present == Present(UNION {AllCallNames(e) : e \in es}, decls)
    IN  IF present \subseteq DOMAIN decls \cap called THEN {} ELSE {"IncompleteRegistry"}

PureTail(b) == HasTail(b) /\ Len(b.s) = 1

(* build_registry *)
BuildRegistry(called, decls) == [n \in called |-> Encode(TailOf(decls[n].body), ContextFor(decls[n].params))]
RegistryRefusals(called, decls) ==
    IF ~called \subseteq DOMAIN decls THEN {"IncompleteRegistry"}
    ELSE IF \E n \in called : ~PureTail(decls[n].body) THEN {"NotPureContract"}
    ELSE Reasons({BuildRegistry(called, decls)[n] : n \in called})

(* registry_is_recursive *)
RECURSIVE Below(_, _)
Below(names, decls) ==
    LET more == names \cup UNION {CallNames(decls[n].body, decls) \cup CallNames(decls[n].dec, decls) : n \in names}
    IN  IF more = names THEN names ELSE Below(more, decls)
RegistryIsRecursive(called, decls) ==
    \E n \in Below(called, decls) :
        n \in Below(CallNames(decls[n].body, decls) \cup CallNames(decls[n].dec, decls), decls)

TierOf(es, called, decls) ==
    CASE \A e \in es : CallNames(e, decls) = {} -> "FuelFreeAuto"
      [] RegistryIsRecursive(called, decls)    -> "RecursiveInteractive"
      [] OTHER -> "StaticUnfoldAuto"

(* free_path_names: the callee of a call is a name like any other *)
RECURSIVE FreeNames(_, _)
FreeNames(e, bound) ==
    CASE e.k = "path"    -> IF e.n = 1 THEN {e.x} \ bound ELSE {}
      [] e.k = "call"    -> ({e.x} \ bound) \cup UNION {FreeNames(d, bound) : d \in Elements(e.s)}
      [] e.k \in Kept    -> UNION {FreeNames(d, bound) : d \in Elements(e.s)}
      [] e.k = "match"   -> FreeNames(e.s[1], bound)
                              \cup UNION {FreeNames(Final(e.s[i].s), bound \cup ArmBinder(e.s[i])) : i \in 2..Len(e.s)}
      [] e.k = "closure" -> FreeNames(Final(e.s), bound \cup {e.s[i].x : i \in 1..e.n})
      [] OTHER -> {}

(* Mutant: the binder is taken out of the substitution and nothing is checked. *)
CheckNothing(b, m) == TRUE

(* check_no_capture: no argument still to be put in mentions the binder *)
CheckNoCapture(b, m) == \A x \in DOMAIN m : b \notin FreeNames(m[x], {})

Without(m, b) == [x \in DOMAIN m \ {b} |-> m[x]]

(* substitute: the params of a closure are looked at one after the other *)
RECURSIVE Substitute(_, _), UnderBinders(_, _, _)
UnderBinders(e, bs, m) ==
    CASE bs = <<>> -> Substitute(e, m)
      [] CheckNoCapture(bs[1], m) -> UnderBinders(e, Tail(bs), Without(m, bs[1]))
      [] OTHER -> OutOfFragment
SubstituteArm(a, m) ==
    [a EXCEPT !.s[Len(a.s)] = UnderBinders(@, IF ArmBinder(a) = {} THEN <<>> ELSE <<a.s[1].s[1].x>>, m)]
Substitute(e, m) ==
    LET parts == [i \in DOMAIN e.s |-> Substitute(e.s[i], m)]
    IN  CASE e.k = "path" -> IF e.n = 1 /\ e.x \in DOMAIN m THEN m[e.x] ELSE e
          [] e.k = "call" ->
                CASE e.x \notin DOMAIN m -> Call(e.x, parts)
                  [] m[e.x].k = "path" /\ m[e.x].n = 1 -> Call(m[e.x].x, parts)
                  [] OTHER -> OutOfFragment
          [] e.k \in Kept    -> [e EXCEPT !.s = parts]
          [] e.k = "match"   -> [e EXCEPT !.s = <<Substitute(e.s[1], m)>> \o [i \in 1..Len(e.s) - 1 |-> SubstituteArm(e.s[i + 1], m)]]
          [] e.k = "closure" -> [e EXCEPT !.s[Len(e.s)] = UnderBinders(@, [i \in 1..e.n |-> e.s[i].x], m)]
          [] OTHER -> e

(* unfold_once, unfold_index: the call of a function with a pure body becomes that body *)
RECURSIVE UnfoldOnce(_, _)
UnfoldOnce(e, decls) ==
    LET parts == [i \in DOMAIN e.s |-> UnfoldOnce(e.s[i], decls)]
        params == [i \in DOMAIN decls[e.x].params |-> decls[e.x].params[i][1]]
        given  == {i \in DOMAIN params : i <= Len(e.s)}
        args   == [x \in {params[i] : i \in given} |-> parts[CHOOSE i \in given : params[i] = x /\ \A j \in given : params[j] = x => j <= i]]
        inArm(a) == [a EXCEPT !.s[Len(a.s)] = UnfoldOnce(@, decls)]
    IN  CASE e.k = "call" -> IF e.x \in DOMAIN decls /\ PureTail(decls[e.x].body)
                             THEN Substitute(TailOf(decls[e.x].body), args) ELSE Call(e.x, parts)
          [] e.k \in Kept    -> [e EXCEPT !.s = parts]
          [] e.k = "match"   -> [e EXCEPT !.s = <<parts[1]>> \o [i \in 1..Len(e.s) - 1 |-> inArm(e.s[i + 1])]]
          [] e.k = "closure" -> [e EXCEPT !.s[Len(e.s)] = UnfoldOnce(@, decls)]
          [] OTHER -> e

(* unfold_spec_calls: at most one round more than there are functions *)
RECURSIVE Unfold(_, _, _)
Unfold(e, decls, rounds) ==
    IF rounds = 0 \/ CallNames(e, decls) = {} THEN e ELSE Unfold(UnfoldOnce(e, decls), decls, rounds - 1)
UnfoldSpecCalls(e, decls) == Unfold(e, decls, Cardinality(DOMAIN decls) + 1)

(* What the exporter writes for a clause at a tier, and the reasons it may not *)
AtTier(e, tier, decls) == IF tier = "StaticUnfoldAuto" THEN UnfoldSpecCalls(e, decls) ELSE e

(* emitted_spec_call_names: the calls left in what is written *)
EmittedCalls(ts) == UNION {{u.x : u \in {d \in Subtrees(t) : d.k = "specCall"}} : t \in ts}

Refusal(whys) == [kind |-> "refused", why |-> whys]

(* The refusal of the first step that refuses, or the goal *)
FirstRefusal(whys, goal) ==
    LET stops == {i \in DOMAIN whys : whys[i] # {}}
    IN  IF stops = {} THEN goal ELSE Refusal(whys[CHOOSE i \in stops : \A j \in stops : i <= j])

(* The independent re-check: every call that is left is of a registered function *)
ReCheck(ts, called) == IF EmittedCalls(ts) \subseteq called THEN {} ELSE {"IncompleteRegistry"}

(***************************************************************************)
(* The goals over a pure body: emit_theorem, export_lemma.                 *)
(***************************************************************************)
(* Mutant: any result is taken for an integer. *)
AnySorted(t) == TRUE

(* result_is_int_sorted *)
IsIntSorted(t) == (t.k = "prim" /\ t.x \in {"u8", "u16", "u32", "u64", "usize"}) \/ (t.k = "named" /\ t.x \in {"int", "nat"})

(* export_item_with_mode, from the hard gate on.  A spec function's claim is that its      *)
(* result is its body.  result is "body", or "any" for the harness that looks for          *)
(* contracts that hold whatever the body is.                                               *)
ExportPure(item, decls, result) ==
    LET body   == TailOf(item.body[1])
        ens    == IF item.kind = "spec" THEN <<Binary("==", Result, body)>> ELSE item.ens
        es     == Elements(item.req \o ens \o item.dec) \cup {body}
        called == SpecDefs(item, decls)
        goal(tier, term(_)) ==
            [kind |-> "pure", tier |-> tier, registry |-> called, result |-> result, body |-> term(body),
             req |-> Conjoin([i \in DOMAIN item.req |-> term(item.req[i])]), ens |-> Conjoin([i \in DOMAIN ens |-> term(ens[i])])]
        checked(g) ==
            FirstRefusal(<<Gate(es, called, decls), RegistryRefusals(called, decls),
                           Reasons({g.req, g.ens, g.body} \cup {Encode(d, ContextFor(item.params)) : d \in Elements(item.dec)}),
                           ReCheck({g.req, g.ens, g.body}, called)>>, g)
        atTier(tier) == checked(goal(tier, LAMBDA e : Encode(AtTier(e, tier, decls), ContextFor(item.params))))
    IN  atTier(TierOf(es, called, decls))

(* export_lemma: the clauses are written as they are, calls of spec functions included *)
ExportLemma(item, decls) ==
    LET called  == SpecDefs(item, decls)
        term(e) == Encode(e, ContextFor(item.params))
        checked(g) == FirstRefusal(<<RegistryRefusals(called, decls), Reasons({g.req, g.ens}), ReCheck({g.req, g.ens}, called)>>, g)
    IN  checked([kind |-> "lemma", tier |-> "FuelFreeAuto", registry |-> called, req |-> term(item.req[1]),
                 ens |-> Conjoin([i \in DOMAIN item.ens |-> term(item.ens[i])])])

(***************************************************************************)
(* Denote.lean at fuel 0.  An environment gives integers, sequences and    *)
(* booleans; a read of a name it lacks, and a term of the wrong sort, have *)
(* the default value, and a call of a spec function is 0 and true.         *)
(***************************************************************************)
Read(f, x, default) == IF x \in DOMAIN f THEN f[x] ELSE default
BindIn(env, x, v)   == [env EXCEPT !.ints = [y \in DOMAIN env.ints \cup {x} |-> IF y = x THEN v ELSE env.ints[y]]]
ToNat(v)            == IF v < 0 THEN 0 ELSE v
BitWidth            == 8   \* more bits than any value of the instances has

(* arithDenote: the integers; division by zero is 0 and leaves the dividend as remainder *)
ArithDenote(op, a, b) ==
    CASE op = "+"  -> a + b [] op = "-" -> a - b [] op = "*" -> a * b
      [] op = "/"  -> IF b = 0 THEN 0 ELSE IF b > 0 THEN a \div b ELSE -(a \div (-b))
      [] op = "%"  -> IF b = 0 THEN a ELSE a % (IF b > 0 THEN b ELSE -b)
      [] op = "<<" -> ToNat(a) * Power(ToNat(b))
      [] op = ">>" -> ToNat(a) \div Power(ToNat(b))
      [] op \in BitOps -> BitsOp(op, ToNat(a), ToNat(b), BitWidth)

(* cmpDenote, and logVal over 0 and 1 *)
Relates(op, a, b) ==
    CASE op = "==" -> a = b [] op = "!=" -> a # b
      [] op = "<"  -> a < b [] op = "<=" -> a <= b [] op = ">" -> a > b [] op = ">=" -> a >= b
      [] op = "&&" -> a + b = 2 [] op = "||" -> a + b > 0

(* castDenote: only nat changes the value *)
CastDenote(t, v) == IF t = "nat" THEN ToNat(v) ELSE v

SeqIdx(s, i) == IF ToNat(i) < Len(s) THEN s[ToNat(i) + 1] ELSE 0
SeqSub(s, lo, hi) == SubSeq(s, ToNat(lo) + 1, IF ToNat(hi) < Len(s) THEN ToNat(hi) ELSE Len(s))
Occurrences(s, v) == Cardinality({i \in DOMAIN s : s[i] = v})

RECURSIVE IntVal(_, _), Denote(_, _), SeqVal(_, _)
SeqVal(t, env) ==
    CASE t.k \in {"seqVar", "strVar"} -> Read(env.seqs, t.x, <<>>)
      [] t.k = "subrange" ->
            LET cut(s, n) == CASE t.x = "to" -> SeqSub(s, 0, n) [] t.x = "from" -> SeqSub(s, n, Len(s))
                               [] OTHER -> SeqSub(s, n, IntVal(t.s[3], env))
            IN  cut(SeqVal(t.s[1], env), IntVal(t.s[2], env))
      [] OTHER -> <<>>

(* The elements of a combinator's sequence that its predicate holds at *)
Where(t, env) ==
    LET p == Final(t.s)
        at(s) == {i \in DOMAIN s : Denote(p.s[1], BindIn(env, p.x, s[i]))}
    IN  at(SeqVal(t.s[1], env))

IntVal(t, env) ==
    CASE t.k = "intLit" -> t.n
      [] t.k = "var"    -> Read(env.ints, t.x, 0)
      [] t.k = "arith"  -> ArithDenote(t.x, IntVal(t.s[1], env), IntVal(t.s[2], env))
      [] t.k = "cast"   -> CastDenote(t.x, IntVal(t.s[1], env))
      [] t.k \in {"idx", "byteAt"} -> SeqIdx(SeqVal(t.s[1], env), IntVal(t.s[2], env))
      [] t.k = "seqLen" -> Len(SeqVal(t.s[1], env))
      [] t.k = "comb" /\ t.x = "count_where" -> Cardinality(Where(t, env))
      [] OTHER -> 0

DenoteComb(t, env) ==
    LET holds(s, other, n, where) ==
            CASE t.x = "forall_in" -> where = DOMAIN s
              [] t.x = "exists_in" -> where # {}
              [] t.x = "sorted"    -> \A i, j \in DOMAIN s : i <= j => s[i] <= s[j]
              [] t.x = "forall_below" -> \A i \in DOMAIN s : i - 1 < n => i \in where
              [] t.x = "forall_from"  -> \A i \in DOMAIN s : n <= i - 1 => i \in where
              [] t.x = "disjoint"  -> Elements(s) \cap Elements(other) = {}
              [] t.x = "permutation_of" -> \A v \in Elements(s) \cup Elements(other) : Occurrences(s, v) = Occurrences(other, v)
              [] OTHER -> TRUE
    IN  holds(SeqVal(t.s[1], env), SeqVal(t.s[2], env), IntVal(t.s[2], env), Where(t, env))

(* scrutVal: no environment of an exported item holds an option, so a scrutinee is none *)
DenoteArms(t, env) ==
    LET arms == {i \in 2..Len(t.s) : t.s[i].x = "None"}
    IN  arms = {} \/ LET a == t.s[CHOOSE i \in arms : \A j \in arms : i <= j]
                     IN  Denote(a.s[2], IF a.n = 1 THEN BindIn(env, a.s[1].s[1].x, 0) ELSE env)

Denote(t, env) ==
    CASE t.k = "boolLit" -> t.n = 1
      [] t.k = "boolVar" -> Read(env.bools, t.x, FALSE)
      [] t.k = "cmp"     -> Relates(t.x, IntVal(t.s[1], env), IntVal(t.s[2], env))
      [] t.k = "logic"   -> IF t.x = "&&" THEN Denote(t.s[1], env) /\ Denote(t.s[2], env)
                            ELSE Denote(t.s[1], env) \/ Denote(t.s[2], env)
      [] t.k = "neg"     -> ~Denote(t.s[1], env)
      [] t.k = "is_"     -> t.x = "None"
      [] t.k = "match_"  -> DenoteArms(t, env)
      [] t.k = "comb"    -> DenoteComb(t, env)
      [] OTHER -> TRUE

(* The instance of a pure goal, or of a lemma's, at an environment and a result *)
PureGoalAt(g, env, r) ==
    Denote(g.req, env) =>
        Denote(g.ens, CASE g.kind = "lemma" -> env
                        [] g.result = "any" -> BindIn(env, "result", r)
                        [] OTHER -> BindIn(env, "result", IntVal(g.body, env)))

(***************************************************************************)
(* Bodies: Exec.lean and Exec/Stmt.lean.  A value is [t, v] with its type, *)
(* and a computation that may fail is a set of at most one outcome.        *)
(***************************************************************************)
Val(t, v) == [t |-> t, v |-> v]
Bits(t)   == IF t = "u8" THEN 2 ELSE 3   \* widths of the instances: a narrow type and the others
Limit(t)  == Power(Bits(t))
InRange(t, v) == v \in 0..(Limit(t) - 1)

(* exec_int_ty: the width of a type, "" if it has none *)
RECURSIVE IntTy(_)
IntTy(t) ==
    CASE t.k = "refty" -> IntTy(t.s[1])
      [] t.k = "prim" /\ t.x \in {"u8", "u16", "u32", "u64", "usize"} -> t.x
      [] OTHER -> ""
RECURSIVE ElemTy(_)
ElemTy(t) == CASE t.k = "refty" -> ElemTy(t.s[1]) [] t.k = "slicety" -> IntTy(t.s[1]) [] OTHER -> ""
RECURSIVE IsBool(_)
IsBool(t) == CASE t.k = "refty" -> IsBool(t.s[1]) [] OTHER -> t.k = "prim" /\ t.x = "bool"

(* ExecCtx: the widths of scalar names, the slice parameters; sort_exec_param *)
ExecContext(params) ==
    LET scalars == {i \in DOMAIN params : IntTy(params[i][2]) # ""}
    IN  [width  |-> [x \in {params[i][1] : i \in scalars} |-> IntTy(params[CHOOSE i \in scalars : params[i][1] = x][2])],
         slices |-> {p[1] : p \in {q \in Elements(params) : ElemTy(q[2]) # ""}}]
WidthOf(c, x)       == Read(c.width, x, "u64")
WithWidth(c, x, w)  == [c EXCEPT !.width = [y \in DOMAIN c.width \cup {x} |-> IF y = x THEN w ELSE c.width[y]]]

(* encode_exec_expr, encode_exec_binary, exec_cast_target, encode_exec_index *)
RECURSIVE EncodeExec(_, _, _)
EncodeExec(e, width, c) ==
    LET parts == [i \in DOMAIN e.s |-> EncodeExec(e.s[i], width, c)]
    IN  CASE e.k = "int"    -> Node("intLit", width, e.n, <<>>)
          [] e.k = "bool"   -> Node("boolLit", "", e.n, <<>>)
          [] e.k = "path"   -> IF e.n = 1 THEN Node("var", e.x, 0, <<>>) ELSE OutOfFragment
          [] e.k = "binary" -> Node(OpClass(e.x), e.x, 0, parts)
          [] e.k = "unary"  -> Node("not", "", 0, parts)
          [] e.k = "cast"   -> IF e.x \in {"u8", "u16", "u32", "u64", "usize"} THEN Node("cast", e.x, 0, parts) ELSE OutOfFragment
          [] e.k = "index"  -> IF e.x = "single" /\ e.s[1].k = "path" /\ e.s[1].n = 1 /\ e.s[1].x \in c.slices
                               THEN Node("index", e.s[1].x, 0, <<EncodeExec(e.s[2], "usize", c)>>) ELSE OutOfFragment
          [] e.k = "ref"    -> parts[1]
          [] OTHER -> OutOfFragment

(* encode_exec_stmt, encode_exec_block: a let gives its name a width for what follows *)
LoopBody == Refused("LoopBody")
LetWidth(s) == IF s.n = 1 /\ IntTy(s.s[1]) # "" THEN IntTy(s.s[1]) ELSE "u64"
RECURSIVE EncodeBlock(_, _), EncodeStmts(_, _)
EncodeStmt(s, c) ==
    CASE s.k = "let"    -> Node("letS", s.x, 0, <<EncodeExec(Final(s.s), LetWidth(s), c)>>)
      [] s.k = "assign" -> IF s.s[1].k = "path" /\ s.s[1].n = 1
                           THEN Node("assign", s.s[1].x, 0, <<EncodeExec(s.s[2], WidthOf(c, s.s[1].x), c)>>) ELSE LoopBody
      [] s.k = "expr"   -> Node("exprS", "", 0, <<EncodeExec(s.s[1], "u64", c)>>)
      [] s.k = "ifstmt" -> Node("ifElse", "", 0, <<EncodeExec(s.s[1], "u64", c), EncodeBlock(s.s[2], c),
                                                   IF Len(s.s) = 3 THEN EncodeBlock(s.s[3], c) ELSE Block(<<>>, <<>>)>>)
      [] OTHER -> LoopBody
EncodeStmts(ss, c) ==
    IF ss = <<>> THEN [stmts |-> <<>>, ctx |-> c]
    ELSE LET after == IF ss[1].k = "let" THEN WithWidth(c, ss[1].x, LetWidth(ss[1])) ELSE c
             rest  == EncodeStmts(Tail(ss), after)
         IN  [stmts |-> <<EncodeStmt(ss[1], c)>> \o rest.stmts, ctx |-> rest.ctx]
EncodeBlock(b, c) ==
    LET r == EncodeStmts(Stmts(b), c)
    IN  Block(r.stmts, IF HasTail(b) THEN <<EncodeExec(TailOf(b), "u64", r.ctx)>> ELSE <<>>)

(* rawArith, evalArith: a result outside the range of the left operand's type fails *)
RawArith(op, a, b) ==
    IF (op \in Division /\ b = 0) \/ (op \in Shifts /\ b < 0) THEN {} ELSE {ArithDenote(op, a, b)}
EvalArith(op, a, b) == {Val(a.t, r) : r \in {q \in RawArith(op, a.v, b.v) : InRange(a.t, q)}}

RECURSIVE ExecDenote(_, _)
ExecDenote(t, st) ==
    LET ints(i)  == {a \in ExecDenote(t.s[i], st) : a.t # "bool"}
        bools(i) == {a \in ExecDenote(t.s[i], st) : a.t = "bool"}
        holds(op, as, bs) == UNION {{Val("bool", Flag(Relates(op, a.v, b.v))) : b \in bs} : a \in as}
    IN  CASE t.k = "intLit"  -> IF InRange(t.x, t.n) THEN {Val(t.x, t.n)} ELSE {}
          [] t.k = "boolLit" -> {Val("bool", t.n)}
          [] t.k = "var"     -> {Read(st.vars, t.x, Val("u64", 0))}
          [] t.k = "arith"   -> UNION {UNION {EvalArith(t.x, a, b) : b \in ints(2)} : a \in ints(1)}
          [] t.k = "cmp"     -> holds(t.x, ints(1), ints(2))
          [] t.k = "logic"   -> holds(t.x, bools(1), bools(2))
          [] t.k = "not"     -> {Val("bool", 1 - a.v) : a \in bools(1)}
          [] t.k = "cast"    -> {Val(t.x, a.v % Limit(t.x)) : a \in ints(1)}
          [] t.k = "index"   -> {st.slices[t.x][a.v + 1] : a \in {b \in ints(1) : b.v \in 0..Len(st.slices[t.x]) - 1}}

(* State.setVar, State.bind, State.restoreScope *)
SetVar(st, x, v) == [st EXCEPT !.vars = [y \in DOMAIN st.vars \cup {x} |-> IF y = x THEN v ELSE st.vars[y]]]
Bound(st, x)     == [st EXCEPT !.scope = @ \cup {x}]
RestoreScope(pre, branch) ==
    [pre EXCEPT !.vars = [y \in DOMAIN pre.vars |-> IF y \in pre.scope THEN branch.vars[y] ELSE pre.vars[y]]]

(* stmtDenote, blockThread, bodyDenote *)
RECURSIVE ThreadStmts(_, _)
StmtDenote(s, st) ==
    LET from(values) ==
            CASE s.k = "letS"   -> IF s.x \in st.scope THEN {} ELSE {Bound(SetVar(st, s.x, v), s.x) : v \in values}
              [] s.k = "assign" -> IF s.x \in st.scope THEN {SetVar(st, s.x, v) : v \in values} ELSE {}
              [] s.k = "exprS"  -> {st : v \in values}
              [] s.k = "ifElse" ->
                    UNION {{RestoreScope(st, after) : after \in ThreadStmts(Stmts(s.s[IF v.v = 1 THEN 2 ELSE 3]), st)} :
                           v \in {c \in values : c.t = "bool"}}
    IN  from(ExecDenote(s.s[1], st))
ThreadStmts(ss, st) ==
    IF ss = <<>> THEN {st} ELSE UNION {ThreadStmts(Tail(ss), next) : next \in StmtDenote(ss[1], st)}
BlockThread(b, st) == ThreadStmts(Stmts(b), st)
BodyDenote(b, st)  == IF HasTail(b) THEN UNION {ExecDenote(TailOf(b), after) : after \in BlockThread(b, st)} ELSE {}

(* Loop.lean, condBool; emit_state_of: parameters are cells outside the scope *)
CondBool(t, st) == {v.v = 1 : v \in {c \in ExecDenote(t, st) : c.t = "bool"}}
StateOf(params, env) ==
    LET typed(i) == IntTy(params[i][2]) # "" \/ IsBool(params[i][2])
        at(x) == CHOOSE i \in DOMAIN params : params[i][1] = x
        cell(x) == IF IsBool(params[at(x)][2]) THEN Val("bool", Flag(env.bools[x])) ELSE Val(IntTy(params[at(x)][2]), env.ints[x])
        elem(x, i) == Val(ElemTy(params[at(x)][2]), env.seqs[x][i])
    IN  [vars   |-> [x \in {params[i][1] : i \in {j \in DOMAIN params : typed(j)}} |-> cell(x)],
         slices |-> [x \in ExecContext(params).slices |-> [i \in DOMAIN env.seqs[x] |-> elem(x, i)]],
         scope  |-> {}]

(* bindResult *)
BindResult(env, r) == IF r.t = "bool" THEN [env EXCEPT !.bools = [y \in DOMAIN env.bools \cup {"result"} |-> IF y = "result" THEN r.v = 1 ELSE env.bools[y]]]
                      ELSE BindIn(env, "result", r.v)

(***************************************************************************)
(* The goals over a body with statements.                                  *)
(***************************************************************************)
(* exec_result_of *)
ExecResult(t) ==
    CASE IntTy(t) # "" \/ (t.k = "prim" /\ t.x = "bool") -> {}
      [] t.k = "generic" /\ t.x \in {"Option", "Result"} -> {"OptResResult"}
      [] OTHER -> {"OutOfFragment"}

(* The clauses of a body's goal: the steps that export_straight_line_body and       *)
(* export_while_body share.  es are the expressions that are looked at for calls.   *)
ClauseGoal(item, decls, es) ==
    LET called == SpecDefs(item, decls)
        goal(tier, req, ens) ==
            [req |-> req, ens |-> ens, tier |-> tier, registry |-> called,
             before |-> <<Gate(es, called, decls), IF tier = "RecursiveInteractive" THEN {"OutOfFragment"} ELSE {},
                          Reasons({AtTier(e, tier, decls) : e \in Elements(item.req \o item.ens)}),
                          RegistryRefusals(called, decls), Reasons({req, ens})>>,
             after  |-> <<ReCheck({req, ens}, called)>>]
        term(e, tier) == EncodeClause(AtTier(e, tier, decls), ContextFor(item.params), item.ret.k = "prim" /\ item.ret.x = "bool")
        all(clauses, tier) == Conjoin([i \in DOMAIN clauses |-> term(clauses[i], tier)])
        atTier(tier) == goal(tier, all(item.req, tier), all(item.ens, tier))
    IN  atTier(TierOf(es, called, decls))

(* export_straight_line_body *)
ExportStraight(item, decls) ==
    LET goal(c, body) ==
            FirstRefusal(<<ExecResult(item.ret)>> \o c.before \o <<Reasons({body})>> \o c.after,
                         [kind |-> "straight", tier |-> c.tier, registry |-> c.registry, req |-> c.req, ens |-> c.ens,
                          body |-> body, params |-> item.params])
    IN  goal(ClauseGoal(item, decls, Elements(item.req \o item.ens \o item.dec)),
             EncodeBlock(item.body[1], ExecContext(item.params)))

(* reject_out_of_while_subset_stmt, reject_out_of_while_subset_body *)
RECURSIVE OutOfSubset(_)
OutOfSubset(s) ==
    CASE s.k = "ifstmt" -> \E i \in 2..Len(s.s) : \E t \in Elements(Stmts(s.s[i])) : OutOfSubset(t)
      [] s.k = "assign" -> ~(s.s[1].k = "path" /\ s.s[1].n = 1)
      [] OTHER -> s.k \notin {"let", "expr"}

(* recognize_while_body: a straight prefix, one while with an invariant that says something, a tail *)
Recognized(b) ==
    LET loop == Final(Stmts(b))
        invs == SubSeq(loop.s, 2, 1 + loop.n)
    IN  /\ HasTail(b) /\ loop.k = "while" /\ invs # <<>>
        /\ \A i \in 1..Len(Stmts(b)) - 1 : ~OutOfSubset(Stmts(b)[i])
        /\ \E i \in DOMAIN invs : invs[i] # Truth(TRUE)
        /\ \A t \in Elements(Stmts(Final(loop.s))) : ~OutOfSubset(t)

(* collect_while_cells: the names the loop assigns *)
RECURSIVE Cells(_)
Cells(b) ==
    UNION {CASE s.k = "assign" -> {s.s[1].x} [] s.k = "ifstmt" -> UNION {Cells(s.s[i]) : i \in 2..Len(s.s)}
             [] OTHER -> {} : s \in Elements(Stmts(b))}

(* encode_cell_int, encode_cell_prop: an invariant and a measure are read off the state *)
RECURSIVE CellInt(_, _)
CellInt(e, c) ==
    CASE e.k = "int"  -> Node("intLit", "", e.n, <<>>)
      [] e.k = "path" -> IF e.n = 1 THEN Node("var", e.x, 0, <<>>) ELSE OutOfFragment
      [] e.k = "binary" -> IF e.x \in Arithmetic \cup Division
                           THEN Node("arith", e.x, 0, <<CellInt(e.s[1], c), CellInt(e.s[2], c)>>) ELSE OutOfFragment
      [] e.k = "cast" -> IF e.x \in CastTargets THEN CellInt(e.s[1], c) ELSE OutOfFragment
      [] e.k = "method" -> IF e.x = "len" /\ Len(e.s) = 1 /\ e.s[1].k = "path" /\ e.s[1].x \in c.slices
                           THEN Node("seqLen", "", 0, <<Node("seqVar", e.s[1].x, 0, <<>>)>>) ELSE OutOfFragment
      [] e.k = "ref" -> CellInt(e.s[1], c)
      [] OTHER -> OutOfFragment
RECURSIVE CellProp(_, _)
CellProp(e, c) ==
    CASE e.k = "bool" -> Node("boolLit", "", e.n, <<>>)
      [] e.k = "binary" /\ e.x \in Comparisons -> Node("cmp", e.x, 0, <<CellInt(e.s[1], c), CellInt(e.s[2], c)>>)
      [] e.k = "binary" /\ e.x \in Connectives -> Node("logic", e.x, 0, <<CellProp(e.s[1], c), CellProp(e.s[2], c)>>)
      [] e.k = "unary"  -> Node("neg", "!", 0, <<CellProp(e.s[1], c)>>)
      [] OTHER -> OutOfFragment

(* export_while_body: the types of the cells are those of the parameters and the prefix *)
CellContext(own, first) ==
    LET lets == {i \in DOMAIN first : first[i].k = "let"}
        last(x) == CHOOSE i \in lets : first[i].x = x /\ \A j \in lets : first[j].x = x => j <= i
        named == {first[i].x : i \in lets}
    IN  [own EXCEPT !.width = [x \in named \cup DOMAIN own.width |-> IF x \in named THEN LetWidth(first[last(x)]) ELSE own.width[x]]]

ExportWhile(item, decls) ==
    LET b == item.body[1]
        goal(c, first, loop, cell) ==
            [kind |-> "while", tier |-> c.tier, registry |-> c.registry, req |-> c.req, ens |-> c.ens,
             prefix |-> EncodeBlock(Block(first, <<>>), cell),
             cond   |-> EncodeExec(loop.s[1], "u64", cell),
             body   |-> EncodeBlock(Final(loop.s), cell),
             tail   |-> EncodeExec(TailOf(b), "u64", cell),
             inv    |-> Conjoin([i \in 1..loop.n |-> CellProp(loop.s[1 + i], cell)]),
             dec    |-> CellInt(loop.s[2 + loop.n], cell),
             cells  |-> [x \in Cells(Final(loop.s)) |-> WidthOf(cell, x)],
             params |-> item.params]
        checked(c, g, cond) ==
            FirstRefusal(c.before \o <<Reasons({g.prefix}), Reasons({g.cond}), Reasons({g.body}), Reasons({g.tail}),
                                       Reasons({g.inv, cond}), Reasons({g.dec})>> \o c.after, g)
        split(c, first, loop, cell) == checked(c, goal(c, first, loop, cell), CellProp(loop.s[1], cell))
        first == SubSeq(Stmts(b), 1, Len(Stmts(b)) - 1)
    IN  CASE ExecResult(item.ret) # {} -> Refusal(ExecResult(item.ret))
          [] ~Recognized(b) -> Refusal({"LoopBody"})
          [] OTHER -> split(ClauseGoal(item, decls, Elements(item.req \o item.ens)), first, Final(Stmts(b)),
                            CellContext(ExecContext(item.params), first))

(* export_item, export_arbitrary_result_harness, export_lemma: which goal an item is given.    *)
(* result is "body", or "any" for the harness.                                                 *)
ExportItem(item, decls, result) ==
    LET b == item.body[1]
        lastStmt == IF Stmts(b) = <<>> THEN "none" ELSE Final(Stmts(b)).k
    IN  CASE item.kind = "lemma" -> ExportLemma(item, decls)
          [] item.kind \in {"adt", "forge"} -> Refusal({"OutOfFragment"})
          [] item.kind = "fn" /\ item.holes > 0 -> Refusal({"OpenHole"})
          [] item.body = <<>> -> Refusal({"NotPureContract"})
          [] item.kind = "spec" /\ ~PureTail(b) -> Refusal({"NotPureContract"})
          [] item.kind = "spec" /\ ~IsIntSorted(item.ret) -> Refusal({"NonIntResult"})
          [] item.kind = "fn" /\ ~(PureTail(b) /\ IsIntSorted(item.ret)) ->
                CASE result = "any" -> Refusal({"OutOfFragment"})
                  [] lastStmt \in {"loop", "while"} -> ExportWhile(item, decls)
                  [] OTHER -> ExportStraight(item, decls)
          [] OTHER -> ExportPure(item, decls, result)

(* InRangeParams *)
InRangeParams(params, env) ==
    /\ \A p \in Elements(params) : IntTy(p[2]) # "" => InRange(IntTy(p[2]), env.ints[p[1]])
    /\ \A p \in Elements(params) : ElemTy(p[2]) # "" => \A v \in Elements(env.seqs[p[1]]) : InRange(ElemTy(p[2]), v)

(* emit_body_theorems: the contract, and that the body has a result at all *)
StraightGoalAt(g, env) ==
    InRangeParams(g.params, env) /\ Denote(g.req, env) =>
        LET keeps(out) == out # {} /\ \A r \in out : Denote(g.ens, BindResult(env, r))
        IN  keeps(BodyDenote(g.body, StateOf(g.params, env)))

(* execIntValue: a state as the invariant and the measure read it *)
CellEnv(st) ==
    [ints  |-> [x \in DOMAIN st.vars |-> IF st.vars[x].t = "bool" THEN 0 ELSE st.vars[x].v],
     seqs  |-> [x \in DOMAIN st.slices |-> [i \in DOMAIN st.slices[x] |-> st.slices[x][i].v]],
     bools |-> [x \in {} |-> FALSE]]

(* emit_while_theorems, Inv_item: the invariants, the width and range of every cell and     *)
(* parameter, the parameters' values, and that the cells are in scope                       *)
InvItem(g, env, st) ==
    LET read(x) == Read(st.vars, x, Val("u64", 0))
        inRange(v) == v.t # "bool" => InRange(v.t, v.v)
        framed(start) ==
            /\ \A x \in DOMAIN start.vars \ DOMAIN g.cells : read(x) = start.vars[x] /\ inRange(read(x))
            /\ \A x \in DOMAIN start.slices \ DOMAIN g.cells : st.slices[x] = start.slices[x]
    IN  /\ Denote(g.inv, CellEnv(st))
        /\ \A x \in DOMAIN g.cells : read(x).t = g.cells[x] /\ InRange(g.cells[x], read(x).v) /\ x \in st.scope
        /\ framed(StateOf(g.params, env))


(* The _dec obligation, of the measure at a state and at the next *)
DecFalls(before, after) == after < before /\ 0 <= before

Measure(g, st) == IntVal(g.dec, CellEnv(st))

(* The obligations at one state: _pres, _progress, _dec and _exit *)
LoopGoalAt(g, env, st) ==
    LET steps(go, next) ==
            /\ go # {} /\ (TRUE \in go => next # {})
            /\ TRUE \in go => \A n \in next : InvItem(g, env, n) /\ DecFalls(Measure(g, st), Measure(g, n))
            /\ FALSE \in go /\ Denote(g.req, env) =>
                  \E r \in ExecDenote(g.tail, st) : Denote(g.ens, BindResult(env, r))
    IN  InvItem(g, env, st) => steps(CondBool(g.cond, st), BlockThread(g.body, st))

(* The states the loop goes through *)
RECURSIVE Visited(_, _)
Visited(g, sts) ==
    LET on(more) == IF more = sts THEN sts ELSE Visited(g, more)
    IN  on(sts \cup UNION {BlockThread(g.body, st) : st \in {u \in sts : CondBool(g.cond, u) = {TRUE}}})

(* _entry, and the others at every state that the loop goes through: the theorems are for  *)
(* all states, of which these are the ones a run needs                                     *)
WhileGoalAt(g, env) ==
    LET from(entry) ==
            /\ Denote(g.req, env) => entry # {} /\ \A st \in entry : InvItem(g, env, st)
            /\ \A st \in Visited(g, entry) : LoopGoalAt(g, env, st)
    IN  InRangeParams(g.params, env) => from(BlockThread(g.prefix, StateOf(g.params, env)))

GoalAt(g, env, r) ==
    CASE g.kind = "straight" -> StraightGoalAt(g, env)
      [] g.kind = "while"    -> WhileGoalAt(g, env)
      [] OTHER -> PureGoalAt(g, env, r)

(***************************************************************************)
(* What the source means: the values of clauses over the integers and of   *)
(* code over words, and runs of bodies, apart from the trees above.  A     *)
(* literal has no type ("") until it meets one; names live in frames.      *)
(***************************************************************************)
AsDeclared(v, t) == IF v.t # "" THEN {v} ELSE {Val(t, v.v) : n \in {m \in {v.v} : InRange(t, m)}}

Operate(op, a, b, code) ==
    LET t == IF a.t = "" /\ op \notin Shifts THEN b.t ELSE a.t
        typed(r) ==
            CASE ~r.ok \/ (op \notin Arithmetic \cup Comparisons /\ (a.v < 0 \/ b.v < 0)) -> {}
              [] op \in Comparisons -> {Val("bool", r.v)}
              [] code /\ t # "" /\ ~InRange(t, r.v) -> {}
              [] OTHER -> {Val(t, r.v)}
    IN  typed(Apply(op, a.v, b.v, IF code /\ t # "" THEN Bits(t) ELSE BitWidth))

(* A cast wraps in code; over the integers it has a value where it changes nothing *)
CastTo(t, a, code) ==
    CASE code -> {Val(t, a.v % Limit(t))}
      [] t = "int" \/ (t = "nat" /\ a.v >= 0) \/ (t \notin {"int", "nat"} /\ InRange(t, a.v)) -> {Val(t, a.v)}
      [] OTHER -> {}

Within(t, a, lo, hi) ==
    IF 0 <= lo /\ lo <= hi /\ hi <= Len(a.v) THEN {Val("seq", SubSeq(a.v, lo + 1, hi))} ELSE {}

RECURSIVE Means(_, _, _, _)
MeansCombinator(e, s, decls) ==
    LET as == Means(e.s[1], s, decls, FALSE)
        bs == IF Len(e.s) > 1 /\ e.s[2].k # "closure" THEN Means(e.s[2], s, decls, FALSE) ELSE {Val("", 0)}
        p  == Final(e.s)
        at(v) == Means(p.s[2], With(s, p.s[1].x, v), decls, FALSE)
        known(a) == p.k # "closure" \/ \A i \in DOMAIN a.v : at(a.v[i]) # {}
        holds(a) == {i \in DOMAIN a.v : at(a.v[i]) = {Val("bool", 1)}}
        plain(a) == [i \in DOMAIN a.v |-> a.v[i].v]
        truth(a, b) ==
            CASE e.x = "forall_in" -> holds(a) = DOMAIN a.v
              [] e.x = "exists_in" -> holds(a) # {}
              [] e.x = "sorted"    -> \A i, j \in DOMAIN a.v : i < j => a.v[i].v <= a.v[j].v
              [] e.x = "forall_below" -> \A i \in DOMAIN a.v : i <= b.v => i \in holds(a)
              [] e.x = "forall_from"  -> \A i \in DOMAIN a.v : i > b.v => i \in holds(a)
              [] e.x = "disjoint" -> \A i \in DOMAIN a.v, j \in DOMAIN b.v : a.v[i].v # b.v[j].v
              [] e.x = "permutation_of" ->
                    Len(a.v) = Len(b.v) /\ \E f \in [DOMAIN a.v -> DOMAIN b.v] :
                        \A i, j \in DOMAIN a.v : a.v[i].v = b.v[f[i]].v /\ (i # j => f[i] # f[j])
    IN  IF e.x = "count_where" THEN {Val("int", Cardinality(holds(a))) : a \in {c \in as : known(c)}}
        ELSE UNION {{Val("bool", Flag(truth(a, b))) : b \in bs} : a \in {c \in as : known(c)}}

MeansCall(e, s, decls) ==
    LET args == [i \in DOMAIN e.s |-> Means(e.s[i], s, decls, FALSE)]
        f    == decls[e.x]
    IN  CASE e.x \in Combinators -> MeansCombinator(e, s, decls)
          [] e.x \in DOMAIN decls /\ \A i \in DOMAIN args : args[i] # {} ->
                Means(TailOf(f.body), [x \in {f.params[i][1] : i \in DOMAIN f.params} |->
                        CHOOSE v \in args[CHOOSE i \in DOMAIN f.params : f.params[i][1] = x] : TRUE], decls, FALSE)
          [] OTHER -> {}

MeansIndex(e, s, decls, code) ==
    LET as == Means(e.s[1], s, decls, code)
        is == Means(e.s[2], s, decls, code)
    IN  CASE e.k = "method" \/ e.x = "single" ->
                UNION {{a.v[i.v + 1] : i \in {j \in is : j.v \in 0..Len(a.v) - 1}} : a \in as}
          [] e.x = "to"   -> UNION {UNION {Within(e.x, a, 0, i.v) : i \in is} : a \in as}
          [] e.x = "from" -> UNION {UNION {Within(e.x, a, i.v, Len(a.v)) : i \in is} : a \in as}
          [] OTHER -> UNION {UNION {UNION {Within(e.x, a, i.v, j.v) : j \in Means(e.s[3], s, decls, code)} : i \in is} : a \in as}

Means(e, s, decls, code) ==
    LET at(i) == Means(e.s[i], s, decls, code)
    IN  CASE e.k = "int"   -> {Val("", e.n)}
          [] e.k = "bool"  -> {Val("bool", e.n)}
          [] e.k = "path"  -> IF e.x \in DOMAIN s THEN {s[e.x]} ELSE {}
          [] e.k = "unary" -> {Val("bool", 1 - a.v) : a \in at(1)}
          [] e.k = "binary" /\ e.x \in Connectives -> UNION {IF a.v = Flag(e.x = "||") THEN {a} ELSE at(2) : a \in at(1)}
          [] e.k = "binary" -> UNION {UNION {Operate(e.x, a, b, code) : b \in at(2)} : a \in at(1)}
          [] e.k = "ref"    -> at(1)
          [] e.k = "cast"   -> UNION {CastTo(e.x, a, code) : a \in at(1)}
          [] e.k = "method" /\ e.x = "len" -> {Val("usize", Len(a.v)) : a \in at(1)}
          [] e.k = "index" \/ (e.k = "method" /\ e.x = "byte_at") -> MeansIndex(e, s, decls, code)
          [] e.k = "call" /\ ~code -> MeansCall(e, s, decls)
          [] OTHER -> {}

Innermost(fs, x) == CHOOSE i \in DOMAIN fs : x \in DOMAIN fs[i] /\ \A j \in DOMAIN fs : x \in DOMAIN fs[j] => j <= i
InFrames(fs)     == [x \in UNION {DOMAIN f : f \in Elements(fs)} |-> fs[Innermost(fs, x)][x]]
Computes(e, fs)  == Means(e, InFrames(fs), [f \in {} |-> 0], TRUE)

RECURSIVE RunStmts(_, _, _)
RunInner(b, fs, fuel) == {SubSeq(out, 1, Len(fs)) : out \in RunStmts(Stmts(b), Append(fs, [x \in {} |-> 0]), fuel)}
RunStmt(t, fs, fuel) ==
    CASE t.k = "let" -> {[fs EXCEPT ![Len(fs)] = With(@, t.x, v)] :
                         v \in UNION {AsDeclared(u, LetWidth(t)) : u \in Computes(Final(t.s), fs)}}
      [] t.k = "assign" -> LET i == Innermost(fs, t.s[1].x)
                               x == t.s[1].x
                           IN  IF x \notin DOMAIN InFrames(fs) THEN {}
                               ELSE {[fs EXCEPT ![i] = With(@, x, v)] :
                                     v \in UNION {AsDeclared(u, fs[i][x].t) : u \in Computes(t.s[2], fs)}}
      [] t.k = "expr" -> {fs : v \in Computes(t.s[1], fs)}
      [] t.k = "ifstmt" -> UNION {CASE c.v = 1 -> RunInner(t.s[2], fs, fuel) [] Len(t.s) = 3 -> RunInner(t.s[3], fs, fuel)
                                    [] OTHER -> {fs} : c \in Computes(t.s[1], fs)}
      [] t.k = "while" -> UNION {IF c.v = 0 THEN {fs} ELSE IF fuel = 0 THEN {}
                                 ELSE UNION {RunStmts(<<t>>, out, fuel - 1) : out \in RunInner(Final(t.s), fs, fuel)} :
                                 c \in Computes(t.s[1], fs)}
      [] OTHER -> {}
RunStmts(ss, fs, fuel) == IF ss = <<>> THEN {fs} ELSE UNION {RunStmts(Tail(ss), out, fuel) : out \in RunStmt(ss[1], fs, fuel)}

(* No loop of the instances that ends takes more turns than this *)
MaxTurns == 16
RunsTo(item, s) ==
    UNION {UNION {AsDeclared(v, IF IntTy(item.ret) = "" THEN "u64" ELSE IntTy(item.ret)) : v \in Computes(TailOf(item.body[1]), fs)} :
           fs \in RunStmts(Stmts(item.body[1]), <<s>>, MaxTurns)}

(* The parameters of an item as the source reads them *)
Arguments(params, env) ==
    [x \in {p[1] : p \in Elements(params)} |->
        LET t == params[CHOOSE i \in DOMAIN params : params[i][1] = x][2]
        IN  CASE x \in DOMAIN env.seqs  -> Val("seq", [i \in DOMAIN env.seqs[x] |-> Val(ElemTy(t), env.seqs[x][i])])
              [] x \in DOMAIN env.bools -> Val("bool", Flag(env.bools[x]))
              [] OTHER -> Val(IF IntTy(t) = "" THEN "int" ELSE IntTy(t), env.ints[x])]

(* All clauses have a value, and all hold *)
Meaningful(es, s, decls) == \A e \in es : Means(e, s, decls, FALSE) # {}
AllHold(es, s, decls)    == \A e \in es : Means(e, s, decls, FALSE) = {Val("bool", 1)}

(* The results an item has to keep its promise for: those of its run, of its pure body,  *)
(* any at all for the harness, and none for a lemma                                      *)
ResultsOf(item, g, s, decls, r) ==
    CASE g.kind = "lemma" -> {Val("", 0)}
      [] g.kind \in {"straight", "while"} -> RunsTo(item, s)
      [] g.result = "any" -> {Val("int", r)}
      [] OTHER -> Means(TailOf(item.body[1]), s, decls, FALSE)

(* What the exporter gets wrong, and its documents know of in part: a clause that reads a   *)
(* boolean parameter (denoted as true), a literal to the left of a narrower operand (whose  *)
(* sum is checked at the wider type), and calls of spec functions in a lemma (not unfolded).*)
Misread(item) ==
    LET nodes(es) == UNION {Subtrees(e) : e \in es}
        clauses == nodes(Elements(item.req \o item.ens))
        narrow  == {p[1] : p \in {q \in Elements(item.params) : IntTy(q[2]) = "u8"}}
    IN  \/ \E p \in Elements(item.params) : IsBool(p[2]) /\ Path(p[1]) \in clauses
        \/ \E e \in nodes(Elements(item.body)) : e.k = "binary" /\ e.x \in Arithmetic /\ e.s[1].k = "int" /\ \E x \in narrow : Path(x) \in Subtrees(e.s[2])
        \/ item.kind = "lemma" /\ \E e \in clauses : e.k = "call" /\ e.x \notin Combinators

(* At one assignment s of the parameters: what Lean is asked to prove of a pure item holds *)
(* exactly when the contract does, and of a body with statements only if it runs to its     *)
(* end and keeps its contract.  told is the goal, kept the contract at the results.         *)
Deserved(pure, admitted, results, kept, told) ==
    CASE ~admitted -> pure => told
      [] pure      -> results # {} => (told <=> kept)
      [] OTHER     -> told => results # {} /\ kept

(* A goal is for every environment, so that names that stand for nothing may have any value. *)
HonestWith(item, g, env, decls, r, ens, s, results) ==
    /\ Meaningful(Elements(item.req), s, decls)
    /\ \A v \in results : Meaningful(ens, With(s, "result", v), decls)
    => Deserved(g.kind \in {"pure", "lemma"}, AllHold(Elements(item.req), s, decls), results,
                \A v \in results : AllHold(ens, With(s, "result", v), decls),
                \A junk \in IF g.kind = "while" THEN {r} ELSE 0..1 : GoalAt(g, BindIn(env, "result", junk), r))

HonestAt(item, g, env, decls, r) ==
    LET s   == Arguments(item.params, env)
        ens == IF item.kind = "spec" THEN {Binary("==", Result, TailOf(item.body[1]))} ELSE Elements(item.ens)
    IN  HonestWith(item, g, env, decls, r, ens, s, ResultsOf(item, g, s, decls, r))
====
