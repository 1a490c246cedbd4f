---------------------------------- MODULE Relax -----------------------------------
(***************************************************************************)
(* The two z3 routes beside the cage.                                      *)
(*                                                                         *)
(* The nlsat route (forge/src/relax.rs, NlsatEngine of engine.rs): which   *)
(* contracts are relaxed to the reals, the query, and what is made of a    *)
(* real model of it.                                                       *)
(*                                                                         *)
(* A contract is [params, ret, boundary, req, ens] over unsigned integer   *)
(* scalars and `result'.  A real is an integer number of halves, which are *)
(* the real models that z3 is let find; a number of halves stands for the  *)
(* decimal that z3 prints.                                                 *)
(*                                                                         *)
(* The bit-vector route (forge/src/bitvector.rs): a clause tagged @bv,     *)
(* decided at its width, and the side obligation of @bv nowrap.  z3 is     *)
(* external: it decides what it is asked, gives up, or prints nothing.     *)
(***************************************************************************)
EXTENDS Surface

IntegerScalars == {"u8", "u16", "u32", "u64", "usize"}

RECURSIVE TermOk(_)
(* classify_term: a variable, a literal, or +, - and * of terms. *)
TermOk(e) ==
    \/ e.k = "int"
    \/ e.k = "path" /\ e.n = 1
    \/ e.k = "binary" /\ e.x \in Arithmetic /\ TermOk(e.s[1]) /\ TermOk(e.s[2])

RECURSIVE PropOk(_)
(* classify_prop: comparisons of terms under connectives. *)
PropOk(e) ==
    \/ e.k = "bool"
    \/ e.k = "unary" /\ PropOk(e.s[1])
    \/ /\ e.k = "binary"
       /\ \/ e.x \in Comparisons /\ TermOk(e.s[1]) /\ TermOk(e.s[2])
          \/ e.x \in Connectives /\ PropOk(e.s[1]) /\ PropOk(e.s[2])

(* classify_fn *)
Relaxable(f) ==
    /\ ~f.boundary /\ f.ret \in IntegerScalars
    /\ \A p \in DOMAIN f.params : f.params[p] \in IntegerScalars
    /\ PropOk(f.req) /\ \A i \in DOMAIN f.ens : PropOk(f.ens[i])

(* integer_vars *)
IntegerVars(f) == DOMAIN f.params \cup {"result"}

RECURSIVE RealTerm(_, _)
(* render_term_smt, at a point of halves: the value as <<numerator, denominator>> *)
RealTerm(e, pt) ==
    LET l == RealTerm(e.s[1], pt)
        r == RealTerm(e.s[2], pt)
    IN  CASE e.k = "int"  -> <<e.n, 1>>
          [] e.k = "path" -> <<pt[e.x], 2>>
          [] e.x = "+"    -> <<l[1] * r[2] + r[1] * l[2], l[2] * r[2]>>
          [] e.x = "-"    -> <<l[1] * r[2] - r[1] * l[2], l[2] * r[2]>>
          [] e.x = "*"    -> <<l[1] * r[1], l[2] * r[2]>>

RECURSIVE RealProp(_, _)
(* render_prop_smt: != is the negation of =. *)
RealProp(e, pt) ==
    CASE e.k = "bool"  -> e.n = 1
      [] e.k = "unary" -> ~RealProp(e.s[1], pt)
      [] e.x = "&&"    -> RealProp(e.s[1], pt) /\ RealProp(e.s[2], pt)
      [] e.x = "||"    -> RealProp(e.s[1], pt) \/ RealProp(e.s[2], pt)
      [] OTHER -> LET l == RealTerm(e.s[1], pt)
                      r == RealTerm(e.s[2], pt)
                  IN  Apply(e.x, l[1] * r[2], r[1] * l[2], 1).v = 1

(* Mutant: zero is left out of the domain. *)
QueryPositive(f, pt) ==
    /\ \A v \in DOMAIN pt : pt[v] > 0
    /\ RealProp(f.req, pt)
    /\ \E i \in DOMAIN f.ens : ~RealProp(f.ens[i], pt)

(* negated_contract_query: the models of the negated contract over the        *)
(* non-negative reals.                                                        *)
Query(f, pt) ==
    /\ \A v \in DOMAIN pt : pt[v] >= 0
    /\ RealProp(f.req, pt)
    /\ \E i \in DOMAIN f.ens : ~RealProp(f.ens[i], pt)

(* eval_contract_negation_over_ints, with i128 taken for the integers *)
NegationOverInts(f, pt) ==
    /\ Eval(f.req, pt, "spec", 1).v = 1
    /\ \E i \in DOMAIN f.ens : Eval(f.ens[i], pt, "spec", 1).v = 0

(* f64::round: a half is rounded away from zero. *)
Rounded(h) == IF h >= 0 THEN (h + 1) \div 2 ELSE -((1 - h) \div 2)

(* integrality_box_falsifier: the integer points within 2 of the rounded       *)
(* model; none are tried of more than six variables.                           *)
BoxFalsifiers(f, model) ==
    IF Cardinality(IntegerVars(f)) > 6 THEN {}
    ELSE {pt \in {[v \in IntegerVars(f) |-> Rounded(model[v]) + d[v]] : d \in [IntegerVars(f) -> -2..2]} :
            NegationOverInts(f, pt)}

(* classify_sat: what is reported of a model for which the box has these points *)
SatOutcomes(model, box) ==
    IF box = {} THEN {[kind |-> "real witness", point |-> model]}
    ELSE {[kind |-> "counterexample", point |-> p] : p \in box}

(* discharge_relax: z3 returns some model if there is one.                     *)
RelaxOutcomes(f, reals) ==
    LET models == {pt \in [IntegerVars(f) -> reals] : Query(f, pt)}
    IN  IF ~Relaxable(f) THEN {[kind |-> "unknown"]}
        ELSE IF models = {} THEN {[kind |-> "proved"]}
        ELSE UNION {SatOutcomes(m, BoxFalsifiers(f, m)) : m \in models}
(***************************************************************************)
(* The bit-vector route.                                                   *)
(***************************************************************************)
BvOperators == Arithmetic \cup {"/", "%"} \cup Shifts \cup BitOps

RECURSIVE BvTermOk(_)
(* render_bv_term: what is rendered as a term. *)
BvTermOk(e) ==
    \/ e.k = "int"
    \/ e.k = "path" /\ e.n = 1
    \/ e.k \in {"unary", "cast"} /\ BvTermOk(e.s[1])
    \/ e.k = "binary" /\ e.x \in BvOperators /\ BvTermOk(e.s[1]) /\ BvTermOk(e.s[2])

RECURSIVE BvPropOk(_)
(* render_bv_prop: what is rendered as a proposition. *)
BvPropOk(e) ==
    \/ e.k = "bool"
    \/ e.k = "unary" /\ BvPropOk(e.s[1])
    \/ /\ e.k = "binary"
       /\ \/ e.x \in Comparisons /\ BvTermOk(e.s[1]) /\ BvTermOk(e.s[2])
          \/ e.x \in Connectives /\ BvPropOk(e.s[1]) /\ BvPropOk(e.s[2])

(* The operators of QF_BV on w-bit words, as SMT-LIB defines them: they wrap, *)
(* division by zero is all ones, the remainder by zero the dividend, and a    *)
(* shift by the width or more is zero.                                        *)
BvApply(op, l, r, w) ==
    CASE op \in Arithmetic -> Apply(op, l, r, w).v % Power(w)
      [] op = "/" -> IF r = 0 THEN Power(w) - 1 ELSE l \div r
      [] op = "%" -> IF r = 0 THEN l ELSE l % r
      [] op \in Shifts -> IF r >= w THEN 0 ELSE Apply(op, l, r, w).v
      [] OTHER -> Apply(op, l, r, w).v

RECURSIVE BvTerm(_, _, _)
(* render_bv_term: a literal is reduced to the width, a cast is dropped. *)
BvTerm(e, pt, w) ==
    CASE e.k = "int"   -> e.n % Power(w)
      [] e.k = "path"  -> pt[e.x]
      [] e.k = "unary" -> Power(w) - 1 - BvTerm(e.s[1], pt, w)
      [] e.k = "cast"  -> BvTerm(e.s[1], pt, w)
      [] OTHER         -> BvApply(e.x, BvTerm(e.s[1], pt, w), BvTerm(e.s[2], pt, w), w)

RECURSIVE BvProp(_, _, _)
(* render_bv_prop *)
BvProp(e, pt, w) ==
    CASE e.k = "bool"  -> e.n = 1
      [] e.k = "unary" -> ~BvProp(e.s[1], pt, w)
      [] e.x = "&&"    -> BvProp(e.s[1], pt, w) /\ BvProp(e.s[2], pt, w)
      [] e.x = "||"    -> BvProp(e.s[1], pt, w) \/ BvProp(e.s[2], pt, w)
      [] OTHER         -> Apply(e.x, BvTerm(e.s[1], pt, w), BvTerm(e.s[2], pt, w), w).v = 1

RECURSIVE IsConstant(_)
(* is_constant *)
IsConstant(e) ==
    \/ e.k \in {"int", "bool"}
    \/ e.k \in {"binary", "unary"} /\ \A i \in DOMAIN e.s : IsConstant(e.s[i])

RECURSIVE VariableMultiply(_)
(* contains_variable_multiply *)
VariableMultiply(e) ==
    /\ e.k \in {"binary", "unary"}
    /\ \/ e.x = "*" /\ ~IsConstant(e.s[1]) /\ ~IsConstant(e.s[2])
       \/ \E i \in DOMAIN e.s : VariableMultiply(e.s[i])

(* BvBudgetProfile::for_query: the bounded profile is the widest width's. *)
BvProfile(exprs, w, widest) ==
    IF w = widest /\ \E e \in exprs : VariableMultiply(e) THEN "bv64-multiplier" ELSE "bv-default"

(* The points of a width. *)
Points(names, w) == [names -> 0..(Power(w) - 1)]

(* build_bv_query: the points that falsify the clause under the precondition. *)
BvFalsifiers(names, req, clause, w) ==
    {pt \in Points(names, w) : BvProp(req, pt, w) /\ ~BvProp(clause, pt, w)}

(* Mutant: a product is taken to overflow as a sum does. *)
OverflowOfSums(e, pt, w) ==
    LET l == BvTerm(e.s[1], pt, w)
        r == BvTerm(e.s[2], pt, w)
    IN  IF e.x = "-" THEN l < r ELSE BvApply(e.x, l, r, w) < l

(* overflow_condition: a sum less than an operand, a negative difference, a    *)
(* product of twice the width with a bit in its upper half.                    *)
OverflowCondition(e, pt, w) ==
    LET l == BvTerm(e.s[1], pt, w)
        r == BvTerm(e.s[2], pt, w)
    IN  CASE e.x = "+" -> BvApply("+", l, r, w) < l
          [] e.x = "-" -> l < r
          [] e.x = "*" -> ((l * r) \div Power(w)) % Power(w) # 0

RECURSIVE WrapProne(_)
(* collect_overflow_conditions: the operations that have a condition.          *)
WrapProne(e) ==
    IF e.k \notin {"binary", "unary", "cast"} THEN {}
    ELSE UNION {WrapProne(e.s[i]) : i \in DOMAIN e.s}
         \cup (IF e.k = "binary" /\ e.x \in Arithmetic THEN {e} ELSE {})

(* build_nowrap_query: the points under the precondition at which one of the   *)
(* operations overflows.                                                       *)
Overflowing(names, req, ops, w) ==
    {pt \in Points(names, w) : BvProp(req, pt, w) /\ \E op \in ops : OverflowCondition(op, pt, w)}

Told(kind) == [kind |-> kind]

(* A model of z3 may leave out variables that do not matter. *)
Models(names, good, w) ==
    UNION {{m \in Points(S, w) : \A pt \in Points(names, w) : (\A v \in S : pt[v] = m[v]) => pt \in good} :
           S \in SUBSET names}

(* parse_bv_model: a variable without a value is reported as zero. *)
Witness(names, m) ==
    [kind |-> "counterexample", point |-> [v \in names |-> IF v \in DOMAIN m THEN m[v] ELSE 0]]

(* run_z3 and the match on the token: a model if there is one,                 *)
(* else a proof; a query that exhausts its budget is `unknown', the clock      *)
(* prints `timeout' and an absent z3 nothing, neither of which is a verdict.   *)
Z3Says(names, good, w, profile) ==
    (IF good = {} THEN {Told("proved")} ELSE {Witness(names, m) : m \in Models(names, good, w)})
    \cup {[kind |-> "timeout", profile |-> profile], Told("unknown")}

(* discharge_bv: a clause or a precondition that is not rendered is not asked about. *)
DischargeBv(names, req, clause, w, widest) ==
    IF BvPropOk(req) /\ BvPropOk(clause)
    THEN Z3Says(names, BvFalsifiers(names, req, clause, w), w, BvProfile({req, clause}, w, widest))
    ELSE {Told("unknown")}

(* discharge_nowrap: nothing is asked of a clause without wrap-prone operations. *)
DischargeNowrap(names, req, clause, w, widest) ==
    LET ops == WrapProne(clause)
    IN  IF \E op \in ops : ~BvTermOk(op) THEN {Told("unknown")}
        ELSE IF ops = {} THEN {Told("proved")}
        ELSE IF BvPropOk(req) THEN Z3Says(names, Overflowing(names, req, ops, w), w, BvProfile({req, clause}, w, widest))
        ELSE {Told("unknown")}

(* req_satisfiable: "no" where the precondition is known to be vacuous. *)
ReqSatisfiable(names, req, w) ==
    IF ~BvPropOk(req) THEN {"unknown"}
    ELSE {"unknown", IF \E pt \in Points(names, w) : BvProp(req, pt, w) THEN "yes" ELSE "no"}

(* bv_nowrap_verdict *)
NowrapVerdict(o) ==
    CASE o.kind = "proved" -> o
      [] o.kind = "counterexample" -> [o EXCEPT !.kind = "overflow"]
      [] OTHER -> Told("undecided")

(* One tagged clause of check_program_bv: its precondition, the clause, and, of a *)
(* clause that holds, the side obligation of nowrap.                              *)
TaggedOutcomes(names, req, clause, nowrap, w, widest) ==
    LET sat == ReqSatisfiable(names, req, w)
        asked == DischargeBv(names, req, clause, w, widest)
    IN  (IF "no" \in sat THEN {Told("vacuous")} ELSE {})
        \cup {o \in asked : o.kind # "proved" \/ ~nowrap}
        \cup (IF nowrap /\ Told("proved") \in asked
              THEN {NowrapVerdict(o) : o \in DischargeNowrap(names, req, clause, w, widest)} ELSE {})
====
