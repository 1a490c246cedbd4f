----------------------------- MODULE ProgramLowering -----------------------------
(***************************************************************************)
(* Expressions on their way to Verus (thermite-lower/src/lower.rs,         *)
(* lower_expr and its helpers).  The code writes text in one pass; here    *)
(* Rewritten says what is written in place of each node (the coercions,    *)
(* views and accessors of a specification) and Emit how it is written, the *)
(* parentheses in particular.  The text is a sequence of tokens in the     *)
(* surface's spelling: x@ is x.view, matches! is a call, a quantifier      *)
(* forall|i: int| g ==> (b) is the closure |i| g || (b), which ends where  *)
(* the quantifier ends.                                                    *)
(*                                                                         *)
(* A context c says where an expression stands (Ctx): spec, the sets       *)
(* slices, strings, stringFields, owned, natFns, userString, whether casts *)
(* go to nat, the enum of each variant and the parameter types of the      *)
(* specification functions.                                                *)
(***************************************************************************)
EXTENDS Surface

(* Registry entries of combinators: the positions of their index arguments. *)
Combinators == [n \in {"sorted", "forall_in", "exists_in", "count_where", "permutation_of", "disjoint",
                       "forall_below", "forall_from"} |->
                    IF n \in {"forall_below", "forall_from"} THEN {2} ELSE {}]

ByteviewFns == {"parse_le", "parse_be", "all_digits", "is_digit", "occurs_at", "contains_sub",
                "count_sep", "sep_free", "bytes_eq"}
GeneratedFreeFns == ByteviewFns \cup {"parse_u64", "u64_to_string", "pow10", "is_space"}

(* reserved_name: generated functions live under a prefix of their own. *)
ReservedName(f) == "__" \o f

View(e)    == Field(e, "view")
ByteView(e) == View(Field(e, "data"))
BareInt(e) == Node("bareint", "", 0, <<e>>)     \* {e} as int, without parentheses

IsCompound(e)      == e.k \in {"binary", "unary"}
IsCastTo(e, t)     == e.k = "cast" /\ e.x = t
IsSimplePath(e)    == e.k = "path" /\ e.n = 1

(* qualify_variant_path *)
QualifyVariant(x, c) == IF x \in DOMAIN c.variants THEN <<c.variants[x], x>> ELSE <<x>>
VariantPath(x, c) == LET q == QualifyVariant(x, c)
                     IN  Node("path", q[1], Len(q), [j \in 1..(Len(q) - 1) |-> Path(q[j + 1])])

(* spec_call_param_cast: the type an argument is narrowed to, "" for a bool. *)
ParamCast(f, i, c) ==
    IF f \in DOMAIN c.paramTypes /\ i <= Len(c.paramTypes[f])
    THEN (IF c.paramTypes[f][i] = "bool" THEN "" ELSE c.paramTypes[f][i])
    ELSE "u64"

(* callee_takes_string_byteview: not for a user's function of that name *)
TakesByteview(f, c) == f \in ByteviewFns \ c.userString

RECURSIVE Rewritten(_, _)

(* byteview_string_operand: a string, a string field, or a reference to one *)
ByteviewOperand(a, c) ==
    LET inner == IF a.k = "ref" THEN a.s[1] ELSE a
    IN  CASE IsSimplePath(inner) /\ inner.x \in c.strings -> <<ByteView(inner)>>
          [] inner.k = "field" /\ inner.x \in c.stringFields ->
                <<ByteView(Field(Rewritten(inner.s[1], c), inner.x))>>
          [] OTHER -> <<>>

(* lower_spec_arg *)
SpecArg(a, byteview, c) ==
    CASE c.spec /\ IsSimplePath(a) /\ a.x \in c.slices -> View(a)
      [] c.spec /\ byteview /\ ByteviewOperand(a, c) # <<>> /\ ~(IsSimplePath(a) /\ a.x \in c.slices) ->
            ByteviewOperand(a, c)[1]
      [] OTHER -> Rewritten(a, c)

(* lower_index_arg *)
IndexArgument(a, c) == Cast(Rewritten(a, c), "int")

(* spec_arg_is_nat_len *)
IsNatLen(a) == a.k = "method" /\ a.x = "len" /\ Len(a.s) = 1

Narrowed(lowered, a, t) == IF t = "" \/ IsCastTo(a, t) THEN lowered ELSE Cast(lowered, t)

(* The i-th argument of a call of f *)
CallArg(f, i, a, c) ==
    LET byteview == TakesByteview(f, c)
        plain == c.spec /\ f \notin DOMAIN Combinators /\ ~byteview
        lowered == SpecArg(a, byteview, c)
    IN  CASE c.spec /\ f \in DOMAIN Combinators /\ i \in Combinators[f] -> IndexArgument(a, c)
          [] c.spec /\ f \in {"count_sep", "sep_free"} /\ i = 2 ->
                IF a.k = "int" THEN lowered ELSE Narrowed(lowered, a, "u8")
          [] c.spec /\ f = "occurs_at" /\ i = 3 -> IndexArgument(a, c)
          [] c.spec /\ f = "bytes_eq" /\ i >= 3 -> IndexArgument(a, c)
          [] plain /\ (IsCompound(a) \/ IsNatLen(a)) -> Narrowed(lowered, a, ParamCast(f, i, c))
          [] OTHER -> lowered

(* The Call case of lower_expr *)
RewrittenCall(e, c) ==
    LET args == [i \in DOMAIN e.s |-> CallArg(e.x, i, e.s[i], c)]
        name == IF e.x \in GeneratedFreeFns \ c.userString THEN ReservedName(e.x) ELSE e.x
    IN  CASE c.spec /\ e.x = "final" -> Call("final", <<Rewritten(e.s[1], c)>>)
          [] ~c.spec /\ e.x = "parse_u64" /\ e.x \notin c.userString /\ Len(e.s) = 1
             /\ IsSimplePath(e.s[1]) /\ e.s[1].x \in c.owned -> Call(name, <<Ref(e.s[1])>>)
          [] OTHER -> Call(name, args)

(* An argument of an exec method that wants another integer type *)
Coerced(a, t, c) ==
    IF a.k = "int" \/ IsCastTo(a, t) THEN Rewritten(a, c) ELSE Cast(Rewritten(a, c), t)

ReceiverIsString(r, c) ==
    c.spec /\ ((IsSimplePath(r) /\ r.x \in c.strings) \/ (r.k = "field" /\ r.x \in c.stringFields))

(* The MethodCall case of lower_expr *)
RewrittenMethod(e, c) ==
    LET r == Rewritten(e.s[1], c)
        args == SubSeq(e.s, 2, Len(e.s))
        n == Len(args)
    IN  CASE ~c.spec /\ e.x = "to_string" /\ n = 0 -> Call(ReservedName("u64_to_string"), <<r>>)
          [] c.spec /\ e.x = "get" /\ n = 1 -> Method("spec_get", r, <<IndexArgument(args[1], c)>>)
          [] c.spec /\ e.x = "last" /\ n = 0 ->
                Method("spec_get", r, <<Cast(Binary("-", Method("len", r, <<>>), Lit(1)), "int")>>)
          [] c.spec /\ e.x = "contains_key" /\ n = 1 -> Method("spec_contains_key", r, <<Rewritten(args[1], c)>>)
          [] ReceiverIsString(e.s[1], c) /\ e.x = "len" /\ n = 0 -> Method("spec_len", r, <<>>)
          [] ReceiverIsString(e.s[1], c) /\ e.x = "byte_at" /\ n = 1 ->
                Method("spec_byte_at", r, <<IF args[1].k = "int" THEN Rewritten(args[1], c)
                                            ELSE IndexArgument(args[1], c)>>)
          [] ~c.spec /\ e.x \in {"byte_at", "slice"} ->
                Method(e.x, r, [i \in 1..n |-> Coerced(args[i], "usize", c)])
          [] ~c.spec /\ e.x = "split" -> Method(e.x, r, [i \in 1..n |-> Coerced(args[i], "u8", c)])
          [] OTHER -> Method(e.x, r, [i \in 1..n |-> Rewritten(args[i], c)])

(* lower_index; the forms are single, to, from and range *)
RewrittenIndex(e, c) ==
    LET b == Rewritten(e.s[1], c)
        at(i) == Rewritten(e.s[i], c)
        cut(lo, hi) == Method("subrange", View(b), <<lo, hi>>)
    IN  IF ~c.spec THEN [e EXCEPT !.s = [i \in DOMAIN e.s |-> at(i)]]
        ELSE CASE e.x = "single" -> Index(View(b), BareInt(at(2)))
               [] e.x = "to"     -> cut(Lit(0), BareInt(at(2)))
               [] e.x = "from"   -> cut(BareInt(at(2)), BareInt(Method("len", View(b), <<>>)))
               [] OTHER          -> cut(BareInt(at(2)), BareInt(at(3)))

IsNatCall(e, c) == e.k = "call" /\ e.x \in c.natFns

(* lower_nat_equality: of a scalar and a call that yields a nat, the scalar is widened *)
NatEquality(e, c) ==
    LET l == e.s[1]
        r == e.s[2]
    IN  CASE IsNatCall(r, c) /\ ~IsNatCall(l, c) /\ l.k = "path" ->
                <<Binary("==", Cast(Rewritten(l, c), "nat"), Rewritten(r, c))>>
          [] IsNatCall(l, c) /\ ~IsNatCall(r, c) /\ r.k = "path" ->
                <<Binary("==", Cast(Rewritten(r, c), "nat"), Rewritten(l, c))>>
          [] OTHER -> <<>>

RECURSIVE RewrittenPattern(_, _)
(* lower_pattern; a slice pattern is refused *)
RewrittenPattern(q, c) ==
    LET below == [i \in DOMAIN q.s |-> RewrittenPattern(q.s[i], c)]
        full  == QualifyVariant(q.x, c)
    IN  CASE q.k = "enum" /\ q.n = 1 ->
                [q EXCEPT !.x = full[1], !.n = Len(full),
                          !.s = [j \in 1..(Len(full) - 1) |-> Path(full[j + 1])] \o below]
          [] q.k \in {"or", "field"} -> [q EXCEPT !.s = below]
          [] OTHER -> q

(* Verus types of casts: inside a fold over nat every integer type is nat *)
CastType(t, c) == IF c.natRet /\ t # "bool" THEN "nat" ELSE t

(* lower_expr: what is written for a node *)
Rewritten(e, c) ==
    LET sub(i) == Rewritten(e.s[i], c)
        all == [i \in DOMAIN e.s |-> sub(i)]
    IN  CASE e.k = "path" /\ e.n >= 2 /\ e.x = "String" -> [e EXCEPT !.x = "TString"]
          [] e.k = "call"   -> RewrittenCall(e, c)
          [] e.k = "method" -> RewrittenMethod(e, c)
          [] e.k = "index"  -> RewrittenIndex(e, c)
          [] e.k = "binary" -> IF e.x = "==" /\ c.spec /\ NatEquality(e, c) # <<>> THEN NatEquality(e, c)[1]
                               ELSE Binary(e.x, sub(1), sub(2))
          [] e.k = "cast"   -> Cast(sub(1), CastType(e.x, c))
          [] e.k = "ref" /\ c.spec /\ e.s[1].k = "index" -> sub(1)
          [] e.k = "is"     -> IF c.spec THEN Is(sub(1), e.x)
                               ELSE Call("matches!", <<sub(1), VariantPath(e.x, c)>>)
          [] e.k = "quant"  -> Closure(e.s[1].x, Binary("||", Call("within", <<e.s[1], sub(2)>>), sub(3)))
          [] e.k = "closure" -> [e EXCEPT !.s[Len(e.s)] = sub(Len(e.s))]
          [] e.k = "arm"    -> [e EXCEPT !.s = [i \in DOMAIN e.s |->
                                    IF i = 1 THEN RewrittenPattern(e.s[1], c) ELSE sub(i)]]
          [] OTHER -> [e EXCEPT !.s = all]

(***************************************************************************)
(* The text.                                                               *)
(***************************************************************************)
(* precedence *)
Precedence(op) ==
    CASE op = "||" -> 1 [] op = "&&" -> 2 [] op \in Comparisons -> 3 [] op = "|" -> 4 [] op = "^" -> 5
      [] op = "&" -> 6 [] op \in Shifts -> 7 [] op \in {"+", "-"} -> 8 [] OTHER -> 9

(* is_lt_leading *)
IsLtLeading(op) == op \in {"<", "<=", "<<"}

(* The body of a quantifier: its bound, and the parenthesised rest *)
IsBounded(e) == e.k = "binary" /\ e.s[1].k = "call" /\ e.s[1].x = "within"

Parens(ts) == <<"(">> \o ts \o <<")">>
Numeral(n) == <<"0", "1", "2">>[n + 1]

RECURSIVE Emit(_)

(* Mutant: the right operand of an operator of the same strength is left bare. *)
BinaryOperandBare(e, op, isLeft) ==
    LET s == Emit(e)
    IN  IF e.k = "binary" /\ Precedence(e.x) < Precedence(op) THEN Parens(s) ELSE s

(* lower_binary_operand *)
BinaryOperand(e, op, isLeft) ==
    LET s == Emit(e)
        weak == e.k = "binary" /\ (Precedence(e.x) < Precedence(op)
                                   \/ (~isLeft /\ Precedence(e.x) = Precedence(op)))
    IN  IF weak \/ (isLeft /\ e.k = "cast" /\ IsLtLeading(op)) THEN Parens(s) ELSE s

RECURSIVE EmitList(_)
EmitList(es) ==
    IF es = <<>> THEN <<>>
    ELSE Emit(es[1]) \o (IF Len(es) = 1 THEN <<>> ELSE <<",">> \o EmitList(SubSeq(es, 2, Len(es))))

(* lower_block_inner, for a block that is its tail *)
EmitBlock(b) == <<"{">> \o Emit(TailOf(b)) \o <<"}">>

Emit(e) ==
    CASE e.k = "int"     -> <<Numeral(e.n)>>
      [] e.k = "bool"    -> <<IF e.n = 1 THEN "true" ELSE "false">>
      [] e.k = "path"    -> IF e.n = 1 THEN <<e.x>> ELSE <<e.x, "::", e.s[1].x>>
      [] e.k = "call"    -> <<e.x>> \o Parens(EmitList(e.s))
      [] e.k = "method"  -> Emit(e.s[1]) \o <<".", e.x>> \o Parens(EmitList(SubSeq(e.s, 2, Len(e.s))))
      [] e.k = "field"   -> Emit(e.s[1]) \o <<".", e.x>>
      [] e.k = "proj"    -> Emit(e.s[1]) \o <<".", Numeral(e.n)>>
      [] e.k = "closure" -> <<"|", e.s[1].x, "|">>
                            \o (IF IsBounded(e.s[2]) THEN Emit(e.s[2].s[1]) \o <<"||">> \o Parens(Emit(e.s[2].s[2]))
                                ELSE Emit(e.s[2]))
      [] e.k = "if"      -> <<"if">> \o Emit(e.s[1]) \o EmitBlock(e.s[2]) \o <<"else">> \o EmitBlock(e.s[3])
      [] e.k = "binary"  -> BinaryOperand(e.s[1], e.x, TRUE) \o <<e.x>> \o BinaryOperand(e.s[2], e.x, FALSE)
      [] e.k = "unary"   -> <<"!">> \o (IF e.s[1].k = "binary" THEN Parens(Emit(e.s[1])) ELSE Emit(e.s[1]))
      [] e.k = "index"   -> Emit(e.s[1]) \o <<"[">> \o Emit(e.s[2]) \o <<"]">>
      [] e.k = "bareint" -> Emit(e.s[1]) \o <<"as", "int">>
      [] e.k = "cast"    -> (IF IsCompound(e.s[1]) THEN Parens(Emit(e.s[1])) ELSE Emit(e.s[1])) \o <<"as", e.x>>
      [] e.k = "ref"     -> <<"&">> \o Emit(e.s[1])
      [] e.k = "deref"   -> <<"*">> \o Emit(e.s[1])
      [] e.k = "is"      -> Parens(Emit(e.s[1]) \o <<"is", e.x>>)
      [] e.k = "tuple"   -> Parens(EmitList(e.s))

LowerExpr(e, c) == Emit(Rewritten(e, c))

RECURSIVE Erased(_)
(* In a specification + - * are over the integers, so a cast to int changes nothing. *)
Erased(e) ==
    IF e.k = "bareint" \/ IsCastTo(e, "int") THEN Erased(e.s[1])
    ELSE [e EXCEPT !.s = [i \in DOMAIN e.s |-> Erased(e.s[i])]]

(* A tree that the text was read as says what was to be written for e. *)
StatesAsMeant(read, e, c) == Erased(read) = Erased(Rewritten(e, c))

(***************************************************************************)
(* The runnable form of a program (thermite-lower/src/l1.rs): functions    *)
(* with their contracts woven in as checks that run, and the expressions   *)
(* of code and contracts as Rust text.                                     *)
(*                                                                         *)
(* A function is [params, ret, req, ens, body]; params are pairs of a name *)
(* and a type, body is <<>> for a foreign function.  What is written is    *)
(* again a tree of statements; thermite_check!(kind, text, cond) is an if  *)
(* whose branch calls the handler, which does not return.  A struct is     *)
(* taken to have one field, named v, and is that field's value;            *)
(* structs maps its name to <<>> or to its invariant.                      *)
(***************************************************************************)

(***************************************************************************)
(* Expressions: what is written for a node, as in LowerExpr.               *)
(***************************************************************************)
RECURSIVE RunRewritten(_, _)

(* string_arg_count_l1: so many leading arguments are cloned *)
StringArgCount(f) ==
    CASE f \in {"all_digits", "parse_u64", "count_sep", "sep_free"} -> 1
      [] f \in {"contains_sub", "occurs_at", "bytes_eq"} -> 2
      [] OTHER -> 0

(* An argument of a call of f: cloned, borrowed, or as it is *)
RunCallArg(f, i, lowered) ==
    CASE i <= StringArgCount(f) -> Method("clone", lowered, <<>>)
      [] i > StringArgCount(f) /\ f \in {"parse_be", "parse_le"} /\ lowered.k # "ref" -> Ref(lowered)
      [] OTHER -> lowered

(* is_usize_cast_l1, and the same for u8 *)
RunCoerced(a, lowered, t) == IF a.k = "int" \/ IsCastTo(a, t) THEN lowered ELSE Cast(lowered, t)

(* The MethodCall case of lower_expr_exec *)
RunMethod(e, lowered) ==
    LET args == SubSeq(e.s, 2, Len(e.s))
    IN  CASE e.x = "to_string" /\ args = <<>> -> Call("u64_to_string", <<lowered[1]>>)
          [] e.x \in {"byte_at", "slice"} ->
                Method(e.x, lowered[1], [i \in DOMAIN args |-> RunCoerced(args[i], lowered[i + 1], "usize")])
          [] e.x = "split" -> Method(e.x, lowered[1], [i \in DOMAIN args |-> RunCoerced(args[i], lowered[i + 1], "u8")])
          [] OTHER -> [e EXCEPT !.s = lowered]

(* lower_expr_exec; a quantifier is refused (see RunRefused) *)
RunRewritten(e, variants) ==
    LET all == [i \in DOMAIN e.s |-> RunRewritten(e.s[i], variants)]
    IN  CASE e.k = "path" /\ e.n >= 2 /\ e.x = "String" -> [e EXCEPT !.x = "TString"]
          [] e.k = "call"   -> Call(e.x, [i \in DOMAIN e.s |-> RunCallArg(e.x, i, all[i])])
          [] e.k = "method" -> RunMethod(e, all)
          [] e.k = "is"     -> Call("matches!", <<all[1], VariantPath(e.x, [variants |-> variants])>>)
          [] e.k = "arm"    -> [e EXCEPT !.s = [i \in DOMAIN e.s |->
                                    IF i = 1 THEN RewrittenPattern(e.s[1], [variants |-> variants]) ELSE all[i]]]
          [] OTHER -> [e EXCEPT !.s = all]

RunsAsMeant(read, e, variants) == read = RunRewritten(e, variants)

RunRefused(e) == \E u \in Subtrees(e) : u.k \in {"quant", "slice"}

(* Mutant: a weaker operator on the left is left bare. *)
RunOperandBare(s, e, op, isLeft) ==
    IF e.k = "binary" /\ ~isLeft /\ Precedence(e.x) <= Precedence(op) THEN Parens(s) ELSE s
(* lower_binary_operand of l1.rs: parentheses for binary operands only *)
RunOperand(s, e, op, isLeft) ==
    IF e.k = "binary" /\ (Precedence(e.x) < Precedence(op) \/ (~isLeft /\ Precedence(e.x) = Precedence(op)))
    THEN Parens(s) ELSE s

RECURSIVE RunEmit(_)
RECURSIVE RunEmitList(_)
RunEmitList(es) ==
    IF es = <<>> THEN <<>>
    ELSE RunEmit(es[1]) \o (IF Len(es) = 1 THEN <<>> ELSE <<",">> \o RunEmitList(SubSeq(es, 2, Len(es))))

(* The text of lower_expr_exec, with lower_index_exec, lower_block_inner and lower_type *)
RunEmit(e) ==
    CASE e.k = "int"     -> <<Numeral(e.n)>>
      [] e.k = "bool"    -> <<IF e.n = 1 THEN "true" ELSE "false">>
      [] e.k = "path"    -> IF e.n = 1 THEN <<e.x>> ELSE <<e.x, "::", e.s[1].x>>
      [] e.k = "call"    -> <<e.x>> \o Parens(RunEmitList(e.s))
      [] e.k = "method"  -> RunEmit(e.s[1]) \o <<".", e.x>> \o Parens(RunEmitList(SubSeq(e.s, 2, Len(e.s))))
      [] e.k = "field"   -> RunEmit(e.s[1]) \o <<".", e.x>>
      [] e.k = "proj"    -> RunEmit(e.s[1]) \o <<".", Numeral(e.n)>>
      [] e.k = "closure" -> <<"|", e.s[1].x, "|">> \o RunEmit(e.s[2])
      [] e.k = "if"      -> <<"if">> \o RunEmit(e.s[1]) \o <<"{">> \o RunEmit(TailOf(e.s[2])) \o <<"}", "else", "{">>
                            \o RunEmit(TailOf(e.s[3])) \o <<"}">>
      [] e.k = "binary"  -> RunOperand(RunEmit(e.s[1]), e.s[1], e.x, TRUE) \o <<e.x>>
                            \o RunOperand(RunEmit(e.s[2]), e.s[2], e.x, FALSE)
      [] e.k = "unary"   -> <<"!">> \o (IF e.s[1].k = "binary" THEN Parens(RunEmit(e.s[1])) ELSE RunEmit(e.s[1]))
      [] e.k = "index"   -> RunEmit(e.s[1]) \o <<"[">> \o RunEmit(e.s[2]) \o <<"]">>
      [] e.k = "cast"    -> (IF IsCompound(e.s[1]) THEN Parens(RunEmit(e.s[1])) ELSE RunEmit(e.s[1])) \o <<"as", e.x>>
      [] e.k = "ref"     -> <<"&">> \o RunEmit(e.s[1])
      [] e.k = "deref"   -> <<"*">> \o RunEmit(e.s[1])
      [] e.k = "tuple"   -> Parens(RunEmitList(e.s))

LowerExprExec(e, variants) == RunEmit(RunRewritten(e, variants))

(***************************************************************************)
(* Reference: what Rust does not read as the tree it was written for.      *)
(***************************************************************************)
(* Parentheses are put around the operand e of op. *)
Weak(e, op, isLeft) ==
    e.k = "binary" /\ (Precedence(e.x) < Precedence(op) \/ (~isLeft /\ Precedence(e.x) = Precedence(op)))

RECURSIVE EndsInCast(_)
EndsInCast(e) ==
    \/ e.k = "cast"
    \/ e.k \in {"unary", "ref"} /\ e.s[1].k # "binary" /\ EndsInCast(e.s[1])
    \/ e.k = "binary" /\ ~Weak(e.s[2], e.x, FALSE) /\ EndsInCast(e.s[2])

(* The type of a cast stands before <, which Rust takes for type arguments (whole:   *)
(* also where the cast is all of the left operand), comparisons chain, or ! is taken *)
(* for a part of what is cast.                                                       *)
ReadOtherwise(t, whole) ==
    \E u \in Subtrees(t) :
        \/ /\ u.k = "binary" /\ IsLtLeading(u.x) /\ ~Weak(u.s[1], u.x, TRUE) /\ EndsInCast(u.s[1])
           /\ whole \/ u.s[1].k # "cast"
        \/ u.k = "binary" /\ u.x \in Comparisons /\ u.s[1].k = "binary" /\ u.s[1].x \in Comparisons
        \/ u.k = "unary" /\ u.s[1].k = "cast"

(***************************************************************************)
(* Checks.                                                                 *)
(***************************************************************************)
(* emit_check and the macro and handler of emit_check_macro *)
Check(cond) ==
    IfStmt(Not(cond), Block(<<Node("expr", "", 0, <<Call("thermite_contract_violation", <<>>)>>)>>, <<>>))

RECURSIVE Instead(_, _, _)
(* An expression with one name put for another *)
Instead(e, x, y) ==
    IF e.k = "path" /\ e.n = 1 /\ e.x = x THEN Path(y)
    ELSE [e EXCEPT !.s = [i \in DOMAIN e.s |-> Instead(e.s[i], x, y)]]

(* lower_struct_l1, lower_inv_expr_l1: x.well_formed() of the struct ty *)
IsInvStruct(ty, structs) == ty.k = "named" /\ ty.x \in DOMAIN structs /\ structs[ty.x] # <<>>
WellFormedCheck(x, ty, structs) ==
    IF IsInvStruct(ty, structs) THEN <<Check(Instead(structs[ty.x][1], "v", x))>> ELSE <<>>

RECURSIVE Joint(_)
Joint(ss) == IF ss = <<>> THEN <<>> ELSE ss[1] \o Joint(Tail(ss))

RECURSIVE RunBlock(_)
(* lower_loop_l1: the invariants are checked at the top of each iteration; no measure *)
RunLoop(l) ==
    LET body   == RunBlock(l.s[Len(l.s)])
        first  == IF l.k = "while" THEN 2 ELSE 1
        checks == [j \in 1..l.n |-> Check(l.s[first + j - 1])]
    IN  [l EXCEPT !.n = 0, !.s = SubSeq(l.s, 1, first - 1) \o <<l.s[Len(l.s) - 1], [body EXCEPT !.s = checks \o body.s]>>]
(* lower_stmt_l1 *)
RunStmt(t) ==
    CASE t.k \in {"loop", "while"} -> RunLoop(t)
      [] t.k = "ifstmt" -> [t EXCEPT !.s = [j \in DOMAIN t.s |-> IF j = 1 THEN t.s[1] ELSE RunBlock(t.s[j])]]
      [] OTHER -> t
(* lower_fn_body_l1, lower_block_inner *)
RunBlock(b) == [b EXCEPT !.s = [j \in DOMAIN b.s |-> IF j <= Len(b.s) - b.n THEN RunStmt(b.s[j]) ELSE b.s[j]]]

(***************************************************************************)
(* Parameters that the body may move are kept for the postconditions.      *)
(***************************************************************************)
(* type_is_non_copy_l1 *)
IsNonCopy(ty) == ty.k \in {"named", "string", "vec", "box"}
(* snapshot_name_l1 *)
SnapshotName(x) == x \o "__pre"

RECURSIVE ReferencesIdent(_, _)
(* expr_references_ident, block_references_ident: not the guards of arms, not the clauses of loops *)
ReferencesIdent(e, x) ==
    CASE e.k = "path"    -> e.n = 1 /\ e.x = x
      [] e.k = "closure" -> e.s[1].x # x /\ ReferencesIdent(e.s[2], x)
      [] e.k = "quant"   -> ReferencesIdent(e.s[2], x) \/ ReferencesIdent(e.s[3], x)
      [] e.k = "match"   -> ReferencesIdent(e.s[1], x)
                            \/ \E j \in 2..Len(e.s) : LET a == e.s[j] IN ReferencesIdent(a.s[Len(a.s)], x)
      [] e.k \in {"loop", "while", "let"} -> ReferencesIdent(e.s[Len(e.s)], x)
      [] OTHER -> \E j \in DOMAIN e.s : ReferencesIdent(e.s[j], x)

RECURSIVE RenameParams(_, _)
(* Mutant: the arguments of a method keep their names. *)
RenameReceiver(e, xs) ==
    IF e.k \in {"method", "if"} THEN [e EXCEPT !.s[1] = RenameParams(e.s[1], xs)]
    ELSE IF e.k = "path" /\ e.n = 1 THEN (IF e.x \in xs THEN Path(SnapshotName(e.x)) ELSE e)
    ELSE [e EXCEPT !.s = [i \in DOMAIN e.s |-> RenameParams(e.s[i], xs)]]
(* rename_params_in_expr: the branches of an if and the names a closure or a      *)
(* pattern binds stay as they are, what a closure binds is renamed within it      *)
RenameParams(e, xs) ==
    CASE e.k = "path"    -> IF e.n = 1 /\ e.x \in xs THEN Path(SnapshotName(e.x)) ELSE e
      [] e.k = "if"      -> [e EXCEPT !.s[1] = RenameParams(e.s[1], xs)]
      [] e.k = "closure" -> [e EXCEPT !.s[2] = RenameParams(e.s[2], xs)]
      [] e.k = "quant"   -> [e EXCEPT !.s[2] = RenameParams(e.s[2], xs), !.s[3] = RenameParams(e.s[3], xs)]
      [] e.k = "arm"     -> [e EXCEPT !.s = [i \in DOMAIN e.s |-> IF i = 1 THEN e.s[1] ELSE RenameParams(e.s[i], xs)]]
      [] OTHER           -> [e EXCEPT !.s = [i \in DOMAIN e.s |-> RenameParams(e.s[i], xs)]]

Snapshots(f) ==
    {f.params[j][1] : j \in {i \in DOMAIN f.params :
        IsNonCopy(f.params[i][2]) /\ \E k \in DOMAIN f.ens : ReferencesIdent(f.ens[k], f.params[i][1])}}

(* What lower_fn_l1 and lower_boundary_fn_l1 write before and after the body.  A foreign *)
(* function has neither snapshots nor checks of its structs.                             *)
EntryChecks(f, structs) ==
    (IF f.req = Truth(TRUE) THEN <<>> ELSE <<Check(f.req)>>)
    \o (IF f.body = <<>> THEN <<>>
        ELSE Joint([j \in DOMAIN f.params |-> WellFormedCheck(f.params[j][1], f.params[j][2], structs)])
             \o Joint([j \in DOMAIN f.params |->
                    IF f.params[j][1] \in Snapshots(f)
                    THEN <<Let(SnapshotName(f.params[j][1]), Path(f.params[j][1]))>> ELSE <<>>]))
ExitChecks(f, structs) ==
    [k \in DOMAIN f.ens |-> Check(IF f.body = <<>> THEN f.ens[k] ELSE RenameParams(f.ens[k], Snapshots(f)))]
    \o (IF f.body = <<>> THEN <<>> ELSE WellFormedCheck("result", f.ret, structs))

(***************************************************************************)
(* What the written function does.  The body stands in                     *)
(* let result = { .. }, so a return in it leaves the function at once.     *)
(***************************************************************************)
RunExit(f, structs, s, w, fuel) ==
    IF s.how # "next" THEN s
    ELSE LET after == ExecStmts(ExitChecks(f, structs), Running(With(s.env, "result", s.v[1])), w, fuel)
         IN  IF after.how = "next" THEN s ELSE after

(* foreign: what a foreign function returns *)
RunBodyOf(f, s, foreign, w, fuel) ==
    IF s.how # "next" THEN s
    ELSE IF f.body = <<>> THEN Ended(s, "next", <<foreign>>) ELSE Resumed(s, ExecBlock(RunBlock(f.body[1]), s.env, w, fuel))

RunFn(f, structs, args, foreign, w, fuel) ==
    RunExit(f, structs, RunBodyOf(f, ExecStmts(EntryChecks(f, structs), Running(args), w, fuel), foreign, w, fuel), w, fuel)

(***************************************************************************)
(* Reference.                                                              *)
(***************************************************************************)
IsTrue(e, env, mode, w) == Eval(e, env, mode, w) = Value(1)

(* The environments at the heads of the iterations of the loop a body has *)
HeadsOf(b, args, w, fuel) ==
    {s.env : s \in {t \in {ExecStmts(Stmts(b), Running(args), w, k) : k \in 0..fuel} : t.how = "endless"}}
LoopClauses(b) ==
    UNION {IF t.k \in {"loop", "while"} THEN {t.s[j] : j \in (IF t.k = "while" THEN 2 ELSE 1)..(Len(t.s) - 2)} ELSE {} :
           t \in {Stmts(b)[j] : j \in DOMAIN Stmts(b)}}
InvariantsHeld(b, args, w, fuel) ==
    \A env \in HeadsOf(b, args, w, fuel) : \A inv \in LoopClauses(b) : IsTrue(inv, env, "exec", w)

StructHolds(x, ty, env, structs, w) == IsInvStruct(ty, structs) => IsTrue(Instead(structs[ty.x][1], "v", x), env, "exec", w)
Granted(f, structs, args, w) ==
    /\ IsTrue(f.req, args, "exec", w)
    /\ f.body # <<>> => \A j \in DOMAIN f.params : StructHolds(f.params[j][1], f.params[j][2], args, structs, w)
Delivered(f, structs, args, v, w) ==
    LET env == With(args, "result", v)
    IN  (\A k \in DOMAIN f.ens : IsTrue(f.ens[k], env, "exec", w)) /\ (f.body # <<>> => StructHolds("result", f.ret, env, structs, w))

(* run is a call of the written function.  If it comes back it was allowed, returns   *)
(* what the source returns, and held its promises unless it left by return; a call that  *)
(* keeps its contract is not stopped.                                                    *)
ContractEnforced(f, structs, args, foreign, run, w, fuel) ==
    LET src == IF f.body = <<>> THEN Ended(Running(args), "next", <<foreign>>) ELSE ExecBlock(f.body[1], args, w, fuel)
        held == f.body = <<>> \/ InvariantsHeld(f.body[1], args, w, fuel)
    IN  /\ run.how \in {"next", "return"} =>
              /\ src.how = run.how /\ src.v = run.v /\ Granted(f, structs, args, w) /\ held
              /\ run.how = "next" => /\ Delivered(f, structs, args, run.v[1], w)
                                     /\ \A k \in DOMAIN f.ens : IsTrue(f.ens[k], With(args, "result", run.v[1]), "spec", w)
        /\ src.how \in {"next", "return"} /\ Granted(f, structs, args, w) /\ held
           /\ (src.how = "return" \/ Delivered(f, structs, args, src.v[1], w)) => run.how = src.how

RECURSIVE Free(_)
RECURSIVE Binds(_)
Binds(q) == (IF q.k = "bind" THEN {q.x} ELSE {}) \cup UNION {Binds(q.s[j]) : j \in DOMAIN q.s}
(* The names an expression reads *)
Free(e) ==
    CASE e.k = "path" -> {e.x}
      [] e.k = "closure" -> Free(e.s[2]) \ {e.s[1].x}
      [] e.k = "quant"   -> Free(e.s[2]) \cup (Free(e.s[3]) \ {e.s[1].x})
      [] e.k = "arm"     -> (UNION {Free(e.s[j]) : j \in 2..Len(e.s)}) \ Binds(e.s[1])
      [] OTHER -> UNION {Free(e.s[j]) : j \in DOMAIN e.s}

(* Something within e binds the name x as well. *)
Rebinds(e, x) ==
    \E u \in Subtrees(e) : \/ u.k = "arm" /\ x \in Binds(u.s[1])
                           \/ u.k \in {"closure", "quant"} /\ u.s[1].x = x

(* x is read in a branch of an if, or in the guard of an arm. *)
BranchReads(e, x) == \E u \in Subtrees(e) : u.k = "if" /\ x \in Free(u.s[2]) \cup Free(u.s[3])
GuardReads(e, x)  == \E u \in Subtrees(e) : u.k = "arm" /\ Len(u.s) = 3 /\ x \in Free(u.s[2])

(* A parameter that is moved is still read by a postcondition exactly if a branch of *)
(* an if reads it, and its snapshot is read instead elsewhere.                        *)
SnapshotRead(e, x, renamed) ==
    ~Rebinds(e, x) =>
        IF BranchReads(e, x) THEN x \in Free(renamed)
        ELSE Free(renamed) = {IF y = x THEN SnapshotName(x) ELSE y : y \in Free(e)}

(***************************************************************************)
(* The sub-program that isolates the verification of one item              *)
(* (forge/src/check.rs, item_subprogram and the collectors of what an item *)
(* needs): an item is sent to Verus with the specification functions, the  *)
(* functions and the data types that it needs, and with nothing else.      *)
(*                                                                         *)
(* A program is a function from names to items                             *)
(*   [kind, types, req, ens, dec, body, inv, variants]:                    *)
(* kind "fn", "spec", "struct", "enum" or "forge", the types of its        *)
(* signature or of its fields, its clauses as sequences of trees, and the  *)
(* variants of an enum.  A path is known by the segment that names         *)
(* something of the file.                                                  *)
(***************************************************************************)

OfKind(p, kinds) == {n \in DOMAIN p : p[n].kind \in kinds}
Specs(p) == OfKind(p, {"spec"})
Adts(p)  == OfKind(p, {"struct", "enum"})

RECURSIVE Reached(_, _)
(* What is reached from a set along a function from names to sets of names. *)
Reached(set, next) ==
    LET more == set \cup UNION {next[n] : n \in set \cap DOMAIN next}
    IN  IF more = set THEN set ELSE Reached(more, next)

(***************************************************************************)
(* The specification functions that are called in a tree.                  *)
(***************************************************************************)
RECURSIVE ExprSpecCalls(_, _)
RECURSIVE StmtSpecCalls(_, _)
RECURSIVE BlockSpecCalls(_, _)

(* collect_block_spec_fn_calls *)
BlockSpecCalls(b, specs) ==
    UNION ({StmtSpecCalls(Stmts(b)[i], specs) : i \in 1..Len(Stmts(b))}
           \cup IF HasTail(b) THEN {ExprSpecCalls(TailOf(b), specs)} ELSE {})

(* collect_stmt_spec_fn_calls: the type of a let is skipped. *)
StmtSpecCalls(st, specs) ==
    LET from == IF st.k = "let" THEN {Len(st.s)} ELSE DOMAIN st.s
    IN  UNION {IF st.s[i].k = "block" THEN BlockSpecCalls(st.s[i], specs)
               ELSE ExprSpecCalls(st.s[i], specs) : i \in from}

(* collect_expr_spec_fn_calls: a callee or a method by its name; the pattern  *)
(* of an arm is not walked.                                                   *)
ExprSpecCalls(e, specs) ==
    (IF e.k \in {"call", "method"} THEN {e.x} \cap specs ELSE {})
    \cup UNION {IF e.s[i].k = "block" THEN BlockSpecCalls(e.s[i], specs)
                ELSE ExprSpecCalls(e.s[i], specs) : i \in DOMAIN e.s \ IF e.k = "arm" THEN {1} ELSE {}}

ClauseSpecCalls(cs, specs) == UNION {ExprSpecCalls(cs[i], specs) : i \in DOMAIN cs}
BodySpecCalls(bs, specs)   == UNION {BlockSpecCalls(bs[i], specs) : i \in DOMAIN bs}

(* Mutant: the measures of the specification functions are not followed. *)
SpecNamesFromSeedBodies(p, seed) ==
    Reached(seed, [n \in Specs(p) |-> BodySpecCalls(p[n].body, Specs(p))]) \cap Specs(p)

(* reachable_spec_fn_names_from_seed: bodies and measures are followed. *)
SpecNamesFromSeed(p, seed) ==
    Reached(seed, [n \in Specs(p) |-> BodySpecCalls(p[n].body, Specs(p))
                                        \cup ClauseSpecCalls(p[n].dec, Specs(p))]) \cap Specs(p)

(* reachable_spec_fn_deps *)
SpecFnDeps(p, n) == SpecNamesFromSeed(p, {n})

(* reachable_spec_fn_names_full: what the contract of a function rests on. *)
SpecNamesFull(p, f) ==
    SpecNamesFromSeed(p, ClauseSpecCalls(f.req, Specs(p)) \cup ClauseSpecCalls(f.ens, Specs(p))
                           \cup BodySpecCalls(f.body, Specs(p)) \cup ClauseSpecCalls(f.dec, Specs(p)))

(* reachable_spec_fn_names_full_lemma *)
SpecNamesLemma(p, l) ==
    SpecNamesFromSeed(p, ClauseSpecCalls(l.req, Specs(p)) \cup ClauseSpecCalls(l.ens, Specs(p)))

(* reachable_spec_fn_names_full_spec *)
SpecNamesSpec(p, s) ==
    SpecNamesFromSeed(p, BodySpecCalls(s.body, Specs(p)) \cup ClauseSpecCalls(s.dec, Specs(p)))

(* mint_item_obligations: the contract, and the termination of every         *)
(* specification function it rests on; data types and forge items rest on    *)
(* none.                                                                     *)
Obligations(p, n) ==
    LET called == CASE p[n].kind = "fn" -> SpecNamesFull(p, p[n])
                    [] p[n].kind = "spec" -> SpecNamesSpec(p, p[n])
                    [] OTHER -> {}
    IN  [contract |-> called, termination |-> called]

(***************************************************************************)
(* The data types that are named.                                          *)
(***************************************************************************)

(* resolve_variant_owner *)
VariantOwner(p, name) == {n \in Adts(p) : name \in p[n].variants}

(* note_path *)
Noted(p, name) == IF name \in Adts(p) THEN {name} ELSE VariantOwner(p, name)

RECURSIVE TypeAdts(_, _)
(* collect_type_adt_refs *)
TypeAdts(p, t) ==
    (IF t.k = "named" THEN {t.x} \cap Adts(p) ELSE {})
    \cup UNION {TypeAdts(p, t.s[i]) : i \in DOMAIN t.s}

RECURSIVE ExprAdts(_, _)
RECURSIVE StmtAdts(_, _)
RECURSIVE BlockAdts(_, _)
RECURSIVE PatternAdts(_, _)

(* collect_pattern_adt_refs *)
PatternAdts(p, pat) ==
    CASE pat.k \in {"enum", "structpat"} ->
             Noted(p, pat.x) \cup UNION {PatternAdts(p, pat.s[i]) : i \in DOMAIN pat.s}
      [] pat.k \in {"slice", "or"} -> UNION {PatternAdts(p, pat.s[i]) : i \in DOMAIN pat.s}
      [] pat.k = "lit" -> ExprAdts(p, pat.s[1])
      [] OTHER -> {}

(* collect_block_adt_refs *)
BlockAdts(p, b) ==
    UNION ({StmtAdts(p, Stmts(b)[i]) : i \in 1..Len(Stmts(b))}
           \cup IF HasTail(b) THEN {ExprAdts(p, TailOf(b))} ELSE {})

(* collect_stmt_adt_refs: also the type of a let, which is its first child. *)
StmtAdts(p, st) ==
    UNION {IF st.s[i].k = "block" THEN BlockAdts(p, st.s[i])
           ELSE IF st.s[i].k \in TypeKinds THEN TypeAdts(p, st.s[i])
           ELSE ExprAdts(p, st.s[i]) : i \in DOMAIN st.s}

(* collect_expr_adt_refs: a callee is a path; the type of a cast is its name. *)
ExprAdts(p, e) ==
    (CASE e.k \in {"struct", "is", "path", "call"} -> Noted(p, e.x)
       [] e.k = "cast" -> {e.x} \cap Adts(p)
       [] OTHER -> {})
    \cup UNION {IF e.s[i].k = "block" THEN BlockAdts(p, e.s[i])
                ELSE IF e.k = "arm" /\ i = 1 THEN PatternAdts(p, e.s[i])
                ELSE ExprAdts(p, e.s[i]) : i \in DOMAIN e.s}

TypesAdts(p, ts) == UNION {TypeAdts(p, ts[i]) : i \in DOMAIN ts}
ClauseAdts(p, cs) == UNION {ExprAdts(p, cs[i]) : i \in DOMAIN cs}
BodyAdts(p, bs)   == UNION {BlockAdts(p, bs[i]) : i \in DOMAIN bs}

(* collect_item_adt_refs: of a function all but its measure; a data type and a *)
(* forge item refer to nothing here.                                           *)
ItemAdts(p, n) ==
    LET i == p[n]
    IN  CASE i.kind = "fn" -> TypesAdts(p, i.types) \cup ClauseAdts(p, i.req)
                                \cup ClauseAdts(p, i.ens) \cup BodyAdts(p, i.body)
          [] i.kind = "spec" -> TypesAdts(p, i.types) \cup ClauseAdts(p, i.dec) \cup BodyAdts(p, i.body)
          [] OTHER -> {}

(* collect_decl_field_adt_refs *)
FieldAdts(p, n) == TypesAdts(p, p[n].types)

(* reachable_adt_deps: from what the referrers name, along the types of fields. *)
AdtDeps(p, referrers) ==
    Reached(UNION {ItemAdts(p, n) : n \in referrers}, [n \in Adts(p) |-> FieldAdts(p, n)])

(***************************************************************************)
(* The sub-program.                                                        *)
(***************************************************************************)

(* reachable_fn_deps: the functions called from the body, by name or method. *)
FnDeps(p, n) ==
    LET fns == OfKind(p, {"fn"})
        called == [m \in fns \cup Specs(p) |->
                      BodySpecCalls(p[m].body, fns \cup Specs(p))]
    IN  (Reached({n}, called) \cap fns) \ {n}

(* The specification functions and the referrers that the check loop chooses. *)
ItemSpecs(p, n) == IF p[n].kind = "spec" THEN SpecFnDeps(p, n) ELSE Specs(p)
Referrers(p, n) == IF p[n].kind = "spec" THEN ItemSpecs(p, n)
                   ELSE {n} \cup FnDeps(p, n) \cup ItemSpecs(p, n)

(* item_subprogram, as the set of the items it holds *)
ItemSubprogram(p, n) ==
    LET adts == AdtDeps(p, Referrers(p, n))
    IN  CASE p[n].kind = "fn"   -> adts \cup ItemSpecs(p, n) \cup FnDeps(p, n) \cup {n}
          [] p[n].kind = "spec" -> adts \cup ItemSpecs(p, n)
          [] OTHER              -> adts \cup ItemSpecs(p, n) \cup {n}

(***************************************************************************)
(* Mutual recursion.                                                       *)
(***************************************************************************)

(* Mutant: a member is looked at on its own. *)
MutualMissingDecOwn(p) ==
    {f \in OfKind(p, {"fn"}) :
        /\ ~p[f].diverge /\ p[f].dec = <<>>
        /\ \E g \in FnDeps(p, f) : f \in FnDeps(p, g)}

(* mutual_recursion_cycle_fns: the functions of a cycle that has a member     *)
(* without a measure; fx diverge excuses a member and its measure.            *)
MutualMissingDec(p) ==
    {f \in OfKind(p, {"fn"}) :
        LET scc == {g \in FnDeps(p, f) : f \in FnDeps(p, g)}
        IN  /\ ~p[f].diverge /\ scc # {}
            /\ \E m \in scc \cup {f} : ~p[m].diverge /\ p[m].dec = <<>>}

(***************************************************************************)
(* What a sub-program must hold: whatever is named anywhere in its items.  *)
(***************************************************************************)
AllParts(i) == i.types \o i.req \o i.ens \o i.dec \o i.body \o i.inv

(* ... and without the parts that no collector of data types looks at. *)
FollowedParts(i) == i.types \o i.req \o i.ens \o i.body \o IF i.kind = "spec" THEN i.dec ELSE <<>>

Mentioned(p, parts) ==
    LET nodes == UNION {Subtrees(parts[j]) : j \in DOMAIN parts}
        names(ks) == {t.x : t \in {u \in nodes : u.k \in ks}}
    IN  (names({"call", "method"}) \cap OfKind(p, {"fn", "spec"}))
          \cup (names({"named", "cast"}) \cap Adts(p))
          \cup UNION {Noted(p, x) : x \in names({"struct", "is", "path", "call", "enum", "structpat"})}
====
