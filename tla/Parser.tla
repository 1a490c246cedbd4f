---------------------------------- MODULE Parser ----------------------------------
(***************************************************************************)
(* The recursive-descent parser of the surface language                    *)
(* (thermite-syntax/src/parser.rs, desugar.rs).                            *)
(*                                                                         *)
(* A token is a string: Reserved are the keywords and the punctuation,     *)
(* Ints, Bools, Strs and the two kinds of hole are sets of tokens, any     *)
(* other string is an identifier.  A parse function takes a context c and  *)
(* a position i and returns [ok, v, i]: what it parsed and the next        *)
(* position, or why it failed and where.  The context holds the tokens and *)
(* the flags of the parser, which every function restores on the way out.  *)
(***************************************************************************)
EXTENDS Surface, TLC

CONSTANTS MaxRecursionDepth,
          Bv                  \* the crate was built with the feature bv

Ints  == {"0", "1", "2"}
Bools == {"true", "false"}
Strs  == {"'s'"}
BodyHoles  == {"?1"}
ProofHoles == {"?p1"}
Reserved ==
    {"fn", "spec", "req", "ens", "fx", "pure", "dec", "inv", "let", "mut", "return", "loop", "while",
     "break", "continue", "if", "else", "match", "as", "is", "struct", "enum", "forall", "exists",
     "#[", "(", ")", "{", "}", "[", "]", ",", ";", ":", "::", ".", "..", "->", "=>", "=", "|", "!",
     "@", "#", "eof"} \cup BinOps
IsIdent(t) == t \notin Reserved \cup Ints \cup Bools \cup Strs \cup BodyHoles \cup ProofHoles
IntValue(t) == CASE t = "0" -> 0 [] t = "1" -> 1 [] t = "2" -> 2

Context(ts) == [ts |-> Append(ts, "eof"), noStruct |-> FALSE, noDot |-> FALSE, depth |-> 0,
                loops |-> 0, body |-> FALSE]

Got(v, i)    == [ok |-> TRUE, v |-> v, i |-> i]
Fails(why, i) == [ok |-> FALSE, v |-> why, i |-> i]

(* peek and peek_nth stay at the end of the input. *)
Peek(c, i)   == c.ts[IF i > Len(c.ts) THEN Len(c.ts) ELSE i]
Bump(c, i)   == IF i < Len(c.ts) THEN i + 1 ELSE i
AtEof(c, i)  == Peek(c, i) = "eof"

(* unexpected *)
Unexpected(c, i) == Fails(IF AtEof(c, i) THEN "UnexpectedEof" ELSE "Unexpected", i)

Then(r, next(_)) == IF r.ok THEN next(r) ELSE r

(* consume *)
Consume(c, i, t) == IF Peek(c, i) = t THEN Got(t, Bump(c, i)) ELSE Unexpected(c, i)

(* take_ident *)
TakeIdent(c, i) == IF IsIdent(Peek(c, i)) THEN Got(Peek(c, i), Bump(c, i)) ELSE Unexpected(c, i)
TakeString(c, i) == IF Peek(c, i) \in Strs THEN Got(Peek(c, i), Bump(c, i)) ELSE Unexpected(c, i)

(* A run of consume and take_ident: the tokens of a pattern in which Name stands *)
(* for an identifier, or the first place where they differ.                      *)
Name == "an identifier"
Match(c, i, pattern) ==
    LET fits(k) == IF pattern[k] = Name THEN IsIdent(Peek(c, i + k - 1)) ELSE Peek(c, i + k - 1) = pattern[k]
        bad == {k \in DOMAIN pattern : ~fits(k)}
    IN  IF bad = {} THEN Got([k \in DOMAIN pattern |-> Peek(c, i + k - 1)], i + Len(pattern))
        ELSE Unexpected(c, i - 1 + CHOOSE k \in bad : \A j \in bad : k <= j)

(* What r read, followed by the token t *)
Closing(c, r, t) == Then(r, LAMBDA e : IF Peek(c, e.i) = t THEN Got(e.v, Bump(c, e.i)) ELSE Unexpected(c, e.i))

(* with_no_struct_literal, with_struct_literal, with_no_dot *)
NoStructLiteral(c) == [c EXCEPT !.noStruct = TRUE]
(* Mutant: a dot that would end the enclosing domain is still refused. *)
StructLiteralDotless(c) == [c EXCEPT !.noStruct = FALSE]
StructLiteral(c)   == [c EXCEPT !.noStruct = FALSE, !.noDot = FALSE]
NoDot(c)           == [c EXCEPT !.noDot = TRUE]

(* guard_recursion *)
TooDeep(c)  == c.depth >= MaxRecursionDepth
Deeper(c)   == [c EXCEPT !.depth = @ + 1]

(* The parse functions that call one another, told apart by what they parse. *)
RECURSIVE Parse(_, _, _)
ParseExpr(c, i)    == Parse("expr", c, i)
ParseType(c, i)    == Parse("type", c, i)
ParsePattern(c, i) == Parse("pattern", c, i)
ParseBlock(c, i)   == Parse("block", c, i)

RECURSIVE ParseLevel(_, _, _)
RECURSIVE Listed(_, _, _, _, _)

(* A field name and what follows the colon. *)
Labelled(c, i, kind, value(_, _)) ==
    Then(Match(c, i, <<Name, ":">>), LAMBDA n :
        Then(value(c, n.i), LAMBDA v : Got(Node(kind, n.v[1], 0, <<v.v>>), v.i)))

(* parse_field_defs, one field *)
FieldDef(c, i) == Labelled(c, i, "fielddef", ParseType)

(* parse_struct_lit, one field *)
FieldInit(c, i) == Labelled(c, i, "init", ParseExpr)

(* parse_params_inner, one parameter of a function: it may carry a refinement. *)
ParamDef(c, i) ==
    Then(Labelled(c, i, "param", ParseType), LAMBDA p :
        IF Peek(c, p.i) # "{" THEN p
        ELSE Then(Closing(c, ParseExpr(NoStructLiteral(c), p.i + 1), "}"), LAMBDA e :
                Got([p.v EXCEPT !.s = Append(@, e.v)], e.i)))

(* parse_enum, one variant *)
VariantDef(c, i) ==
    Then(TakeIdent(c, i), LAMBDA n :
        IF Peek(c, n.i) \notin {"(", "{"} THEN Got(Node("variant", n.v, 0, <<>>), n.i)
        ELSE Then(IF Peek(c, n.i) = "(" THEN Listed(c, n.i + 1, ")", "type", <<>>)
                  ELSE Listed(c, n.i + 1, "}", "fielddef", <<>>),
                  LAMBDA l : Got(Node("variant", n.v, Len(l.v), l.v), l.i)))

(* parse_struct_pattern, one field; a field without a pattern binds its name. *)
FieldPattern(c, i) ==
    Then(TakeIdent(c, i), LAMBDA n :
        IF Peek(c, n.i) # ":" THEN Got(Node("field", n.v, 0, <<Node("bind", n.v, 0, <<>>)>>), n.i)
        ELSE Then(ParsePattern(c, n.i + 1), LAMBDA q : Got(Node("field", n.v, 0, <<q.v>>), q.i)))

(* parse_slice_pattern, one element *)
SliceElement(c, i) ==
    IF Peek(c, i) = ".." THEN Then(TakeIdent(c, i + 1), LAMBDA n : Got(Node("rest", n.v, 0, <<>>), n.i))
    ELSE ParsePattern(c, i)

(* Elements with commas between them, and one at the end if the form allows it, *)
(* up to the token that closes the list; `..' ends the fields of a pattern.     *)
Listed(c, i, close, what, acc) ==
    IF Peek(c, i) = close /\ (acc = <<>> \/ what # "pattern") THEN Got(acc, i + 1)
    ELSE IF what = "fieldpat" /\ Peek(c, i) = ".."
    THEN Then(Consume(c, i + 1, close), LAMBDA k : Got(Append(acc, Node("..", "", 0, <<>>)), k.i))
    ELSE Then(Parse(what, c, i), LAMBDA e :
            IF Peek(c, e.i) = "," THEN Listed(c, e.i + 1, close, what, Append(acc, e.v))
            ELSE Then(Consume(c, e.i, close), LAMBDA k : Got(Append(acc, e.v), k.i)))

RECURSIVE Segments(_, _, _)
(* Further segments of a path. *)
Segments(c, i, acc) ==
    IF Peek(c, i) # "::" THEN Got(acc, i)
    ELSE Then(TakeIdent(c, i + 1), LAMBDA n : Segments(c, n.i, Append(acc, Path(n.v))))

(***************************************************************************)
(* Types and patterns.                                                     *)
(***************************************************************************)
Prims == {"u8", "u16", "u32", "u64", "usize", "bool"}

(* The arguments between < and >. *)
TypeArguments(c, i, kind, name, count) ==
    Then(Consume(c, i, "<"), LAMBDA o :
        IF count = 1
        THEN Then(Closing(c, ParseType(c, o.i), ">"), LAMBDA a : Got(Node(kind, name, 0, <<a.v>>), a.i))
        ELSE Then(Closing(c, ParseType(c, o.i), ","), LAMBDA a : Then(Closing(c, ParseType(c, a.i), ">"), LAMBDA b :
                Got(Node(kind, name, 0, <<a.v, b.v>>), b.i))))

RECURSIVE TupleRest(_, _, _, _)
(* After a first element: `)' closes a grouping, a comma makes a tuple. *)
TupleRest(c, i, what, acc) ==
    IF Peek(c, i) # "," THEN Then(Consume(c, i, ")"), LAMBDA k : Got(acc, k.i))
    ELSE IF Peek(c, i + 1) = ")" THEN Got(acc, i + 2)
    ELSE Then(Parse(what, c, i + 1), LAMBDA e : TupleRest(c, e.i, what, Append(acc, e.v)))

(* parse_type_inner *)
TypeInner(c, i) ==
    LET t == Peek(c, i)
    IN  CASE t = "(" ->
              IF Peek(c, i + 1) = ")" THEN Got(Node("unit", "", 0, <<>>), i + 2)
              ELSE Then(ParseType(c, i + 1), LAMBDA f : Then(TupleRest(c, f.i, "type", <<f.v>>), LAMBDA r :
                      Got(IF Peek(c, f.i) = "," THEN Node("tuplety", "", 0, r.v) ELSE f.v, r.i)))
          [] t = "&" ->
              LET m == IF Peek(c, i + 1) = "mut" THEN 1 ELSE 0
                  j == i + 1 + m
              IN  IF Peek(c, j) = "["
                  THEN Then(Closing(c, ParseType(c, j + 1), "]"), LAMBDA a :
                          Got(Node("refty", "", m, <<Node("slicety", "", 0, <<a.v>>)>>), a.i))
                  ELSE Then(ParseType(c, j), LAMBDA a : Got(Node("refty", "", m, <<a.v>>), a.i))
          [] t \in Prims -> Got(Node("prim", t, 0, <<>>), i + 1)
          [] t = "String" -> Got(Node("string", "", 0, <<>>), i + 1)
          [] t = "Box" -> TypeArguments(c, i + 1, "box", "", 1)
          [] t = "Vec" -> TypeArguments(c, i + 1, "vec", "", 1)
          [] t = "Option" -> TypeArguments(c, i + 1, "option", "", 1)
          [] t = "Result" -> TypeArguments(c, i + 1, "result", "", 2)
          [] t = "Map" -> TypeArguments(c, i + 1, "map", "", 2)
          [] IsIdent(t) /\ t \notin Prims \cup {"String", "Box", "Vec", "Option", "Result", "Map"} ->
              IF Peek(c, i + 1) = "<" THEN TypeArguments(c, i + 1, "generic", t, 1)
              ELSE Got(Node("named", t, 0, <<>>), i + 1)
          [] OTHER -> Unexpected(c, i)

(* parse_type *)
TypeAt(c, i) == IF TooDeep(c) THEN Fails("ExpressionTooDeep", i) ELSE TypeInner(Deeper(c), i)

UpperCase == {"V", "W", "Some", "None", "S", "T"}

(* parse_path_pattern: a single lower-case name is a binding. *)
PathPattern(c, i) ==
    Then(Segments(c, i + 1, <<>>), LAMBDA g :
        LET name == Peek(c, i)
            n    == 1 + Len(g.v)
        IN  CASE Peek(c, g.i) = "(" -> Then(Listed(c, g.i + 1, ")", "pattern", <<>>), LAMBDA l :
                     Got(Node("enum", name, n, g.v \o l.v), l.i))
              [] Peek(c, g.i) = "{" -> Then(Listed(c, g.i + 1, "}", "fieldpat", <<>>), LAMBDA l :
                     Got(Node("structpat", name, n, g.v \o l.v), l.i))
              [] OTHER -> Got(Node(IF n = 1 /\ name \notin UpperCase THEN "bind" ELSE "enum",
                                   name, IF n = 1 /\ name \notin UpperCase THEN 0 ELSE n, g.v), g.i))

(* parse_pattern_inner *)
PatternInner(c, i) ==
    LET t == Peek(c, i)
    IN  CASE t = "_"       -> Got(Node("wild", "", 0, <<>>), i + 1)
          [] t \in Ints    -> Got(Node("lit", "", 0, <<Lit(IntValue(t))>>), i + 1)
          [] t \in Bools   -> Got(Node("lit", "", 0, <<Truth(t = "true")>>), i + 1)
          [] t = "["       -> Then(Listed(c, i + 1, "]", "slicepat", <<>>), LAMBDA l :
                                  Got(Node("slice", "", 0, l.v), l.i))
          [] t # "_" /\ IsIdent(t) -> PathPattern(c, i)
          [] OTHER         -> Unexpected(c, i)

GuardedPattern(c, i) ==
    IF TooDeep(c) THEN Fails("ExpressionTooDeep", i) ELSE PatternInner(Deeper(c), i)

RECURSIVE Alternatives(_, _, _)
Alternatives(c, i, acc) ==
    IF Peek(c, i) # "|" THEN Got(acc, i)
    ELSE Then(GuardedPattern(c, i + 1), LAMBDA q : Alternatives(c, q.i, Append(acc, q.v)))

(* parse_pattern *)
PatternAt(c, i) ==
    Then(GuardedPattern(c, i), LAMBDA q : Then(Alternatives(c, q.i, <<q.v>>), LAMBDA r :
        Got(IF Len(r.v) = 1 THEN q.v ELSE Node("or", "", 0, r.v), r.i)))

(***************************************************************************)
(* Expressions.  The levels of the ladder, from parse_or to parse_primary: *)
(* 3 is a comparison, which does not chain, 4 is `is'.                     *)
(***************************************************************************)
Levels == <<{"||"}, {"&&"}, Comparisons, {"is"}, {"|"}, {"^"}, {"&"}, Shifts, {"+", "-"},
            {"*", "/", "%"}>>

(* parse_expr *)
ExprAt(c, i) == IF TooDeep(c) THEN Fails("ExpressionTooDeep", i) ELSE ParseLevel(Deeper(c), i, 1)

RECURSIVE LeftAssociated(_, _, _, _)
(* parse_or, parse_and, parse_bitor .. parse_mul after their left operand *)
LeftAssociated(c, i, n, lhs) ==
    IF Peek(c, i) \notin Levels[n] THEN Got(lhs, i)
    ELSE Then(ParseLevel(c, i + 1, n + 1), LAMBDA r :
            LeftAssociated(c, r.i, n, Binary(Peek(c, i), lhs, r.v)))

(* parse_cmp *)
Comparison(c, i, lhs) ==
    IF Peek(c, i) \notin Levels[3] THEN Got(lhs, i)
    ELSE Then(ParseLevel(c, i + 1, 4), LAMBDA r : Got(Binary(Peek(c, i), lhs, r.v), r.i))

(* parse_is *)
IsVariant(c, i, lhs) ==
    IF Peek(c, i) # "is" THEN Got(lhs, i)
    ELSE Then(TakeIdent(c, i + 1), LAMBDA n : Then(Segments(c, n.i, <<>>), LAMBDA g :
            Got(Node("is", n.v, Len(g.v), <<lhs>> \o g.v), g.i)))

RECURSIVE Casts(_, _, _)
(* parse_cast *)
Casts(c, i, e) ==
    IF Peek(c, i) # "as" THEN Got(e, i)
    ELSE Then(ParseType(c, i + 1), LAMBDA t : Casts(c, t.i, Node("cast", t.v.x, 0, <<e>>)))

RECURSIVE ParseRef(_, _)
RECURSIVE ParseUnary(_, _)
RECURSIVE PostfixRest(_, _, _)

(* parse_call_args *)
CallArgs(c, i) == Listed(c, i + 1, ")", "element", <<>>)

(* parse_index_arg_inner *)
IndexArg(c0, i, base) ==
    LET c == StructLiteral(c0)
        made(form, parts, j) == Then(Consume(c, j, "]"), LAMBDA k :
                                    Got(Node("index", form, 0, <<base>> \o parts), k.i))
    IN  IF Peek(c, i) = ".." THEN Then(ParseExpr(c, i + 1), LAMBDA h : made("to", <<h.v>>, h.i))
        ELSE Then(ParseExpr(c, i), LAMBDA l :
                IF Peek(c, l.i) # ".." THEN made("single", <<l.v>>, l.i)
                ELSE IF Peek(c, l.i + 1) = "]" THEN made("from", <<l.v>>, l.i + 1)
                ELSE Then(ParseExpr(c, l.i + 1), LAMBDA h : made("range", <<l.v, h.v>>, h.i)))

Called(callee, args) ==
    IF callee.k = "path" /\ callee.n = 1 THEN Call(callee.x, args)
    ELSE Node("apply", "", 0, <<callee>> \o args)

(* parse_postfix, after its primary *)
PostfixRest(c, i, e) ==
    CASE Peek(c, i) = "." /\ ~c.noDot ->
             IF Peek(c, i + 1) \in Ints
             THEN PostfixRest(c, i + 2, Node("proj", "", IntValue(Peek(c, i + 1)), <<e>>))
             ELSE Then(TakeIdent(c, i + 1), LAMBDA n :
                     IF Peek(c, n.i) # "(" THEN PostfixRest(c, n.i, Field(e, n.v))
                     ELSE Then(CallArgs(c, n.i), LAMBDA a : PostfixRest(c, a.i, Method(n.v, e, a.v))))
      [] Peek(c, i) = "[" -> Then(IndexArg(c, i + 1, e), LAMBDA x : PostfixRest(c, x.i, x.v))
      [] Peek(c, i) = "(" -> Then(CallArgs(c, i), LAMBDA a : PostfixRest(c, a.i, Called(e, a.v)))
      [] OTHER -> Got(e, i)

(* parse_path_expr with parse_struct_lit *)
PathExpr(c, i) ==
    Then(Segments(c, i + 1, <<>>), LAMBDA g :
        IF ~c.noStruct /\ Peek(c, g.i) = "{"
        THEN Then(Listed(c, g.i + 1, "}", "init", <<>>), LAMBDA l :
                Got(Node("struct", Peek(c, i), 1 + Len(g.v), g.v \o l.v), l.i))
        ELSE Got(Node("path", Peek(c, i), 1 + Len(g.v), g.v), g.i))

RECURSIVE ClosureParams(_, _, _)
ClosureParams(c, i, acc) ==
    Then(TakeIdent(c, i), LAMBDA n :
        IF Peek(c, n.i) = "," THEN ClosureParams(c, n.i + 1, Append(acc, Path(n.v)))
        ELSE Got(Append(acc, Path(n.v)), n.i))

(* parse_closure *)
ParseClosure(c, i) ==
    Then(CASE Peek(c, i) = "||" -> Got(<<>>, i + 1)
           [] Peek(c, i + 1) = "|" -> Got(<<>>, i + 2)
           [] OTHER -> Closing(c, ClosureParams(c, i + 1, <<>>), "|"),
         LAMBDA ps : Then(ParseExpr(c, ps.i), LAMBDA e :
             Got(Node("closure", "", Len(ps.v), ps.v \o <<e.v>>), e.i)))

(* parse_quantifier: a dot ends the domain. *)
ParseQuantifier(c, i) ==
    Then(Match(c, i + 1, <<"(", Name, ":", Name, ")", "in">>), LAMBDA v :
    Then(Closing(c, ParseExpr(NoDot(c), v.i), "."), LAMBDA d : Then(ParseExpr(c, d.i), LAMBDA b :
        Got(Node("quant", Peek(c, i), 0, <<Path(v.v[2]), d.v, b.v>>), b.i))))

(* parse_if_expr: an expression has both branches. *)
IfExpr(c, i) ==
    Then(ParseExpr(NoStructLiteral(c), i + 1), LAMBDA q : Then(Closing(c, ParseBlock(c, q.i), "else"), LAMBDA t :
    Then(ParseBlock(c, t.i), LAMBDA e : Got(If(q.v, t.v, e.v), e.i))))

RECURSIVE Arms(_, _, _)
(* The arms of a match; the last one needs no comma. *)
Arms(c, i, acc) ==
    IF Peek(c, i) = "}" \/ AtEof(c, i) THEN Got(acc, i)
    ELSE Then(ParsePattern(c, i), LAMBDA q :
         Then(Closing(c, IF Peek(c, q.i) = "if" THEN ParseExpr(NoStructLiteral(c), q.i + 1) ELSE Got(0, q.i), "=>"), LAMBDA g :
         Then(ParseExpr(StructLiteral(c), g.i), LAMBDA b :
            LET guard == IF Peek(c, q.i) = "if" THEN <<g.v>> ELSE <<>>
                arm == Node("arm", "", Len(guard), <<q.v>> \o guard \o <<b.v>>)
            IN  IF Peek(c, b.i) = "," THEN Arms(c, b.i + 1, Append(acc, arm))
                ELSE Got(Append(acc, arm), b.i))))

(* parse_match *)
ParseMatch(c, i) ==
    Then(Closing(c, ParseExpr(NoStructLiteral(c), i + 1), "{"), LAMBDA e :
    Then(Closing(c, Arms(c, e.i, <<>>), "}"), LAMBDA a : Got(Node("match", "", 0, <<e.v>> \o a.v), a.i)))

(* parse_primary *)
Primary(c, i) ==
    LET t == Peek(c, i)
    IN  CASE t \in Ints  -> Got(Lit(IntValue(t)), i + 1)
          [] t \in Bools -> Got(Truth(t = "true"), i + 1)
          [] t \in Strs  -> Got(Node("str", t, 0, <<>>), i + 1)
          [] t \in {"|", "||"} -> ParseClosure(c, i)
          [] t = "match" -> ParseMatch(c, i)
          [] t = "if"    -> IfExpr(c, i)
          [] t \in {"forall", "exists"} -> ParseQuantifier(c, i)
          [] t = "("     ->
                IF Peek(c, i + 1) = ")" THEN Unexpected(c, i + 1)
                ELSE Then(ParseExpr(StructLiteral(c), i + 1), LAMBDA f :
                     Then(TupleRest(c, f.i, "element", <<f.v>>), LAMBDA r :
                        Got(IF Peek(c, f.i) = "," THEN Tuple(r.v) ELSE f.v, r.i)))
          [] IsIdent(t)  -> PathExpr(c, i)
          [] OTHER       -> Unexpected(c, i)

(* parse_ref and parse_postfix *)
ParseRef(c, i) ==
    CASE Peek(c, i) = "&" ->
             LET m == IF Peek(c, i + 1) = "mut" THEN 1 ELSE 0
             IN  Then(ParseRef(c, i + 1 + m), LAMBDA e : Got(Node("ref", "", m, <<e.v>>), e.i))
      [] Peek(c, i) = "*" -> Then(ParseRef(c, i + 1), LAMBDA e : Got(Deref(e.v), e.i))
      [] OTHER -> Then(Primary(c, i), LAMBDA e : PostfixRest(c, e.i, e.v))

(* parse_unary *)
ParseUnary(c, i) ==
    IF Peek(c, i) = "!" THEN Then(ParseUnary(c, i + 1), LAMBDA e : Got(Not(e.v), e.i))
    ELSE ParseRef(c, i)

ParseLevel(c, i, n) ==
    IF n = 11 THEN Then(ParseUnary(c, i), LAMBDA e : Casts(c, e.i, e.v))
    ELSE Then(ParseLevel(c, i, n + 1), LAMBDA l :
            CASE n = 3 -> Comparison(c, l.i, l.v)
              [] n = 4 -> IsVariant(c, l.i, l.v)
              [] OTHER -> LeftAssociated(c, l.i, n, l.v))

(***************************************************************************)
(* Clauses.  A clause is its expression; a bv tag wraps it.                *)
(***************************************************************************)
BvWidths == {"bv8", "bv16", "bv32", "bv64"}

(* parse_bv_tag with parse_bv_width: the tag found, or none *)
BvTag(c, i) ==
    IF Peek(c, i) # "@" THEN Got(<<>>, i)
    ELSE IF ~Bv THEN Fails("BvTagWithoutShadowPlumbing", i)
    ELSE IF Peek(c, i + 1) \notin BvWidths THEN Fails("BvWidthInvalid", i + 1)
    ELSE IF Peek(c, i + 2) # "(" THEN Got(<<Peek(c, i + 1), 0>>, i + 2)
    ELSE Then(Match(c, i + 3, <<"nowrap", ")">>), LAMBDA k : Got(<<Peek(c, i + 1), 1>>, k.i))

(* parse_clause *)
ParseClause(c, i, keyword) ==
    Then(Consume(c, i, keyword), LAMBDA o : Then(BvTag(c, o.i), LAMBDA tag :
        IF keyword = "req" /\ tag.v # <<>> THEN Fails("BvTagOnPrecondition", tag.i)
        ELSE Then(ParseExpr(NoStructLiteral(c), tag.i), LAMBDA e :
                Got(IF tag.v = <<>> THEN e.v ELSE Node("bv", tag.v[1], tag.v[2], <<e.v>>), e.i))))

(* nth_starts_expr *)
StartsExpr(t) == t \notin {"{", "}", ")", ";", ",", "eof", "req", "ens", "fx", "inv", "dec"}

(* parse_dec_clause: `wf R' names a well-founded relation unless wf is the measure. *)
DecClause(c, i) ==
    Then(Consume(c, i, "dec"), LAMBDA o :
        IF Peek(c, o.i) = "wf" /\ StartsExpr(Peek(c, o.i + 1))
        THEN Then(ParseExpr(NoStructLiteral(c), o.i + 1), LAMBDA e : Got(Call("wf", <<e.v>>), e.i))
        ELSE ParseExpr(NoStructLiteral(c), o.i))

(* parse_refinement_clause *)
RefinementClause(c, i) ==
    Then(Consume(c, i, "{"), LAMBDA o : Closing(c, ParseExpr(NoStructLiteral(c), o.i), "}"))

RECURSIVE Clauses(_, _, _, _)
Clauses(c, i, keyword, acc) ==
    IF Peek(c, i) # keyword THEN Got(acc, i)
    ELSE Then(ParseClause(c, i, keyword), LAMBDA e : Clauses(c, e.i, keyword, Append(acc, e.v)))

(* One clause or more of a family that is mandatory. *)
SomeClauses(c, i, keyword) ==
    IF Peek(c, i) # keyword THEN Fails("MissingClause", i) ELSE Clauses(c, i, keyword, <<>>)

PlatformDomains == {"boot", "memory", "mmio", "pio", "irq", "cpu", "atomic", "smp", "dma", "clock",
                    "entropy", "power"}
PlainEffects == {"alloc", "time", "rand", "panic", "diverge", "term"}

(* parse_effect *)
ParseEffect(c, i) ==
    Then(TakeIdent(c, i), LAMBDA n :
        CASE n.v \in PlainEffects -> Got(<<n.v>>, n.i)
          [] n.v \in {"read", "write", "net", "platform"} ->
                Then(Match(c, n.i, <<"(", Name, ")">>), LAMBDA a :
                    IF n.v = "platform" /\ a.v[2] \notin PlatformDomains THEN Fails("Unexpected", n.i + 1)
                    ELSE Got(<<n.v, a.v[2]>>, a.i))
          [] OTHER -> Fails("Unexpected", i))

RECURSIVE Effects(_, _, _)
Effects(c, i, acc) ==
    Then(ParseEffect(c, i), LAMBDA e :
        IF Peek(c, e.i) = "," THEN Effects(c, e.i + 1, Append(acc, e.v)) ELSE Got(Append(acc, e.v), e.i))

(* parse_effect_row; fx pure is the empty row *)
EffectRow(c, i) == IF Peek(c, i + 1) = "pure" THEN Got(<<>>, i + 2) ELSE Effects(c, i + 1, <<>>)

(* parse_contract: req, ens+, fx in this order *)
ParseContract(c, i) ==
    IF Peek(c, i) # "req"
    THEN Fails(IF Peek(c, i) \in {"ens", "fx"} THEN "ClauseOrder" ELSE "MissingClause", i)
    ELSE Then(ParseClause(c, i, "req"), LAMBDA r : Then(SomeClauses(c, r.i, "ens"), LAMBDA e :
            IF Peek(c, e.i) # "fx"
            THEN Fails(IF Peek(c, e.i) = "req" THEN "ClauseOrder" ELSE "MissingClause", e.i)
            ELSE Then(EffectRow(c, e.i), LAMBDA x :
                    Got([req |-> r.v, ens |-> e.v, fx |-> x.v], x.i))))

(***************************************************************************)
(* Statements.  A statement parser yields the statements it desugars to.   *)
(***************************************************************************)
InLoop(c) == [c EXCEPT !.loops = @ + 1]

(* The type after a colon, if there is one *)
Ascription(c, i) ==
    IF Peek(c, i) # ":" THEN Got(<<>>, i) ELSE Then(ParseType(c, i + 1), LAMBDA t : Got(<<t.v>>, t.i))

(* = e ; *)
Initialiser(c, i) ==
    Then(Consume(c, i, "="), LAMBDA o : Closing(c, ParseExpr(c, o.i), ";"))

RECURSIVE TupleNames(_, _, _)
TupleNames(c, i, acc) ==
    IF Peek(c, i) = ")" THEN Got(acc, i + 1)
    ELSE Then(TakeIdent(c, i), LAMBDA n :
            IF Peek(c, n.i) = "," THEN TupleNames(c, n.i + 1, Append(acc, n.v))
            ELSE Then(Consume(c, n.i, ")"), LAMBDA k : Got(Append(acc, n.v), k.i)))

(* parse_let_tuple_destructure: a temporary named by its position, then a projection per name *)
LetTuple(c, i, mutable) ==
    LET temp == "__td" \o ToString(i)
        bound(names) == SelectSeq([j \in 1..Len(names) |->
                            Node("let", names[j], mutable, <<Node("proj", "", j - 1, <<Path(temp)>>)>>)],
                            LAMBDA l : l.x # "_")
    IN  Then(TupleNames(c, i + 1, <<>>), LAMBDA ns : Then(Initialiser(c, ns.i), LAMBDA e :
            Got(<<Let(temp, e.v)>> \o bound(ns.v), e.i)))

(* parse_let *)
ParseLet(c, i) ==
    LET m == IF Peek(c, i + 1) = "mut" THEN 1 ELSE 0
        j == i + 1 + m
    IN  IF Peek(c, j) = "(" THEN LetTuple(c, j, m)
        ELSE Then(TakeIdent(c, j), LAMBDA n : Then(Ascription(c, n.i), LAMBDA t :
                Then(Initialiser(c, t.i), LAMBDA e : Got(<<Node("let", n.v, m, t.v \o <<e.v>>)>>, e.i))))

(* What a for loop stands for: a counter and a while with the measure hi - i *)
ForLoop(var, lo, hi, invs, body) ==
    <<Node("let", var, 1, <<lo>>),
      While(Binary("<", Path(var), hi), invs, Binary("-", hi, Path(var)),
            Block(Append(Stmts(body), Assign(Path(var), Binary("+", Path(var), Lit(1)))),
                  IF HasTail(body) THEN <<TailOf(body)>> ELSE <<>>))>>

(* parse_for *)
ParseFor(c, i) ==
    LET n == NoStructLiteral(c)
    IN  Then(Match(c, i + 1, <<Name, "in">>), LAMBDA v : Then(Closing(c, ParseExpr(n, v.i), ".."), LAMBDA lo :
        Then(ParseExpr(n, lo.i), LAMBDA hi : Then(SomeClauses(c, hi.i, "inv"), LAMBDA invs :
            IF Peek(c, invs.i) = "dec" THEN Fails("Unexpected", invs.i)
            ELSE Then(ParseBlock(InLoop(c), invs.i), LAMBDA b :
                    Got(ForLoop(v.v[1], lo.v, hi.v, invs.v, b.v), b.i))))))

(* inv+ dec { .. } of parse_loop_inner and parse_while_let; only the former refuses a second dec *)
LoopTail(c, i, head, strict) ==
    Then(SomeClauses(c, i, "inv"), LAMBDA invs :
        IF Peek(c, invs.i) # "dec" THEN Fails("MissingClause", invs.i)
        ELSE Then(DecClause(c, invs.i), LAMBDA d :
                IF strict /\ Peek(c, d.i) = "dec" THEN Fails("ClauseOrder", d.i)
                ELSE Then(ParseBlock(InLoop(c), d.i), LAMBDA b :
                        Got(<<Node(IF head = <<>> THEN "loop" ELSE "while", "", Len(invs.v),
                                   head \o invs.v \o <<d.v, b.v>>)>>, b.i))))

(* parse_loop with parse_loop_inner *)
ParseLoop(c0, i) ==
    LET c == Deeper(c0)
    IN  IF TooDeep(c0) THEN Fails("ExpressionTooDeep", i)
        ELSE IF Peek(c, i) = "loop" THEN LoopTail(c, i + 1, <<>>, TRUE)
        ELSE Then(ParseExpr(NoStructLiteral(c), i + 1), LAMBDA q : LoopTail(c, q.i, <<q.v>>, TRUE))

(* parse_while_let: the pattern must name a variant, and only its name is kept *)
WhileLet(c, i) ==
    Then(ParsePattern(c, i + 2), LAMBDA q :
        IF q.v.k \notin {"enum", "structpat"} THEN Unexpected(c, q.i)
        ELSE Then(Consume(c, q.i, "="), LAMBDA k : Then(ParseExpr(NoStructLiteral(c), k.i), LAMBDA e :
                LoopTail(c, e.i, <<Node("is", q.v.x, q.v.n - 1, <<e.v>> \o SubSeq(q.v.s, 1, q.v.n - 1))>>,
                         FALSE))))

(* parse_if_let with block_into_arm_body: a match with a wildcard arm *)
IfLet(c, i) ==
    LET bare(b) == Stmts(b) = <<>> /\ HasTail(b)
        arm(q, b) == Node("arm", "", 0, <<q, TailOf(b)>>)
    IN  Then(Closing(c, ParsePattern(c, i + 2), "="), LAMBDA q : Then(ParseExpr(NoStructLiteral(c), q.i), LAMBDA e :
        Then(Closing(c, ParseBlock(c, e.i), "else"), LAMBDA t : Then(ParseBlock(c, t.i), LAMBDA f :
            IF ~bare(t.v) \/ ~bare(f.v) THEN Fails("Unexpected", f.i)
            ELSE Got(Node("match", "", 0, <<e.v, arm(q.v, t.v), arm(Node("wild", "", 0, <<>>), f.v)>>), f.i)))))

(* parse_if_parts_inner *)
IfParts(c0, i) ==
    LET c == Deeper(c0)
    IN  IF TooDeep(c0) THEN Fails("ExpressionTooDeep", i)
        ELSE Then(ParseExpr(NoStructLiteral(c), i + 1), LAMBDA q : Then(ParseBlock(c, q.i), LAMBDA t :
                IF Peek(c, t.i) # "else" THEN Got(IfStmt(q.v, t.v), t.i)
                ELSE Then(ParseBlock(c, t.i + 1), LAMBDA e : Got(IfElse(q.v, t.v, e.v), e.i))))

(* parse_break_continue *)
BreakContinue(c, i) ==
    IF c.loops = 0 THEN Fails("BreakContinueOutsideLoop", i)
    ELSE Then(Consume(c, i + 1, ";"), LAMBDA k : Got(<<Node(Peek(c, i), "", 0, <<>>)>>, k.i))

(* parse_hole: a hole leaves no statement *)
ParseHole(c, i) ==
    CASE Peek(c, i) \in ProofHoles -> Fails("ProofHoleOutsideProofBlock", i)
      [] Peek(c, i) \notin ProofHoles /\ ~c.body -> Fails("HoleOutsideFnBody", i)
      [] OTHER -> Got(<<>>, i + 1)

(* parse_return *)
ParseReturn(c, i) ==
    IF Peek(c, i + 1) = ";" THEN Got(<<Node("return", "", 0, <<>>)>>, i + 2)
    ELSE Then(Closing(c, ParseExpr(c, i + 1), ";"), LAMBDA e : Got(<<Return(e.v)>>, e.i))

(* An expression, an assignment or the tail; the tail is marked by "tail". *)
ExprStatement(c, i) ==
    Then(ParseExpr(c, i), LAMBDA e :
        CASE Peek(c, e.i) = "=" -> Then(Initialiser(c, e.i), LAMBDA v : Got(<<Assign(e.v, v.v)>>, v.i))
          [] Peek(c, e.i) = ";" -> Got(<<Node("expr", "", 0, <<e.v>>)>>, e.i + 1)
          [] OTHER -> Got(<<Node("tail", "", 0, <<e.v>>)>>, e.i))

(* An if at the end of a block that yields a value is its tail. *)
IfStatement(c, i) ==
    Then(IfParts(c, i), LAMBDA f :
        IF Len(f.v.s) = 3 /\ Peek(c, f.i) = "}" /\ HasTail(f.v.s[2])
        THEN Got(<<Node("tail", "", 0, <<[f.v EXCEPT !.k = "if"]>>)>>, f.i)
        ELSE Got(<<f.v>>, f.i))

IfLetStatement(c, i) ==
    Then(IfLet(c, i), LAMBDA m :
        Got(<<Node(IF Peek(c, m.i) = "}" THEN "tail" ELSE "expr", "", 0, <<m.v>>)>>, m.i))

ParseStatement(c, i) ==
    LET t == Peek(c, i)
    IN  CASE t = "let"    -> ParseLet(c, i)
          [] t = "return" -> ParseReturn(c, i)
          [] t = "loop" \/ (t = "while" /\ Peek(c, i + 1) # "let") -> ParseLoop(c, i)
          [] t = "while" /\ Peek(c, i + 1) = "let" -> WhileLet(c, i)
          [] t = "for"    -> ParseFor(c, i)
          [] t \in {"break", "continue"} -> BreakContinue(c, i)
          [] t \in BodyHoles \cup ProofHoles -> ParseHole(c, i)
          [] t = "if" /\ Peek(c, i + 1) = "let" -> IfLetStatement(c, i)
          [] t = "if" /\ Peek(c, i + 1) # "let" -> IfStatement(c, i)
          [] OTHER -> ExprStatement(c, i)

RECURSIVE Statements(_, _, _)
Statements(c, i, acc) ==
    IF Peek(c, i) = "}" \/ AtEof(c, i)
    THEN Then(Consume(c, i, "}"), LAMBDA k : Got(Block(acc, <<>>), k.i))
    ELSE Then(ParseStatement(c, i), LAMBDA st :
            IF st.v # <<>> /\ st.v[1].k = "tail"
            THEN Then(Consume(c, st.i, "}"), LAMBDA k : Got(Block(acc, st.v[1].s), k.i))
            ELSE Statements(c, st.i, acc \o st.v))

(* parse_block *)
BlockAt(c, i) == Then(Consume(c, i, "{"), LAMBDA o : Statements(c, o.i, <<>>))

(***************************************************************************)
(* Items.                                                                  *)
(***************************************************************************)
RECURSIVE SlagFields(_, _, _)
(* The fields of #[slag(..)]: an unknown one is dropped, the last of a name wins. *)
SlagFields(c, i, acc) ==
    IF Peek(c, i) = ")" THEN Got(acc, i + 1)
    ELSE Then(Match(c, i, <<Name, "=">>), LAMBDA n : Then(TakeString(c, n.i), LAMBDA v :
            LET next == IF n.v[1] \in DOMAIN acc THEN [acc EXCEPT ![n.v[1]] = <<v.v>>] ELSE acc
            IN  IF Peek(c, v.i) = "," THEN SlagFields(c, v.i + 1, next)
                ELSE Then(Consume(c, v.i, ")"), LAMBDA z : Got(next, z.i))))

(* parse_slag_body *)
SlagBody(c, i) ==
    Then(Consume(c, i, "("), LAMBDA o :
    Then(Closing(c, SlagFields(c, o.i, [f \in {"reason", "owner", "review"} |-> <<>>]), "]"), LAMBDA fs :
        Got([k |-> "slag", v |-> fs.v], fs.i)))

(* parse_boundary_body *)
BoundaryBody(c, i) ==
    Then(Consume(c, i, "("), LAMBDA o : Then(TakeString(c, o.i), LAMBDA t :
    Then(Match(c, t.i, <<")", "]">>), LAMBDA z : Got([k |-> "boundary", v |-> t.v], z.i))))

NoAttr == [k |-> "none", v |-> <<>>]

(* parse_attribute *)
ParseAttribute(c, i) ==
    IF Peek(c, i) # "#[" THEN Got(NoAttr, i)
    ELSE Then(TakeIdent(c, i + 1), LAMBDA n :
            CASE n.v = "slag"     -> SlagBody(c, n.i)
              [] n.v = "boundary" -> BoundaryBody(c, n.i)
              [] n.v = "sealed"   -> Then(Consume(c, n.i, "]"), LAMBDA z : Got([k |-> "sealed", v |-> <<>>], z.i))
              [] OTHER            -> Fails("Unexpected", i))

(* parse_params_inner *)
ParseParams(c, i, refined) ==
    Then(Consume(c, i, "("), LAMBDA o : Listed(c, o.i, ")", IF refined THEN "param" ELSE "bare param", <<>>))

(* A name, its parameters and its result type, of fn, spec fn and prop fn *)
Signature(c, i, refined) ==
    Then(TakeIdent(c, i), LAMBDA n : Then(Closing(c, ParseParams(c, n.i, refined), "->"), LAMBDA ps :
    Then(ParseType(c, ps.i), LAMBDA t : Got([name |-> n.v, params |-> ps.v, ret |-> t.v], t.i))))

OptionalDec(c, i) ==
    IF Peek(c, i) # "dec" THEN Got(<<>>, i) ELSE Then(DecClause(c, i), LAMBDA d : Got(<<d.v>>, d.i))

(* The body of a fn: a boundary fn ends in `;', any other has a block. *)
FnBody(c, i, boundary) ==
    IF boundary THEN Then(Consume(c, i, ";"), LAMBDA k : Got(<<>>, k.i))
    ELSE Then(ParseBlock([c EXCEPT !.body = TRUE], i), LAMBDA b : Got(<<b.v>>, b.i))

(* The holes a span of tokens holds *)
HolesIn(c, i, j, holes) == SelectSeq(SubSeq(c.ts, i, j - 1), LAMBDA t : t \in holes)

(* parse_fn *)
ParseFn(c, i, attr) ==
    Then(Signature(c, i + 1, TRUE), LAMBDA sig :
    Then(IF Peek(c, sig.i) = "{" THEN Then(RefinementClause(c, sig.i), LAMBDA e : Got(<<e.v>>, e.i))
         ELSE Got(<<>>, sig.i), LAMBDA rf :
    Then(ParseContract(c, rf.i), LAMBDA k : Then(OptionalDec(c, k.i), LAMBDA d :
    Then(FnBody(c, d.i, attr.k = "boundary"), LAMBDA b :
        Got([k |-> "fn", sig |-> sig.v, refined |-> rf.v, contract |-> k.v, dec |-> d.v, body |-> b.v,
             holes |-> HolesIn(c, d.i, b.i, BodyHoles), attr |-> attr], b.i))))))

(* parse_spec_fn: the measure is mandatory *)
ParseSpecFn(c, i) ==
    Then(Consume(c, i + 1, "fn"), LAMBDA f : Then(Signature(c, f.i, FALSE), LAMBDA sig :
        IF Peek(c, sig.i) # "dec" THEN Fails("MissingClause", sig.i)
        ELSE Then(DecClause(c, sig.i), LAMBDA d : Then(ParseBlock(c, d.i), LAMBDA b :
                Got([k |-> "spec", sig |-> sig.v, dec |-> <<d.v>>, body |-> <<b.v>>], b.i)))))

(* parse_prop_fn *)
ParsePropFn(c, i) ==
    Then(Consume(c, i + 1, "fn"), LAMBDA f : Then(Signature(c, f.i, FALSE), LAMBDA sig :
    Then(OptionalDec(c, sig.i), LAMBDA d : Then(ParseBlock(c, d.i), LAMBDA b :
        Got([k |-> "prop", sig |-> sig.v, dec |-> d.v, body |-> <<b.v>>], b.i)))))

(* parse_struct with parse_field_defs *)
ParseStruct(c, i, sealed) ==
    Then(Match(c, i + 1, <<Name, "{">>), LAMBDA n : Then(Listed(c, n.i, "}", "fielddef", <<>>), LAMBDA fs :
    Then(IF Peek(c, fs.i) = "inv" THEN Then(ParseClause(c, fs.i, "inv"), LAMBDA e : Got(<<e.v>>, e.i))
         ELSE Got(<<>>, fs.i), LAMBDA v :
        Got([k |-> "struct", name |-> n.v[1], fields |-> fs.v, inv |-> v.v, sealed |-> sealed], v.i))))

(* parse_enum *)
ParseEnum(c, i) ==
    Then(Match(c, i + 1, <<Name, "{">>), LAMBDA n : Then(Listed(c, n.i, "}", "variant", <<>>), LAMBDA vs :
        Got([k |-> "enum", name |-> n.v[1], variants |-> vs.v], vs.i)))

RECURSIVE ProofEnd(_, _, _)
(* The position after the brace that closes a proof block *)
ProofEnd(c, i, depth) ==
    CASE AtEof(c, i) -> Fails("UnexpectedEof", i)
      [] Peek(c, i) \in BodyHoles -> Fails("BodyHoleInProofBlock", i)
      [] Peek(c, i) = "{" -> ProofEnd(c, i + 1, depth + 1)
      [] Peek(c, i) = "}" -> IF depth = 1 THEN Got(<<>>, i + 1) ELSE ProofEnd(c, i + 1, depth - 1)
      [] OTHER -> ProofEnd(c, i + 1, depth)

(* scan_proof_block: its text is kept as tokens, unread but for its holes *)
ProofBlock(c, i) ==
    Then(Consume(c, i, "{"), LAMBDA o : Then(ProofEnd(c, o.i, 1), LAMBDA z :
        Got([text |-> SubSeq(c.ts, o.i, z.i - 2), holes |-> HolesIn(c, o.i, z.i, ProofHoles)], z.i)))

(* parse_lemma *)
ParseLemma(c, i) ==
    Then(TakeIdent(c, i + 1), LAMBDA n : Then(ParseParams(c, n.i, FALSE), LAMBDA ps :
        IF Peek(c, ps.i) # "req" THEN Fails("MissingClause", ps.i)
        ELSE Then(ParseClause(c, ps.i, "req"), LAMBDA r : Then(Closing(c, SomeClauses(c, r.i, "ens"), "proof"), LAMBDA e :
             Then(ProofBlock(c, e.i), LAMBDA b :
                Got([k |-> "lemma", name |-> n.v, params |-> ps.v, req |-> r.v, ens |-> e.v,
                     proof |-> b.v], b.i))))))

(* parse_clause_selector *)
ClauseSelector(c, i) ==
    CASE Peek(c, i) \notin {"ens", "req", "inv"} -> Unexpected(c, i)
      [] Peek(c, i) \in {"ens", "req", "inv"} /\ Peek(c, i + 1) # "#" -> Got(<<Peek(c, i)>>, i + 1)
      [] OTHER -> IF Peek(c, i + 2) \in Ints THEN Got(<<Peek(c, i), IntValue(Peek(c, i + 2))>>, i + 3)
                  ELSE Unexpected(c, i + 2)

RECURSIVE Obligations(_, _, _)
Obligations(c, i, acc) ==
    IF Peek(c, i) = "}" \/ AtEof(c, i) THEN Then(Consume(c, i, "}"), LAMBDA k : Got(acc, k.i))
    ELSE Then(Closing(c, ClauseSelector(c, i), "by"), LAMBDA sel :
         Then(ProofBlock(c, sel.i), LAMBDA b : Obligations(c, b.i, Append(acc, <<sel.v, b.v>>))))

(* parse_proof_item *)
ParseProof(c, i) ==
    Then(Match(c, i + 1, <<"for", Name, "{">>), LAMBDA n : Then(Obligations(c, n.i, <<>>), LAMBDA obs :
        Got([k |-> "proof", target |-> n.v[2], obligations |-> obs.v], obs.i)))

RECURSIVE Directives(_, _, _)
(* The inhabit and falsify directives of a witness block *)
Directives(c, i, acc) ==
    CASE Peek(c, i) = "}" -> Got(acc, i + 1)
      [] Peek(c, i) = "inhabit" ->
            Then(Consume(c, i + 1, "("), LAMBDA o : Then(Closing(c, Listed(c, o.i, ")", "expr", <<>>), ";"), LAMBDA a :
                Directives(c, a.i, [acc EXCEPT !.inhabits = Append(@, a.v)])))
      [] Peek(c, i) = "falsify" /\ Peek(c, i + 1) \in Ints ->
            Then(Consume(c, i + 2, ";"), LAMBDA k :
                Directives(c, k.i, [acc EXCEPT !.falsifies = Append(@, IntValue(Peek(c, i + 1)))]))
      [] OTHER -> Unexpected(c, IF Peek(c, i) = "falsify" THEN i + 1 ELSE i)

(* parse_witness *)
ParseWitness(c, i) ==
    Then(Consume(c, i + 1, "{"), LAMBDA o :
    Then(Directives(c, o.i, [inhabits |-> <<>>, falsifies |-> <<>>]), LAMBDA d :
        Got([k |-> "witness", v |-> d.v], d.i)))

(* The keyword an item starts with, after its attribute *)
ItemKind(c, i) ==
    CASE Peek(c, i) \in {"struct", "enum", "lemma", "proof", "witness", "spec", "fn"} -> Peek(c, i)
      [] Peek(c, i) = "prop" /\ Peek(c, i + 1) = "fn" -> "prop"
      [] OTHER -> "none"

(* The attributes each kind of item takes *)
Takes(kind) ==
    CASE kind = "fn" -> {"none", "slag", "boundary"} [] kind = "struct" -> {"none", "sealed"}
      [] OTHER -> {"none"}

(* parse_item *)
ParseItem(c, i) ==
    Then(ParseAttribute(c, i), LAMBDA a :
        LET kind == ItemKind(c, a.i)
        IN  IF kind = "none" \/ a.v.k \notin Takes(kind) THEN Unexpected(c, a.i)
            ELSE CASE kind = "struct"  -> ParseStruct(c, a.i, a.v.k = "sealed")
                   [] kind = "enum"    -> ParseEnum(c, a.i)
                   [] kind = "lemma"   -> ParseLemma(c, a.i)
                   [] kind = "proof"   -> ParseProof(c, a.i)
                   [] kind = "witness" -> ParseWitness(c, a.i)
                   [] kind = "prop"    -> ParsePropFn(c, a.i)
                   [] kind = "spec"    -> ParseSpecFn(c, a.i)
                   [] kind = "fn"      -> ParseFn(c, a.i, a.v))

Parse(what, c, i) ==
    CASE what = "expr"       -> ExprAt(c, i)
      [] what = "type"       -> TypeAt(c, i)
      [] what = "pattern"    -> PatternAt(c, i)
      [] what = "block"      -> BlockAt(c, i)
      [] what = "item"       -> ParseItem(c, i)
      [] what = "element"    -> ParseExpr(StructLiteral(c), i)
      [] what = "init"       -> FieldInit(StructLiteral(c), i)
      [] what = "fielddef"   -> FieldDef(c, i)
      [] what = "param"      -> ParamDef(c, i)
      [] what = "bare param" -> Labelled(c, i, "param", ParseType)
      [] what = "variant"    -> VariantDef(c, i)
      [] what = "fieldpat"   -> FieldPattern(c, i)
      [] what = "slicepat"   -> SliceElement(c, i)

RECURSIVE Boundary(_, _)
Boundary(c, i) ==
    IF AtEof(c, i) \/ Peek(c, i) \in {"fn", "spec", "#[", "struct", "enum"} THEN i ELSE Boundary(c, i + 1)

(* resync_to_item_boundary: at least one token further than the failed item's start *)
Resync(c, start, i) == Boundary(c, IF i = start THEN Bump(c, i) ELSE i)

RECURSIVE Items(_, _, _)
(* parse_program: an item that fails is reported and the next boundary is tried *)
Items(c, i, acc) ==
    IF AtEof(c, i) THEN acc
    ELSE LET r == Parse("item", c, i)
         IN  IF r.ok THEN Items(c, r.i, [acc EXCEPT !.items = Append(@, r.v)])
             ELSE Items(c, Resync(c, i, r.i), [acc EXCEPT !.errors = Append(@, r.v)])

ParseProgram(ts) == Items(Context(ts), 1, [items |-> <<>>, errors |-> <<>>])

(***************************************************************************)
(* desugar.rs: the refinements of a fn become clauses of its contract.     *)
(***************************************************************************)
RECURSIVE Conjoin(_, _)
Conjoin(e, preds) == IF preds = <<>> THEN e ELSE Conjoin(Binary("&&", e, preds[1]), SubSeq(preds, 2, Len(preds)))

Refined(params) == SelectSeq(params, LAMBDA p : Len(p.s) = 2)

(* desugar_refinements *)
Desugar(item) ==
    IF item.k # "fn" THEN item
    ELSE LET pre == Refined(item.sig.params)
         IN  [item EXCEPT !.contract.req = Conjoin(@, [j \in DOMAIN pre |-> pre[j].s[2]]),
                          !.contract.ens = @ \o item.refined,
                          !.sig.params = [j \in DOMAIN @ |-> [@[j] EXCEPT !.s = <<@[1]>>]],
                          !.refined = <<>>]
====
