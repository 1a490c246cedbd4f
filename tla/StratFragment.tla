------------------------------ MODULE StratFragment -------------------------------
(***************************************************************************)
(* The stratified fragment of contracts: the classifier that admits a      *)
(* sorted formula (thermite-spec/src/classifier.rs), its exchange format,  *)
(* and the bridge from a clause of the source to such a formula            *)
(* (thermite-spec/src/s2_recon.rs).                                        *)
(*                                                                         *)
(* A sort is a sequence of names: <<"u64">>, <<"Key">> for a type of the   *)
(* program, <<"seq", "u64">>.  A term or formula is [k, x, o, n, s]: kind, *)
(* relation or form of a literal, the sorts it carries, a number and its   *)
(* parts.  Variables are de Bruijn indices.                                *)
(***************************************************************************)
EXTENDS Surface, TLC

MachWidth == [u8 |-> 8, u16 |-> 16, u32 |-> 32, u64 |-> 64, usize |-> 64, bool |-> 1]
UsizeS    == <<"usize">>
BoolS     == <<"bool">>
SeqOf(o)  == <<"seq">> \o o
IsSeq(o)  == o[1] = "seq"
ElemOf(o) == Tail(o)

Tm(k, o, n, s) == [k |-> k, x |-> "", o |-> o, n |-> n, s |-> s]
Var(o, i)      == Tm("var", <<o>>, i, <<>>)
Const(o, id)   == Tm("const", <<o>>, id, <<>>)
IntOf(o, n)    == [Tm("lit", <<o>>, n, <<>>) EXCEPT !.x = "int"]
BoolOf(n)      == [Tm("lit", <<BoolS>>, n, <<>>) EXCEPT !.x = "bool"]
Read(o, sq, i) == Tm("read", <<o>>, 0, <<sq, i>>)
LenOf(sq)      == Tm("len", <<>>, 0, <<sq>>)
CastTo(o, t)   == Tm("cast", <<o>>, 0, <<t>>)
IdxOp(t, n)    == Tm("idxop", <<>>, n, <<t>>)
Mul(t, u)      == Tm("mul", <<>>, 0, <<t, u>>)
App1(arg, res, f, t) == Tm("app", <<arg, res>>, f, <<t>>)
Rel(r, t, u)   == [Tm("rel", <<>>, 0, <<t, u>>) EXCEPT !.x = r]
QFree(id)      == Tm("qfree", <<>>, id, <<>>)
Neg(p)         == Tm("neg", <<>>, 0, <<p>>)
Conj(p, q)     == Tm("conj", <<>>, 0, <<p, q>>)
Disj(p, q)     == Tm("disj", <<>>, 0, <<p, q>>)
Imp(p, q)      == Tm("imp", <<>>, 0, <<p, q>>)
All(o, p)      == Tm("all", <<o>>, 0, <<p>>)
Ex(o, p)       == Tm("ex", <<o>>, 0, <<p>>)

(* Tm::sort_of and term_sort *)
RECURSIVE SortOf(_)
SortOf(t) ==
    CASE t.k = "len" -> UsizeS
      [] t.k \in {"idxop", "mul"} -> SortOf(t.s[1])
      [] t.k = "app" -> t.o[2]
      [] OTHER -> t.o[1]

(***************************************************************************)
(* Admission.                                                              *)
(***************************************************************************)

FinSort(o) == ~IsSeq(o)

(* fin_carrier: every binder ranges over a finite carrier. *)
RECURSIVE FinCarrier(_)
FinCarrier(p) ==
    CASE p.k \in {"rel", "qfree"} -> TRUE
      [] p.k \in {"all", "ex"} -> FinSort(p.o[1]) /\ FinCarrier(p.s[1])
      [] OTHER -> \A i \in DOMAIN p.s : FinCarrier(p.s[i])

SameWidth(a, b) == a[1] \in DOMAIN MachWidth /\ b[1] \in DOMAIN MachWidth /\ MachWidth[a[1]] = MachWidth[b[1]]

RECURSIVE HasBoundVar(_, _)
HasBoundVar(depth, t) ==
    IF t.k = "var" THEN t.n < depth ELSE \E i \in DOMAIN t.s : HasBoundVar(depth, t.s[i])

(* idx_ok_tm: no bound variable under a product or a cast that changes the width. *)
RECURSIVE IdxOkTm(_, _)
IdxOkTm(depth, t) ==
    /\ t.k = "cast" => ~HasBoundVar(depth, t.s[1]) \/ SameWidth(SortOf(t.s[1]), t.o[1])
    /\ t.k = "mul"  => ~HasBoundVar(depth, t)
    /\ \A i \in DOMAIN t.s : IdxOkTm(depth, t.s[i])

RECURSIVE IdxGrammar(_, _)
IdxGrammar(depth, p) ==
    CASE p.k = "qfree" -> TRUE
      [] p.k = "rel" -> IdxOkTm(depth, p.s[1]) /\ IdxOkTm(depth, p.s[2])
      [] p.k \in {"all", "ex"} -> IdxGrammar(depth + 1, p.s[1])
      [] OTHER -> \A i \in DOMAIN p.s : IdxGrammar(depth, p.s[i])

(* nnf and nnf_neg: negation normal form of a formula and of its negation *)
RECURSIVE Nnf(_), NnfNeg(_)
Nnf(p) ==
    CASE p.k \in {"rel", "qfree"} -> p
      [] p.k = "neg" -> NnfNeg(p.s[1])
      [] p.k = "imp" -> Disj(NnfNeg(p.s[1]), Nnf(p.s[2]))
      [] OTHER -> [p EXCEPT !.s = [i \in DOMAIN p.s |-> Nnf(p.s[i])]]
NnfNeg(p) ==
    CASE p.k \in {"rel", "qfree"} -> Neg(p)
      [] p.k = "neg"  -> Nnf(p.s[1])
      [] p.k = "conj" -> Disj(NnfNeg(p.s[1]), NnfNeg(p.s[2]))
      [] p.k = "disj" -> Conj(NnfNeg(p.s[1]), NnfNeg(p.s[2]))
      [] p.k = "imp"  -> Conj(Nnf(p.s[1]), NnfNeg(p.s[2]))
      [] p.k = "all"  -> Ex(p.o[1], NnfNeg(p.s[1]))
      [] p.k = "ex"   -> All(p.o[1], NnfNeg(p.s[1]))

(* A context lists the binders around a place, the innermost first, as pairs of *)
(* whether it is universal and its sort.                                        *)
(* Mutant: a variable bound by an existential carries no dependency. *)
RECURSIVE HasUniversalVar(_, _)
HasUniversalVar(ctx, t) ==
    IF t.k = "var" THEN t.n < Len(ctx) /\ ctx[t.n + 1][1] ELSE \E i \in DOMAIN t.s : HasUniversalVar(ctx, t.s[i])

HasScopedVar(ctx, t) == HasBoundVar(Len(ctx), t)

(* edges_tm: how a term under binders makes a term of one sort from another *)
RECURSIVE EdgesTm(_, _)
EdgesTm(ctx, t) ==
    UNION {EdgesTm(ctx, t.s[i]) : i \in DOMAIN t.s}
    \cup (CASE t.k = "read" /\ HasScopedVar(ctx, t.s[2]) -> {<<UsizeS, t.o[1]>>}
            [] t.k = "len"  /\ HasScopedVar(ctx, t.s[1]) -> {<<SortOf(t.s[1]), UsizeS>>}
            [] t.k = "cast" /\ HasScopedVar(ctx, t.s[1]) -> {<<SortOf(t.s[1]), t.o[1]>>}
            [] t.k = "app"  /\ HasScopedVar(ctx, t.s[1]) -> {<<t.o[1], t.o[2]>>}
            [] OTHER -> {})

UnivSorts(ctx) == {ctx[i][2] : i \in {j \in DOMAIN ctx : ctx[j][1]}}

(* edges_frm: those of its terms, and from each enclosing universal to an existential *)
RECURSIVE EdgesFrm(_, _)
EdgesFrm(ctx, p) ==
    CASE p.k = "qfree" -> {}
      [] p.k = "rel" -> EdgesTm(ctx, p.s[1]) \cup EdgesTm(ctx, p.s[2])
      [] p.k = "all" -> EdgesFrm(<<<<TRUE, p.o[1]>>>> \o ctx, p.s[1])
      [] p.k = "ex"  -> {<<o, p.o[1]>> : o \in UnivSorts(ctx)} \cup EdgesFrm(<<<<FALSE, p.o[1]>>>> \o ctx, p.s[1])
      [] OTHER -> UNION {EdgesFrm(ctx, p.s[i]) : i \in DOMAIN p.s}

Targets(edges, A) == {e[2] : e \in {d \in edges : d[1] \in A}}

RECURSIVE VisitedFrom(_, _)
VisitedFrom(edges, A) ==
    LET more == A \cup Targets(edges, A) IN IF more = A THEN A ELSE VisitedFrom(edges, more)

ReachesSelf(edges, o) == o \in VisitedFrom(edges, Targets(edges, {o}))

Acyclic(edges) == \A e \in edges : ~ReachesSelf(edges, e[1]) /\ ~ReachesSelf(edges, e[2])

(* classify: admitted, or the reason it is not. *)
Classify(p) ==
    CASE ~FinCarrier(p)    -> "seq-quantifier"
      [] ~IdxGrammar(0, p) -> "index-grammar"
      [] ~Acyclic(EdgesFrm(<<>>, Nnf(p))) -> "sort-graph-cycle"
      [] OTHER             -> "admitted"

(***************************************************************************)
(* The exchange format, as tokens.                                         *)
(***************************************************************************)
WireTag == [var |-> "v", const |-> "c", lit |-> "l", read |-> "rd", len |-> "ln", cast |-> "ct", idxop |-> "ix",
            mul |-> "ml", app |-> "a1", neg |-> "ng", conj |-> "cj", disj |-> "dj", imp |-> "im", all |-> "al", ex |-> "ex"]

RECURSIVE WriteSort(_)
WriteSort(o) ==
    CASE IsSeq(o) -> <<"(", "s">> \o WriteSort(ElemOf(o)) \o <<")">>
      [] o[1] \in DOMAIN MachWidth -> <<"(", "m", o[1], ")">>
      [] OTHER -> <<"(", "o", o[1], ")">>

RECURSIVE WriteAll(_)
RECURSIVE WriteTm(_)
WriteAll(ts) == IF ts = <<>> THEN <<>> ELSE WriteTm(ts[1]) \o WriteAll(Tail(ts))

(* write_tm: tag, sorts, a function's number, the parts, and the other numbers last *)
WriteTm(t) ==
    LET number == <<ToString(t.n)>>
        sorts  == CASE Len(t.o) = 0 -> <<>> [] Len(t.o) = 1 -> WriteSort(t.o[1]) [] OTHER -> WriteSort(t.o[1]) \o WriteSort(t.o[2])
    IN  <<"(", WireTag[t.k]>> \o sorts \o (IF t.k = "app" THEN number ELSE <<>>) \o WriteAll(t.s)
        \o (CASE t.k \in {"var", "const", "idxop"} -> number
              [] t.k = "lit" -> <<"(", IF t.x = "int" THEN "i" ELSE "b">> \o number \o <<")">>
              [] OTHER -> <<>>)
        \o <<")">>

WriteAtom(a) ==
    IF a.k = "qfree" THEN <<"(", "qf", ToString(a.n), ")">>
    ELSE <<"(", "r", a.x>> \o WriteAll(a.s) \o <<")">>

RECURSIVE WriteFrm(_)
WriteFrm(p) ==
    IF p.k \in {"rel", "qfree"} THEN <<"(", "at">> \o WriteAtom(p) \o <<")">>
    ELSE <<"(", WireTag[p.k]>> \o (IF p.o = <<>> THEN <<>> ELSE WriteSort(p.o[1]))
         \o WriteFrm(p.s[1]) \o (IF Len(p.s) = 2 THEN WriteFrm(p.s[2]) ELSE <<>>) \o <<")">>

(* A reader returns [ok, v, i]: what it read and where it stopped. *)
Got(v, i) == [ok |-> TRUE, v |-> v, i |-> i]
Bad == [ok |-> FALSE, v |-> 0, i |-> 0]
Tok(w, i) == IF i \in DOMAIN w THEN w[i] ELSE ""
After(r, next(_)) == IF r.ok THEN next(r) ELSE Bad
Shut(w, i, v) == IF Tok(w, i) = ")" THEN Got(v, i + 1) ELSE Bad
ReadInt(w, i, least) ==
    LET ns == {n \in least..9 : ToString(n) = Tok(w, i)} IN IF ns = {} THEN Bad ELSE Got(CHOOSE n \in ns : TRUE, i + 1)

RECURSIVE ReadSort(_, _)
ReadSort(w, i) ==
    CASE Tok(w, i) # "(" -> Bad
      [] Tok(w, i + 1) = "s" -> After(ReadSort(w, i + 2), LAMBDA o : Shut(w, o.i, SeqOf(o.v)))
      [] Tok(w, i + 1) = "m" /\ Tok(w, i + 2) \in DOMAIN MachWidth -> Shut(w, i + 3, <<Tok(w, i + 2)>>)
      [] Tok(w, i + 1) = "o" -> Shut(w, i + 3, <<Tok(w, i + 2)>>)
      [] OTHER -> Bad

(* (i n) or (b 0), (b 1), and the end of the literal it is in *)
ReadLit(w, i, o) ==
    IF Tok(w, i) # "(" \/ Tok(w, i + 1) \notin {"i", "b"} THEN Bad
    ELSE After(ReadInt(w, i + 2, IF Tok(w, i + 1) = "i" THEN -9 ELSE 0), LAMBDA n :
            IF Tok(w, i + 1) = "b" /\ n.v > 1 THEN Bad
            ELSE After(Shut(w, n.i, n.v), LAMBDA z :
                    Shut(w, z.i, [IntOf(o, n.v) EXCEPT !.x = IF Tok(w, i + 1) = "i" THEN "int" ELSE "bool"])))

RECURSIVE ReadTm(_, _)
ReadSorted(w, i, tag) ==
    After(ReadSort(w, i), LAMBDA o :
        CASE tag \in {"v", "c"} -> After(ReadInt(w, o.i, 0), LAMBDA n : Shut(w, n.i, Tm(IF tag = "v" THEN "var" ELSE "const", <<o.v>>, n.v, <<>>)))
          [] tag = "l"  -> ReadLit(w, o.i, o.v)
          [] tag = "rd" -> After(ReadTm(w, o.i), LAMBDA t : After(ReadTm(w, t.i), LAMBDA u : Shut(w, u.i, Read(o.v, t.v, u.v))))
          [] tag = "ct" -> After(ReadTm(w, o.i), LAMBDA t : Shut(w, t.i, CastTo(o.v, t.v)))
          [] tag = "a1" -> After(ReadSort(w, o.i), LAMBDA r : After(ReadInt(w, r.i, 0), LAMBDA f :
                               After(ReadTm(w, f.i), LAMBDA t : Shut(w, t.i, App1(o.v, r.v, f.v, t.v))))))

ReadTm(w, i) ==
    LET tag == Tok(w, i + 1)
    IN  CASE Tok(w, i) # "(" -> Bad
          [] tag \in {"v", "c", "l", "rd", "ct", "a1"} -> ReadSorted(w, i + 2, tag)
          [] tag \in {"ln", "ix", "ml"} ->
                After(ReadTm(w, i + 2), LAMBDA t :
                    CASE tag = "ln" -> Shut(w, t.i, LenOf(t.v))
                      [] tag = "ix" -> After(ReadInt(w, t.i, -9), LAMBDA n : Shut(w, n.i, IdxOp(t.v, n.v)))
                      [] tag = "ml" -> After(ReadTm(w, t.i), LAMBDA u : Shut(w, u.i, Mul(t.v, u.v))))
          [] OTHER -> Bad

ReadAtom(w, i) ==
    CASE Tok(w, i) # "(" -> Bad
      [] Tok(w, i + 1) = "qf" -> After(ReadInt(w, i + 2, 0), LAMBDA n : Shut(w, n.i, QFree(n.v)))
      [] Tok(w, i + 1) = "r" /\ Tok(w, i + 2) \in {"eq", "ne", "lt", "le", "gt", "ge"} ->
            After(ReadTm(w, i + 3), LAMBDA t : After(ReadTm(w, t.i), LAMBDA u : Shut(w, u.i, Rel(Tok(w, i + 2), t.v, u.v))))
      [] OTHER -> Bad

RECURSIVE ReadFrm(_, _)
ReadFrm(w, i) ==
    LET tag == Tok(w, i + 1)
    IN  CASE Tok(w, i) # "(" -> Bad
          [] tag = "at" -> After(ReadAtom(w, i + 2), LAMBDA a : Shut(w, a.i, a.v))
          [] tag = "ng" -> After(ReadFrm(w, i + 2), LAMBDA p : Shut(w, p.i, Neg(p.v)))
          [] tag \in {"cj", "dj", "im"} ->
                After(ReadFrm(w, i + 2), LAMBDA p : After(ReadFrm(w, p.i), LAMBDA q :
                    Shut(w, q.i, CASE tag = "cj" -> Conj(p.v, q.v) [] tag = "dj" -> Disj(p.v, q.v) [] OTHER -> Imp(p.v, q.v))))
          [] tag \in {"al", "ex"} ->
                After(ReadSort(w, i + 2), LAMBDA o : After(ReadFrm(w, o.i), LAMBDA p :
                    Shut(w, p.i, IF tag = "al" THEN All(o.v, p.v) ELSE Ex(o.v, p.v))))
          [] OTHER -> Bad

(* parse_frm: the whole input is one formula. *)
ParseFrm(w) == After(ReadFrm(w, 1), LAMBDA r : IF r.i = Len(w) + 1 THEN r ELSE Bad)

(***************************************************************************)
(* The canonical text of a source tree, as tokens: what the evidence of a  *)
(* clause is filed under and what decides whether two leaves are one.      *)
(***************************************************************************)
OpName == [o \in BinOps |->
    CASE o = "+" -> "add" [] o = "-" -> "sub" [] o = "*" -> "mul" [] o = "/" -> "div" [] o = "%" -> "rem"
      [] o = "<<" -> "shl" [] o = ">>" -> "shr" [] o = "&" -> "bit-and" [] o = "|" -> "bit-or" [] o = "^" -> "bit-xor"
      [] o = "==" -> "eq" [] o = "!=" -> "ne" [] o = "<" -> "lt" [] o = "<=" -> "le" [] o = ">" -> "gt" [] o = ">=" -> "ge"
      [] o = "&&" -> "and" [] OTHER -> "or"]

None  == <<"(", "none", ")">>
Paren(head, rest) == <<"(">> \o head \o rest \o <<")">>

RECURSIVE Written(_)
RECURSIVE WrittenAll(_)
WrittenAll(es) == IF es = <<>> THEN <<>> ELSE Written(es[1]) \o WrittenAll(Tail(es))

(* Mutant: the form of a half-open index is not written. *)
WriteIndexLoosely(e) == Paren(<<IF e.x = "single" THEN "one" ELSE "range">>, WrittenAll(Tail(e.s)))

(* write_index: its form, and its one or two bounds *)
WriteIndex(e) == Paren(<<IF e.x = "single" THEN "one" ELSE e.x>>, WrittenAll(Tail(e.s)))

(* write_arm: pattern, guard or none, body *)
WriteArm(a) == Paren(<<"arm">>, Written(a.s[1]) \o (IF a.n = 1 THEN Written(a.s[2]) ELSE None) \o Written(a.s[Len(a.s)]))

WriteBlock(b) == Paren(<<"block">>, WrittenAll(Stmts(b)) \o (IF HasTail(b) THEN Written(TailOf(b)) ELSE None))

(* write_pattern: the head of a pattern; its parts follow. *)
WritePattern(q) ==
    CASE q.k = "wild" -> <<"(", "wild", ")">>
      [] q.k = "lit"  -> Paren(<<"literal">>, WrittenAll(q.s))
      [] q.k = "bind" -> <<"(", "bind", q.x, ")">>
      [] q.k \in {"slice", "or"} -> Paren(<<q.k>>, WrittenAll(q.s))
      [] q.k = "enum" -> Paren(<<"enum", q.x>>, WrittenAll(q.s))
      [] q.k = "structpat" -> Paren(<<"struct", q.x>>, WrittenAll(q.s) \o <<IF q.n = 1 THEN "rest" ELSE "closed">>)

(* write_type *)
WriteType(ty) ==
    CASE ty.k = "prim"  -> <<"(", ty.x, ")">>
      [] ty.k = "refty" -> Paren(<<"ref", IF ty.n = 1 THEN "mut" ELSE "imm">>, WrittenAll(ty.s))
      [] ty.k \in {"generic", "named"} -> Paren(<<ty.k, ty.x>>, WrittenAll(ty.s))
      [] OTHER -> Paren(<<ty.k>>, WrittenAll(ty.s))

(* write_stmt *)
WriteStmt(t) ==
    CASE t.k = "let" -> Paren(<<"let", IF t.n = 1 THEN "mut" ELSE "imm", t.x>>,
                              (IF Len(t.s) = 2 THEN <<>> ELSE <<"(", "infer", ")">>) \o WrittenAll(t.s))
      [] t.k = "return" -> Paren(<<"return">>, IF t.s = <<>> THEN None ELSE WrittenAll(t.s))
      [] t.k = "ifstmt" -> Paren(<<"stmt-if">>, WrittenAll(t.s) \o (IF Len(t.s) = 2 THEN None ELSE <<>>))
      [] t.k = "loop"   -> Paren(<<"loop", "(", "forever", ")">>, WrittenAll(t.s))
      [] t.k = "while"  -> Paren(<<"loop">>, Paren(<<"while">>, Written(t.s[1])) \o WrittenAll(Tail(t.s)))
      [] OTHER -> Paren(<<t.k>>, WrittenAll(t.s))

(* write_expr; names carry their length, so a name is one token. *)
Written(e) ==
    LET parts == WrittenAll(e.s)
    IN  CASE e.k \in StmtKinds \ {"expr"} -> WriteStmt(e)
          [] e.k \in PatternKinds -> WritePattern(e)
          [] e.k \in TypeKinds -> WriteType(e)
          [] e.k = "block" -> WriteBlock(e)
          [] e.k = "arm"   -> WriteArm(e)
          [] e.k \in {"int", "bool"} -> <<"(", e.k, ToString(e.n), ")">>
          [] e.k \in {"path", "str"} -> <<"(", e.k, e.x, ")">>
          [] e.k \in {"call", "method", "field", "struct", "is", "init", "rest"} -> Paren(<<e.k, e.x>>, parts)
          [] e.k = "binary" -> Paren(<<"bin", OpName[e.x]>>, parts)
          [] e.k = "unary"  -> Paren(<<"un", "not">>, parts)
          [] e.k = "index"  -> Paren(<<"index">>, Written(e.s[1]) \o WriteIndex(e))
          [] e.k = "cast"   -> Paren(<<"cast", "(", e.x, ")">>, parts)
          [] e.k = "ref"    -> Paren(<<"ref", IF e.n = 1 THEN "mut" ELSE "imm">>, parts)
          [] e.k = "proj"   -> Paren(<<"tuple-proj", ToString(e.n)>>, parts)
          [] e.k = "quant"  -> Paren(<<e.x>>, parts)
          [] OTHER          -> Paren(<<e.k>>, parts)

(***************************************************************************)
(* The bridge.  D declares the values of the function in the order of      *)
(* their names, <<name, type>>, and the specification functions, <<name,   *)
(* types of the parameters, type of the result>>.  The sort of a binder is *)
(* the child of its name.  An error is "unsupported" where a leaf without  *)
(* quantifiers may stand in, else "refused".                               *)
(***************************************************************************)
LiteralMax == 8      \* i128::MAX
OffsetMax  == 7      \* i64::MAX

(* OpaqueSorts::type_sort; no sort for options, results, maps, tuples, boxes *)
RECURSIVE TypeSort(_)
TypeSort(ty) ==
    CASE ty.k \in {"prim", "named"} -> <<ty.x>>
      [] ty.k = "refty"  -> TypeSort(ty.s[1])
      [] ty.k \in {"slicety", "vec"} -> LET o == TypeSort(ty.s[1]) IN IF o = <<>> THEN <<>> ELSE SeqOf(o)
      [] ty.k = "string" -> SeqOf(<<"u8">>)
      [] OTHER           -> <<>>

(* collect_constants and collect_functions: a value without a sort is an error, *)
(* a function without one, or not of one parameter, is left out.                *)
ConstantsOk(D)  == \A i \in DOMAIN D.values : TypeSort(D.values[i][2]) # <<>>
Known(D)        == SelectSeq(D.functions, LAMBDA f : Len(f[2]) = 1 /\ TypeSort(f[2][1]) # <<>> /\ TypeSort(f[3]) # <<>>)
At(list, x)     == {i \in DOMAIN list : list[i][1] = x}
The(set)        == CHOOSE i \in set : TRUE
ConstantOf(D, x) == LET i == The(At(D.values, x)) IN Const(TypeSort(D.values[i][2]), i - 1)
FunctionOf(D, f) == LET i == The(At(Known(D), f)) IN [id |-> i - 1, arg |-> TypeSort(Known(D)[i][2][1]), res |-> TypeSort(Known(D)[i][3])]

Done(v)    == [ok |-> TRUE, v |-> v]
Fail(why)  == [ok |-> FALSE, v |-> why]

(* bs are the binders around a place, <<name, sort>>, the innermost first. *)
Bound(bs, x) == At(bs, x)
Innermost(set) == CHOOSE i \in set : \A j \in set : i <= j

(* literal_offset *)
IsLiteral(e) == e.k = "int"
Offset(t, e, sign) ==
    IF e.n > OffsetMax THEN Fail("refused") ELSE IF t.ok THEN Done(IdxOp(t.v, sign * e.n)) ELSE t

RECURSIVE TermOf(_, _, _, _)
TermOf(e, bs, want, D) ==
    LET part(i, o) == TermOf(e.s[i], bs, o, D)
        none == <<>>
    IN  CASE e.k = "int"  -> IF e.n > LiteralMax THEN Fail("refused") ELSE Done(IntOf(IF want = none THEN UsizeS ELSE want, e.n))
          [] e.k = "bool" -> Done(BoolOf(e.n))
          [] e.k = "path" /\ e.n = 1 ->
                IF Bound(bs, e.x) # {} THEN LET i == Innermost(Bound(bs, e.x)) IN Done(Var(bs[i][2], i - 1))
                ELSE IF At(D.values, e.x) # {} THEN Done(ConstantOf(D, e.x)) ELSE Fail("refused")
          [] e.k = "index" /\ e.x = "single" ->
                CASE ~part(1, none).ok -> part(1, none)
                  [] ~IsSeq(SortOf(part(1, none).v)) -> Fail("refused")
                  [] ~part(2, none).ok -> part(2, none)
                  [] OTHER -> Done(Read(ElemOf(SortOf(part(1, none).v)), part(1, none).v, part(2, none).v))
          [] e.k = "method" /\ e.x = "len" /\ Len(e.s) = 1 ->
                IF part(1, none).ok THEN Done(LenOf(part(1, none).v)) ELSE part(1, none)
          [] e.k = "cast" -> IF part(1, none).ok THEN Done(CastTo(<<e.x>>, part(1, none).v)) ELSE part(1, none)
          [] e.k = "binary" /\ e.x = "+" ->
                CASE IsLiteral(e.s[2]) -> Offset(part(1, want), e.s[2], 1)
                  [] IsLiteral(e.s[1]) -> Offset(part(2, want), e.s[1], 1)
                  [] OTHER -> Fail("unsupported")
          [] e.k = "binary" /\ e.x = "-" -> IF IsLiteral(e.s[2]) THEN Offset(part(1, want), e.s[2], -1) ELSE Fail("unsupported")
          [] e.k = "binary" /\ e.x = "*" ->
                IF ~part(1, want).ok THEN part(1, want)
                ELSE IF ~part(2, want).ok THEN part(2, want) ELSE Done(Mul(part(1, want).v, part(2, want).v))
          [] e.k = "call" ->
                IF At(Known(D), e.x) = {} \/ Len(e.s) # 1 THEN Fail("refused")
                ELSE LET f == FunctionOf(D, e.x)
                         t == part(1, f.arg)
                     IN  IF ~t.ok THEN t ELSE IF SortOf(t.v) # f.arg THEN Fail("refused") ELSE Done(App1(f.arg, f.res, f.id, t.v))
          [] OTHER -> Fail("unsupported")

(* reconcile_hints *)
Reconcile(a, b) ==
    CASE ~a.ok -> a
      [] ~b.ok -> b
      [] a.v # <<>> /\ b.v # <<>> /\ a.v # b.v -> Fail("refused")
      [] OTHER -> IF a.v # <<>> THEN a ELSE b

RECURSIVE InferSort(_, _, _)
InferSort(e, bs, D) ==
    CASE e.k = "bool" -> Done(BoolS)
      [] e.k = "path" /\ e.n = 1 ->
            IF Bound(bs, e.x) # {} THEN Done(bs[Innermost(Bound(bs, e.x))][2])
            ELSE IF At(D.values, e.x) # {} THEN Done(SortOf(ConstantOf(D, e.x))) ELSE Fail("refused")
      [] e.k = "index" ->
            LET o == InferSort(e.s[1], bs, D)
            IN  IF ~o.ok THEN o ELSE IF o.v = <<>> THEN Fail("unsupported")
                ELSE IF IsSeq(o.v) THEN Done(ElemOf(o.v)) ELSE Fail("refused")
      [] e.k = "method" /\ e.x = "len" /\ Len(e.s) = 1 -> Done(UsizeS)
      [] e.k = "cast" -> Done(<<e.x>>)
      [] e.k = "binary" /\ e.x \in Arithmetic -> Reconcile(InferSort(e.s[1], bs, D), InferSort(e.s[2], bs, D))
      [] e.k = "call" /\ At(Known(D), e.x) # {} -> Done(FunctionOf(D, e.x).res)
      [] OTHER -> Done(<<>>)

(* Bridge::relation_atom *)
RelationAtom(e, bs, D) ==
    LET hint == Reconcile(InferSort(e.s[1], bs, D), InferSort(e.s[2], bs, D))
        o == IF hint.v = <<>> THEN UsizeS ELSE hint.v
        l == TermOf(e.s[1], bs, o, D)
        r == TermOf(e.s[2], bs, o, D)
    IN  CASE ~hint.ok -> hint [] ~l.ok -> l [] ~r.ok -> r
          [] SortOf(l.v) # SortOf(r.v) -> Fail("refused")
          [] OTHER -> Done(Rel(OpName[e.x], l.v, r.v))

(* uses_bound *)
RECURSIVE NamesIn(_)
NamesIn(e) ==
    IF e.k = "path" THEN (IF e.n = 1 THEN {e.x} ELSE {})
    ELSE UNION {NamesIn(e.s[i]) : i \in (IF e.k \in {"quant", "closure"} THEN 2..Len(e.s) ELSE DOMAIN e.s)}
UsesBound(e, bs) == \E i \in DOMAIN bs : bs[i][1] \in NamesIn(e)

RECURSIVE QFreeTerm(_, _, _)
QFreeTerm(e, D, bv) ==
    LET parts == \A i \in DOMAIN e.s : QFreeTerm(e.s[i], D, bv)
    IN  CASE e.k = "int"  -> TRUE
          [] e.k = "path" -> /\ e.n = 1 /\ At(D.values, e.x) # {}
                             /\ SortOf(ConstantOf(D, e.x)) \in {<<m>> : m \in DOMAIN MachWidth \ {"bool"}}
          [] e.k = "binary" /\ e.x \in {"+", "-"} -> parts
          [] e.k = "binary" /\ e.x = "*" -> (bv \/ IsLiteral(e.s[1]) \/ IsLiteral(e.s[2])) /\ parts
          [] e.k = "binary" /\ e.x \in Division \cup Shifts \cup BitOps -> bv /\ parts
          [] e.k = "unary" -> bv /\ parts
          [] e.k = "cast"  -> parts
          [] OTHER         -> FALSE

RECURSIVE QFreeFormula(_, _, _)
QFreeFormula(e, D, bv) ==
    CASE e.k = "bool" -> TRUE
      [] e.k = "binary" /\ e.x \in Comparisons -> QFreeTerm(e.s[1], D, bv) /\ QFreeTerm(e.s[2], D, bv)
      [] e.k = "binary" /\ e.x \in Connectives -> QFreeFormula(e.s[1], D, bv) /\ QFreeFormula(e.s[2], D, bv)
      [] e.k = "unary" -> QFreeFormula(e.s[1], D, bv)
      [] OTHER -> FALSE

(* Bridge::qfree: the leaf of this text and this fragment, a new one if there is none *)
Leaf(e, bv, st) ==
    LET same == {i \in DOMAIN st.atoms : st.atoms[i].bv = bv /\ Written(st.atoms[i].e) = Written(e)}
    IN  IF same # {} THEN [ok |-> TRUE, v |-> QFree(The(same) - 1), st |-> st]
        ELSE [ok |-> TRUE, v |-> QFree(Len(st.atoms)), st |-> [st EXCEPT !.atoms = Append(@, [e |-> e, bv |-> bv])]]

(* lift_tm: a term moved below one more binder *)
RECURSIVE LiftTm(_, _)
LiftTm(t, cutoff) ==
    IF t.k = "var" THEN (IF t.n < cutoff THEN t ELSE [t EXCEPT !.n = @ + 1])
    ELSE [t EXCEPT !.s = [i \in DOMAIN t.s |-> LiftTm(t.s[i], cutoff)]]

(* The sort of a binder and the range 0 <= v < len(domain) it is given *)
BinderSort(e) == <<e.s[1].s[1].x>>
(* Mutant: the domain is put below the binder as it is. *)
GuardUnlifted(o, domain) == Conj(Rel("le", IntOf(o, 0), Var(o, 0)), Rel("lt", Var(o, 0), LenOf(domain)))
Guard(o, domain) == Conj(Rel("le", IntOf(o, 0), Var(o, 0)), Rel("lt", Var(o, 0), LenOf(LiftTm(domain, 0))))

Settled(r, st) == [ok |-> r.ok, v |-> r.v, st |-> st]

(* A failed term is a leaf if nothing bound occurs in it and it is a formula of the fragment. *)
OrLeaf(r, e, bs, D, bv, st) ==
    IF ~r.ok /\ r.v = "unsupported" /\ ~UsesBound(e, bs) /\ QFreeFormula(e, D, bv) THEN Leaf(e, bv, st) ELSE Settled(r, st)

(* Bridge::formula *)
RECURSIVE FormulaOf(_, _, _, _, _)
FormulaOf(e, bs, D, bv, st) ==
    CASE e.k = "binary" /\ e.x \in Connectives ->
            LET l == FormulaOf(e.s[1], bs, D, bv, st)
                r == FormulaOf(e.s[2], bs, D, bv, l.st)
            IN  IF ~l.ok THEN l ELSE IF ~r.ok THEN r
                ELSE [r EXCEPT !.v = IF e.x = "&&" THEN Conj(l.v, r.v) ELSE Disj(l.v, r.v)]
      [] e.k = "binary" /\ e.x \in Comparisons -> OrLeaf(RelationAtom(e, bs, D), e, bs, D, bv, st)
      [] e.k = "unary" -> LET p == FormulaOf(e.s[1], bs, D, bv, st) IN IF p.ok THEN [p EXCEPT !.v = Neg(p.v)] ELSE p
      [] e.k = "quant" ->
            LET o == BinderSort(e)
                d == TermOf(e.s[2], bs, <<>>, D)
                p == FormulaOf(e.s[3], <<<<e.s[1].x, o>>>> \o bs, D, bv, [st EXCEPT !.domains = Append(@, <<o, e.s[2]>>)])
            IN  CASE ~d.ok -> Settled(d, st)
                  [] ~IsSeq(SortOf(d.v)) -> Settled(Fail("refused"), st)
                  [] ~p.ok -> p
                  [] e.x = "forall" -> [p EXCEPT !.v = All(o, Imp(Guard(o, d.v), p.v))]
                  [] OTHER -> [p EXCEPT !.v = Ex(o, Conj(Guard(o, d.v), p.v))]
      [] e.k = "bool" -> Leaf(e, bv, st)
      [] OTHER ->
            LET t == TermOf(e, bs, BoolS, D)
            IN  OrLeaf(IF t.ok THEN (IF SortOf(t.v) = BoolS THEN Done(Rel("eq", t.v, BoolOf(1))) ELSE Fail("refused")) ELSE t,
                       e, bs, D, bv, st)

NoLeaves == [domains |-> <<>>, atoms |-> <<>>]

(* from_clause and from_obligation: a premise and the negated conclusion *)
FromClause(e, D, bv) == IF ConstantsOk(D) THEN FormulaOf(e, <<>>, D, bv, NoLeaves) ELSE Settled(Fail("refused"), NoLeaves)
FromObligation(premise, conclusion, D, bv) ==
    LET p == FromClause(premise, D, bv)
        c == FormulaOf(conclusion, <<>>, D, bv, p.st)
    IN  IF ~p.ok THEN p ELSE IF ~c.ok THEN c ELSE [c EXCEPT !.v = Conj(p.v, Neg(c.v))]

(***************************************************************************)
(* What the two sides mean, in a structure M: M.values are the values of   *)
(* the names, M.functions those of the functions; every sort has the       *)
(* elements 0..M.top.                                                      *)
(***************************************************************************)
ElementAt(sq, i) == IF i + 1 \in DOMAIN sq THEN sq[i + 1] ELSE 0
Image(M, f, v)   == M.functions[f][v % (M.top + 1)]
Related(r, a, b) ==
    CASE r = "eq" -> a = b [] r = "ne" -> a # b [] r = "lt" -> a < b [] r = "le" -> a <= b [] r = "gt" -> a > b [] OTHER -> a >= b

RECURSIVE SourceValue(_, _, _)
SourceValue(e, env, M) ==
    LET part(i) == SourceValue(e.s[i], env, M)
    IN  CASE e.k \in {"int", "bool"} -> e.n
          [] e.k = "path"   -> env[e.x]
          [] e.k = "index"  -> ElementAt(part(1), part(2))
          [] e.k = "method" -> Len(part(1))
          [] e.k = "cast"   -> part(1)
          [] e.k = "call"   -> Image(M, e.x, part(1))
          [] e.k = "unary"  -> 1 - part(1)
          [] e.k = "binary" /\ e.x \in {"==", "!="} -> Flag((part(1) = part(2)) = (e.x = "=="))
          [] e.k = "binary" -> Apply(e.x, part(1), part(2), 8).v
          [] e.k = "quant"  ->
                LET holds == {v \in 0..(Len(part(2)) - 1) : SourceValue(e.s[3], [y \in DOMAIN env \cup {e.s[1].x} |-> IF y = e.s[1].x THEN v ELSE env[y]], M) = 1}
                IN  Flag(IF e.x = "forall" THEN holds = 0..(Len(part(2)) - 1) ELSE holds # {})

RECURSIVE TermValue(_, _, _, _)
TermValue(t, vs, D, M) ==
    LET part(i) == TermValue(t.s[i], vs, D, M)
    IN  CASE t.k = "var"   -> vs[t.n + 1]
          [] t.k = "const" -> M.values[D.values[t.n + 1][1]]
          [] t.k = "lit"   -> t.n
          [] t.k = "read"  -> ElementAt(part(1), part(2))
          [] t.k = "len"   -> Len(part(1))
          [] t.k = "cast"  -> part(1)
          [] t.k = "idxop" -> part(1) + t.n
          [] t.k = "mul"   -> part(1) * part(2)
          [] t.k = "app"   -> Image(M, Known(D)[t.n + 1][1], part(1))

RECURSIVE Holds(_, _, _, _, _)
Holds(p, vs, atoms, D, M) ==
    LET part(i) == Holds(p.s[i], vs, atoms, D, M)
    IN  CASE p.k = "rel"   -> Related(p.x, TermValue(p.s[1], vs, D, M), TermValue(p.s[2], vs, D, M))
          [] p.k = "qfree" -> SourceValue(atoms[p.n + 1].e, M.values, M) = 1
          [] p.k = "neg"   -> ~part(1)
          [] p.k = "conj"  -> part(1) /\ part(2)
          [] p.k = "disj"  -> part(1) \/ part(2)
          [] p.k = "imp"   -> part(1) => part(2)
          [] p.k = "all"   -> \A v \in 0..M.top : Holds(p.s[1], <<v>> \o vs, atoms, D, M)
          [] p.k = "ex"    -> \E v \in 0..M.top : Holds(p.s[1], <<v>> \o vs, atoms, D, M)

(***************************************************************************)
(* Reference for admission: the terms that instantiation makes.  deep[o]   *)
(* bounds how deeply functions are nested in the ground terms of sort o; a *)
(* universal variable stands for any of them, an existential one for a     *)
(* function of the universals around it, and an offset stays where it is.  *)
(* The terms are finitely many if the bounds settle.                       *)
(***************************************************************************)
Largest(S) == IF S = {} THEN 0 ELSE CHOOSE m \in S : \A n \in S : n <= m
SkolemDepth(outer, deep) == 1 + Largest({deep[o] : o \in UnivSorts(outer)})

RECURSIVE TermDepth(_, _, _)
TermDepth(t, ctx, deep) ==
    LET parts == Largest({TermDepth(t.s[i], ctx, deep) : i \in DOMAIN t.s})
    IN  CASE t.k = "var" /\ t.n < Len(ctx) ->
                IF ctx[t.n + 1][1] THEN deep[ctx[t.n + 1][2]] ELSE SkolemDepth(SubSeq(ctx, t.n + 2, Len(ctx)), deep)
          [] t.k \in {"var", "const", "lit"} -> 0
          [] t.k \in {"idxop", "mul"} -> parts
          [] OTHER -> 1 + parts

(* All terms of a formula with the binders around them *)
RECURSIVE Occurrences(_, _)
Occurrences(p, ctx) ==
    CASE p.k \in {"all", "ex"} -> Occurrences(p.s[1], <<<<p.k = "all", p.o[1]>>>> \o ctx)
      [] p.k = "qfree" -> {}
      [] p.k \in DOMAIN WireTag \ {"neg", "conj", "disj", "imp"} -> {<<p, ctx>>} \cup UNION {Occurrences(p.s[i], ctx) : i \in DOMAIN p.s}
      [] OTHER -> UNION {Occurrences(p.s[i], ctx) : i \in DOMAIN p.s}

RECURSIVE Deepened(_, _, _)
Deepened(occ, deep, rounds) ==
    IF rounds = 0 THEN deep
    ELSE Deepened(occ, [o \in DOMAIN deep |->
             Largest({deep[o]} \cup {TermDepth(c[1], c[2], deep) : c \in {d \in occ : SortOf(d[1]) = o}})], rounds - 1)

(* The bounds of the terms settle, after as many rounds as there are sorts. *)
FinitelyGrounded(p) ==
    LET occ   == Occurrences(Nnf(p), <<>>)
        sorts == {SortOf(c[1]) : c \in occ} \cup UNION {{c[2][i][2] : i \in DOMAIN c[2]} : c \in occ}
        last  == Deepened(occ, [o \in sorts |-> 0], Cardinality(sorts) + 1)
    IN  Deepened(occ, last, 1) = last

(* A sequence that depends on a bound variable is read at an index that does not. *)
ReadsBoundSequence(p) ==
    \E c \in Occurrences(Nnf(p), <<>>) :
        c[1].k = "read" /\ HasScopedVar(c[2], c[1].s[1]) /\ ~HasScopedVar(c[2], c[1].s[2])
===================================================================================
