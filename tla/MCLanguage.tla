-------------------------------- MODULE MCLanguage --------------------------------
(***************************************************************************)
(* The algorithms of the language tools, each asked about every member of  *)
(* a small set of inputs: a behaviour chooses an algorithm and an input,   *)
(* and then the algorithm answers.                                         *)
(***************************************************************************)
EXTENDS Surface

CONSTANTS MaxDepth, StringCap, Word, Pending

VARIABLES area, given, answer, claim
vars == <<area, given, answer, claim>>

Parsing  == INSTANCE Parser WITH MaxRecursionDepth <- MaxDepth, Bv <- FALSE
Lowering == INSTANCE ProgramLowering
Front    == INSTANCE Prelude WITH Cap <- StringCap, MaxWord <- Word
Real     == INSTANCE Relax
Checking == INSTANCE TranslationValidation
Strat    == INSTANCE StratFragment
Probing  == INSTANCE BodyProbes
Gate     == INSTANCE Admission WITH MaxContractDepth <- MaxDepth, MaxWalkDepth <- MaxDepth
Lean     == INSTANCE LeanExport

X == Path("x")
Just(e) == <<Block(<<>>, <<e>>)>>

(***************************************************************************)
(* Inputs.                                                                 *)
(***************************************************************************)
(* Trees of two operators, one of each kind of operand. *)
Grown(A, B) ==
    {Binary(op, a, b) : op \in {"||", "&&", "<", "|", "&", "<<", "+", "*"}, a \in A, b \in B}
    \cup UNION {{Not(a), Cast(a, "u8"), Field(a, "f"), Method("m", a, <<X>>), Index(a, X), Deref(a), Ref(a),
                 Call("g", <<a>>), Is(a, "V"), Closure("x", a), Quant("forall", "i", a, X),
                 Quant("forall", "i", X, a), Tuple(<<a, X>>)} : a \in A}
OneOp  == {X, Node("struct", "S", 1, <<Node("init", "f", 0, <<X>>)>>)} \cup Grown({X}, {X})
Trees  == Grown(OneOp, {X}) \cup Grown({X}, OneOp)

Loop(e) == While(e, <<e>>, e, Block(<<Assign(X, e), Node("continue", "", 0, <<>>)>>, <<>>))
Blocks ==
    UNION {{Block(<<Let("y", e), Return(e)>>, <<>>), Block(<<IfStmt(e, Block(<<Return(X)>>, <<>>))>>, <<e>>),
            Block(<<IfElse(e, Block(<<>>, <<>>), Block(<<Loop(e)>>, <<>>)), Node("expr", "", 0, <<e>>)>>, <<>>),
            Block(<<Loop(e)>>, <<If(e, Block(<<>>, <<X>>), Block(<<>>, <<e>>))>>)} :
           e \in {X, Node("struct", "S", 1, <<Node("init", "f", 0, <<X>>)>>), Not(X), Cast(X, "u8")}}

(* What the lowering is given: operators of operators, casts, calls, methods and *)
(* indices, in a specification and in code.                                      *)
LowerContext(spec) ==
    [spec |-> spec, slices |-> {"s"}, strings |-> {"t"}, stringFields |-> {"name"}, owned |-> {"t"},
     natFns |-> {"sum"}, natRet |-> FALSE, userString |-> {}, variants |-> [V |-> "E"],
     paramTypes |-> [g |-> <<"u8">>]]
Operated(A, B) ==
    {Binary(op, a, b) : op \in {"||", "==", "<", "|", "&", "<<", "-", "*"}, a \in A, b \in B}
    \cup UNION {{Not(a), Cast(a, "u8"), Method("m", X, <<a>>), Method("get", Path("v"), <<a>>),
                 Index(Path("s"), a), Ref(a), Call("g", <<a>>), Call("sum", <<a>>), Call("sep_free", <<a>>),
                 Tuple(<<a, X>>)} : a \in A}
    \cup {Field(X, "f"), Method("len", Path("t"), <<>>), Method("last", Path("v"), <<>>), Is(X, "V")}
Operands == {X, Path("s"), Path("t"), Lit(1)} \cup Operated({X}, {X}) \cup Operated({Path("t")}, {X})
(* & is not applied to what binds less tightly than it. *)
Borrowable(e) == \A u \in Subtrees(e) : u.k = "ref" => u.s[1].k \notin {"cast", "binary", "unary"}
LateCasts == {Binary(op, Binary(inner, X, Cast(X, "u8")), X) : op \in {"<", "<<", "-", "=="}, inner \in {"<", "<<", "-", "*"}}
Formulas == {e \in Operated(Operands, {X}) \cup Operated({X}, Operands) \cup LateCasts : Borrowable(e)}

(* Files with two structs, an enum, two specification functions and two functions *)
(* that may name each other.                                                      *)
Named(x) == Node("named", x, 0, <<>>)
U64      == Node("prim", "u64", 0, <<>>)
Item(kind, types) ==
    [kind |-> kind, types |-> types, req |-> <<>>, ens |-> <<>>, dec |-> <<>>, body |-> <<>>, inv |-> <<>>,
     variants |-> {}, diverge |-> FALSE]
Arm(q, e) == Node("arm", "", 0, <<q, e>>)
GuardedArm(q, c, e) == Node("arm", "", 1, <<q, c, e>>)
Match(e, arms) == Node("match", "", 0, <<e>> \o arms)
Wild == Node("wild", "", 0, <<>>)
FnBodies ==
    {Just(Call("g", <<X>>)), Just(Node("match", "", 0, <<X, Arm(Node("enum", "V", 1, <<>>), Call("p", <<X>>))>>)),
     <<Block(<<Node("let", "y", 1, <<Named("S"), Call("g", <<X>>)>>)>>, <<X>>)>>,
     <<Block(<<While(Lit(1), <<Call("p", <<X>>)>>, X, Block(<<Return(Node("struct", "T", 0, <<Lit(1)>>))>>, <<>>))>>,
             <<>>)>>}
Files ==
    {[S |-> [Item("struct", fs) EXCEPT !.inv = si],
      T |-> Item("struct", <<Node("box", "", 0, <<Named("E")>>)>>),
      E |-> [Item("enum", <<U64>>) EXCEPT !.variants = {"V"}],
      p |-> [Item("spec", <<U64>>) EXCEPT !.dec = <<pd>>, !.body = pb],
      q |-> [Item("spec", <<U64>>) EXCEPT !.dec = <<Lit(0)>>, !.body = qb],
      f |-> [Item("fn", <<U64>>) EXCEPT !.req = <<Is(X, "V")>>, !.ens = <<Call("p", <<X>>)>>, !.dec = fd, !.body = fb],
      g |-> [Item("fn", <<U64>>) EXCEPT !.body = gb]] :
     fs \in {<<U64>>, <<Node("vec", "", 0, <<Named("T")>>)>>}, si \in {<<>>, <<Call("p", <<X>>)>>},
     pd \in {Lit(0), Call("q", <<X>>)}, pb \in {Just(Lit(0)), Just(Call("q", <<X>>)), Just(Is(X, "V"))},
     qb \in {Just(Call("p", <<X>>)), Just(Node("struct", "T", 0, <<>>))},
     fd \in {<<>>, <<Is(X, "V")>>}, fb \in FnBodies,
     gb \in {Just(Lit(0)), Just(Node("struct", "S", 0, <<Call("f", <<X>>)>>))}}

(* Programs of one function over strings that uses one generated name in one place. *)
Str == Node("string", "", 0, <<>>)
Uses ==
    {Call(f, <<X>>) : f \in {"occurs_at", "is_space", "parse_be", "parse_u64", "is_digit", "bytes_eq"}}
    \cup {Method(m, X, <<>>) : m \in {"trim", "split", "to_string"}}
Function(ty, req, ens, dec, body) ==
    [k |-> "fn", sig |-> [name |-> "f", params |-> <<Node("param", "x", 0, <<ty>>)>>, ret |-> U64],
     contract |-> [req |-> req, ens |-> ens], dec |-> dec, body |-> body]
Places(ty, u) ==
    {Function(ty, u, <<>>, <<>>, Just(X)), Function(ty, Truth(TRUE), <<X, u>>, <<>>, Just(X)),
     Function(ty, Truth(TRUE), <<X>>, <<>>, Just(u)),
     Function(ty, Truth(TRUE), <<X>>, <<>>, <<Block(<<Let("y", Binary("+", X, u))>>, <<X>>)>>),
     Function(ty, Truth(TRUE), <<X>>, <<>>,
              <<Block(<<IfStmt(X, Block(<<Assign(X, Not(u))>>, <<>>))>>, <<X>>)>>),
     Function(ty, Truth(TRUE), <<X>>, <<>>, <<Block(<<While(X, <<>>, X, Block(<<Return(u)>>, <<>>))>>, <<>>)>>)}
Programs == UNION {{<<f>> : f \in Places(Str, u)} : u \in Uses}

Bytes   == {32, 48, 50, 53, 54}
Strings == UNION {[1..n -> Bytes] : n \in 0..3}
Patterns == UNION {[1..n -> {32, 48}] : n \in 0..2}

(* Contracts in one unsigned parameter. *)
N == Path("n")
Terms == {N, Lit(1), Binary("*", Lit(2), N), Binary("*", N, N), Binary("-", N, Lit(1)), Result}
Atoms == {Binary(op, a, b) : op \in {"==", "!=", "<", ">="}, a \in Terms, b \in Terms}
NotHalf == Binary("!=", Binary("*", Lit(2), N), Lit(1))
Contracts ==
    [params : {[n |-> "u64"]}, ret : {"u64"}, boundary : {FALSE}, req : {Truth(TRUE), Binary(">", N, Lit(0))},
     ens : {<<a>> : a \in Atoms} \cup {<<Binary("&&", NotHalf, a)>> : a \in Atoms}]
Halves == -1..5

(* Clauses of words of two bits, tagged @bv or @bv nowrap: terms of two operators, *)
(* and what is not rendered.                                                       *)
Word2   == 2
BvAtoms == {X, N, Lit(1), Lit(3)}
BvOnce  == {Binary(op, a, b) : op \in {"+", "-", "*", "/", "%", "<<", "&", "^"}, a \in {X, N}, b \in BvAtoms}
BvTerms == BvOnce \cup {Cast(X, "u8"), Field(X, "f")}
           \cup {Binary(op, a, b) : op \in {"+", "-", "*"}, a \in {t \in BvOnce : t.s[2] = N}, b \in {X, Lit(3)}}
BvClauses ==
    {Binary(op, a, b) : op \in {"==", "<"}, a \in BvTerms, b \in {X, Lit(3)}}
    \cup {Binary("||", Binary("<", X, N), Binary(">=", a, N)) : a \in BvTerms} \cup {Not(Binary("<", a, X)) : a \in BvOnce}
BvGiven ==
    [req : {Truth(TRUE), Binary(">=", X, N), Binary("<", X, Lit(0)), Index(X, N)},
     clause : BvClauses, nowrap : BOOLEAN]

(* Clauses and expressions for the reference encoders: operators of operators, the *)
(* forms of an index, methods of strings and maps, calls of combinators and others. *)
T == Path("t")
ReferenceContext == [seqs |-> {"x", "n", "q"}, strings |-> {"t"}, maps |-> {"m"}, nats |-> {"n"}, slices |-> {"s"}]
Range(e, i, j) == Node("index", "range", 0, <<e, i, j>>)
Referred(a) ==
    {Binary(op, a, X) : op \in BinOps} \cup {Binary(op, X, a) : op \in BinOps}
    \cup {Binary("==", N, a), Cast(a, "u8"), Cast(a, "bool"), Index(Path("s"), a), Range(Path("q"), a, X),
          Node("index", "to", 0, <<Path("s"), a>>), Ref(Node("index", "from", 0, <<Path("s"), a>>)),
          Call("sorted", <<Path("s")>>), Call("forall_below", <<Path("s"), a, Closure("x", a)>>), Call("f", <<a, Path("q")>>),
          Call("exists_in", <<Path("s"), a>>), Call("old", <<N>>), Method("len", T, <<>>), Method("byte_at", T, <<a>>),
          Method("byte_at", Path("s"), <<a>>), Method("slice", Path("s"), <<a, X>>), Method("contains_key", Path("m"), <<a>>),
          Method("get", Path("m"), <<a>>), Is(Path("q"), "V"), Tuple(<<a, X>>),
          Node("match", "", 0, <<Path("q"), Node("arm", "", 0, <<Node("enum", "Some", 1, <<Node("bind", "y", 0, <<>>)>>), a>>),
                                 Node("arm", "", 1, <<Node("wild", "", 0, <<>>), X, a>>)>>)}
    \cup (IF a.k = "cast" THEN {} ELSE {Not(a)})
Clauses == UNION {Referred(a) : a \in {X, N, Lit(1)} \cup Referred(X)}

(* Bodies of two statements after a let, and their tails. *)
R == Path("r")
Typed(x, e) == Node("let", x, 1, <<U64, e>>)
Plus(a, b)  == Binary("+", a, b)
Small       == Binary("<", X, Lit(2))
StmtPool ==
    {Let("y", Plus(R, X)), Assign(R, Plus(R, X)), Assign(R, Cast(X, "u8")), Assign(Path("y"), X), Let("x", Lit(1)),
     IfStmt(Small, Block(<<Assign(R, X)>>, <<>>)), IfStmt(Binary("==", R, X), Block(<<Let("y", X), Assign(R, Path("y"))>>, <<>>)),
     IfElse(Small, Block(<<Assign(R, Plus(R, Lit(1)))>>, <<>>), Block(<<Assign(R, Plus(R, R))>>, <<>>)),
     IfElse(Small, Block(<<>>, <<>>), Block(<<IfStmt(Binary("<", R, X), Block(<<Assign(R, Lit(0))>>, <<>>))>>, <<>>)),
     IfStmt(Small, Block(<<Return(R)>>, <<>>))}
Tails == {R, Plus(R, X), Path("y"), Tuple(<<R, X>>), If(Binary("<", R, X), Block(<<Let("z", Plus(R, Lit(1)))>>, <<Path("z")>>), Block(<<>>, <<X>>))}
Bodies == {Block(<<Typed("r", e), a, b>>, <<tail>>) : e \in {Lit(1), X}, a \in StmtPool, b \in StmtPool, tail \in Tails}
BodyOf(req, b) ==
    [params |-> <<<<"x", U64>>>>, ret |-> U64, req |-> req, ens |-> <<Binary("<", X, Plus(Result, X))>>, body |-> b]

(* Functions whose lowering may be wrong in one operator. *)
RECURSIVE Flipped(_)
Flipped(e) ==
    IF e.k = "binary" /\ e.x \in {"+", "<"} THEN [e EXCEPT !.x = IF e.x = "+" THEN "-" ELSE "<="]
    ELSE [e EXCEPT !.s = [i \in DOMAIN e.s |-> Flipped(e.s[i])]]
Reqs == {Truth(TRUE), Small, Binary("<", X, Lit(1))}
Checked == {BodyOf(req, Block(<<Typed("r", e), a>>, <<tail>>)) :
               req \in Reqs, e \in {Lit(1), Plus(X, Lit(1))}, a \in StmtPool, tail \in {R, Plus(R, X), Path("y")}}
Loops ==
    {BodyOf(req, Block(<<Typed("i", i0), Typed("r", Lit(0)), While(cond, <<inv>>, X, Block(step, <<>>))>>, <<R>>)) :
        req \in Reqs, i0 \in {Lit(0), X}, cond \in {Binary("<", Path("i"), X), Binary("!=", Path("i"), X)},
        inv \in {Truth(TRUE), Binary("<=", Path("i"), X), Binary("<", Path("i"), X), Binary("<=", R, Path("i"))},
        step \in {<<Assign(Path("i"), Plus(Path("i"), Lit(1)))>>,
                  <<Assign(Path("i"), Plus(Path("i"), Lit(1))), Assign(R, Path("i"))>>,
                  <<Let("k", Plus(Path("i"), Lit(1))), IfStmt(Small, Block(<<Assign(R, Lit(1))>>, <<>>)), Assign(Path("i"), Path("k"))>>,
                  <<Assign(Path("i"), Plus(Path("i"), Lit(1))), Node("break", "", 0, <<>>)>>}}

(* Sorted formulas of two quantifiers over indices, keys and values, with the terms *)
(* that a variable of each sort occurs in.                                          *)
U64S == <<"u64">>
KeyS == <<"Key">>
ValS == <<"Val">>
Carriers == {Strat!UsizeS, KeyS, ValS}
Over(o, i) ==
    LET v   == Strat!Var(o, i)
        arr == Strat!Read(U64S, Strat!Const(Strat!SeqOf(U64S), 0), v)
        row == Strat!Read(Strat!SeqOf(U64S), Strat!Const(Strat!SeqOf(Strat!SeqOf(U64S)), 1), v)
        first == Strat!Read(U64S, row, Strat!IntOf(Strat!UsizeS, 0))
    IN  {v} \cup (CASE o = KeyS -> {Strat!App1(KeyS, ValS, 0, v), Strat!LenOf(Strat!App1(KeyS, Strat!SeqOf(U64S), 2, v))}
                    [] o = ValS -> {Strat!App1(ValS, KeyS, 1, v), Strat!App1(ValS, Strat!UsizeS, 3, v)}
                    [] OTHER -> {Strat!IdxOp(v, -1), arr, Strat!CastTo(Strat!UsizeS, arr), Strat!LenOf(row), Strat!Mul(v, v),
                                 Strat!CastTo(<<"u8">>, v), Strat!CastTo(Strat!UsizeS, first)})
Binder(universal, o, p) == IF universal THEN Strat!All(o, p) ELSE Strat!Ex(o, p)
Nested(u, o, v, r) ==
    {Binder(u, o, Binder(v, r, Strat!Rel("eq", t, w))) : t \in Over(r, 0), w \in Over(o, 1)}
    \cup {Strat!Neg(Binder(u, o, Strat!Imp(Strat!Rel("lt", w, Strat!Const(o, 5)),
                                         Strat!Conj(Strat!QFree(0), Binder(v, r, Strat!Rel("eq", t, Strat!BoolOf(1))))))) :
             t \in Over(r, 0), w \in Over(o, 0)}
Stratified == UNION {Nested(u, o, v, r) : u \in BOOLEAN, o \in Carriers, v \in BOOLEAN, r \in Carriers}

(* Clauses with two quantifiers over sequences, and the structures they are read in. *)
Usize == Node("prim", "usize", 0, <<>>)
Declared ==
    [values |-> <<<<"n", Usize>>, <<"result", Usize>>, <<"rows", Node("vec", "", 0, <<Node("vec", "", 0, <<Usize>>)>>)>>,
                  <<"xs", Node("refty", "", 0, <<Node("slicety", "", 0, <<Usize>>)>>)>>>>,
     functions |-> <<<<"big", <<Usize, Usize>>, Node("prim", "bool", 0, <<>>)>>, <<"f", <<Usize>>, Usize>>,
                     <<"odd", <<Usize>>, Node("prim", "bool", 0, <<>>)>>>>]
Each(q, x, d, b) == Node("quant", q, 0, <<Node("path", x, 1, <<Usize>>), d, b>>)
I == Path("i")
J == Path("j")
Sums == {Binary("==", Binary("-", N, Lit(1)), Binary("+", Lit(2), Result)), Binary("==", Binary("-", N, Result), Lit(0)),
         Binary("==", Binary("*", Lit(2), N), Binary("-", N, Result)), Binary("<", Binary("-", I, N), J)}
Places2 == {I, J, Index(Path("xs"), I), Binary("+", J, Lit(1)), Call("f", <<I>>), Index(Index(Path("rows"), I), J)}
Facts  == {Binary(op, a, b) : op \in {"<", "=="}, a \in Places2, b \in {J, N, Lit(1)}}
          \cup Sums \cup {Call("odd", <<J>>), Call("big", <<I, J>>), Truth(FALSE)}
Claims == {Each(q[1], "i", Path("rows"), Each(q[2], x, d, b)) :
              q \in {"forall", "exists"} \X {"forall", "exists"}, x \in {"i", "j"}, d \in {Path("xs"), Index(Path("rows"), I)},
              b \in Facts \cup {Binary("||", Not(r), r) : r \in Sums}}
          \cup {Binary("&&", b, Each("forall", "i", Path("xs"), Binary("||", Not(b), Binary("<", I, J)))) : b \in Facts}
Structures ==
    {[top |-> 2, values |-> [n |-> n, result |-> 1, xs |-> xs, rows |-> rows],
      functions |-> [f |-> [i \in 0..2 |-> (i + 1) % 3], odd |-> [i \in 0..2 |-> i % 2]]] :
        n \in {1, 2}, xs \in {<<>>, <<1, 0>>}, rows \in {<<<<1>>, <<0, 1>>>>, <<<<>>, <<1>>>>}}

(* Trees that are told apart by their canonical text *)
IndexForms == {Index(X, N), Node("index", "from", 0, <<X, N>>), Node("index", "to", 0, <<X, N>>), Range(X, N, N)}
Similar == IndexForms \cup Grown({X, N}, {X, N}) \cup Blocks \cup {Block(<<t>>, <<X>>) : t \in {Let("x", N), Typed("x", N), Assign(X, N), Return(X)}}

(* Functions whose contracts are woven in: of a number or a struct with an invariant, *)
(* with loops of either kind, early returns, and foreign ones.                        *)
Guards  == [S |-> <<Binary("<", Path("v"), Lit(2))>>, P |-> <<>>]
RunInvs == {Truth(TRUE), Binary("<=", I, X), Binary("<=", R, I)}
RunSteps == {<<Assign(I, Plus(I, Lit(1)))>>, <<Assign(I, Plus(I, Lit(1))), Assign(R, I)>>,
             <<IfStmt(Small, Block(<<Return(I)>>, <<>>)), Assign(I, Plus(I, Lit(1)))>>}
Stop == <<IfStmt(Binary("==", I, X), Block(<<Node("break", "", 0, <<>>)>>, <<>>))>>
RunBodies ==
    {Block(<<Typed("r", e), a>>, <<R>>) : e \in {Lit(1), X}, a \in StmtPool}
    \cup {Block(<<Typed("i", Lit(0)), Typed("r", Lit(0)), l>>, <<R>>) :
              l \in UNION {{While(Binary("<", I, X), <<inv, Small>>, X, Block(step, <<>>)),
                            Forever(<<inv>>, X, Block(Stop \o step, <<>>))} : inv \in RunInvs, step \in RunSteps}}
Woven ==
    [params : {<<<<"x", ty>>>> : ty \in {U64, Named("S")}}, ret : {U64, Named("S"), Named("P")}, req : {Truth(TRUE), Small},
     ens : {<<Truth(TRUE), Binary("<", X, Plus(Result, X))>>, <<Not(Binary("==", Result, X))>>},
     body : {<<>>} \cup {<<b>> : b \in RunBodies}]
(* Strings are not computed, so what is cloned or borrowed is a name or the like. *)
Cloned(e) ==
    \A u \in Subtrees(e) : u.k = "call" =>
        \A j \in DOMAIN u.s : j <= Lowering!StringArgCount(u.x) => u.s[j].k \in {"path", "field", "call", "method", "index"}
Promises == Clauses \cup {If(a, Just(b)[1], Just(X)[1]) : a \in {X, T}, b \in {X, T}} \cup {Match(X, <<GuardedArm(Wild, T, X), Arm(Wild, X)>>)}

(* Programs that may be admitted: an enum, a sealed struct and another, a foreign *)
(* function h, g that calls it, and f with an expression somewhere in its body.   *)
Variant(x, upper, arity) == [name |-> x, upper |-> upper, fields |-> {}, arity |-> arity]
Enum(b) == [k |-> "enum", name |-> "E", variants |-> <<Variant("A", TRUE, 1), b>>]
Struct(x, sealed, field) == [k |-> "struct", name |-> x, sealed |-> sealed, fields |-> {field}, inv |-> <<>>]
Fn(x, fx, ens, body) ==
    [k |-> "fn", name |-> x, reserved |-> FALSE, req |-> Truth(TRUE), ens |-> ens, dec |-> <<>>, fx |-> fx, body |-> body]
StructOf(x, field, e) == Node("struct", x, 0, <<Node("init", field, 0, <<e>>)>>)
Whole(e) == Match(X, <<Arm(Wild, e)>>)
Within(e) ==
    {e, Binary("+", X, e), Not(e), Call("g", <<e>>), Method("len", e, <<>>), Method("get", X, <<e>>), Field(e, "p"), Closure("y", e),
     If(e, Just(X)[1], Just(X)[1]), If(X, Just(X)[1], Just(e)[1]), Cast(e, "u8"), Index(X, e), Ref(e), Tuple(<<X, e>>), Is(e, "A"),
     StructOf("P", "p", e), Quant("forall", "i", X, e), Match(e, <<Arm(Wild, X)>>), Whole(e),
     Match(X, <<GuardedArm(Wild, e, X), Arm(Wild, X)>>)}
Around(e) ==
    {Block(<<>>, <<e>>), Block(<<Let("y", e), Return(X)>>, <<>>), Block(<<Assign(X, e)>>, <<X>>), Block(<<Return(e)>>, <<>>),
     Block(<<IfStmt(e, Block(<<>>, <<>>))>>, <<X>>), Block(<<IfElse(X, Block(<<>>, <<>>), Block(<<Node("expr", "", 0, <<e>>)>>, <<>>))>>, <<X>>),
     Block(<<While(e, <<X>>, X, Block(<<>>, <<>>))>>, <<X>>), Block(<<While(X, <<X>>, X, Block(<<Return(e)>>, <<>>))>>, <<X>>),
     Block(<<Forever(<<X>>, X, Block(<<Let("y", e)>>, <<>>))>>, <<>>)}
Holding(e) == UNION {Around(d) : d \in Within(e)}
EB == Variant("B", TRUE, 0)
Filed(b, gx, hx, f) ==
    <<f, Enum(b), Struct("Key", TRUE, "k"), Struct("P", FALSE, "p"), Fn("g", gx, <<>>, Just(Call("h", <<X>>))), Fn("h", hx, <<>>, <<>>),
      [k |-> "spec", name |-> "s", reserved |-> FALSE, dec |-> X, body |-> Block(<<>>, <<X>>)]>>
Pats == {Node("enum", "A", 1, <<Wild>>), Node("enum", "B", 1, <<>>), Wild}
MorePats == Pats \cup {Node("enum", "A", 1, <<Node("lit", "", 0, <<Lit(0)>>)>>), Node("enum", "C", 1, <<>>), Node("bind", "b", 0, <<>>),
                       Node("or", "", 0, <<Node("enum", "A", 1, <<Wild>>), Node("enum", "B", 1, <<>>)>>)}
ArmsOf(ps) == UNION {{Arm(q, X), GuardedArm(q, X, X)} : q \in ps}
ArmLists == UNION {[1..n -> ArmsOf(MorePats)] : n \in 1..2} \cup [1..3 -> ArmsOf(Pats)]
Predicates(e) ==
    {Call("forall_in", <<X, Closure("y", e)>>), Call("forall_below", <<X, e, Closure("y", X)>>), Call("sorted", <<e>>), Call("s", <<e>>),
     Call("fold", <<X, X, Node("closure", "", 2, <<X, N, e>>)>>), Call("for_all", <<e, Closure("y", X)>>), Call("g", <<e>>),
     Method("len", e, <<>>), Method("push", e, <<>>), Call("for_all", <<X, Closure("y", Binary("&&", X, e))>>),
     Call("exists_in", <<X, e>>), Quant("forall", "y", X, e), Whole(e)}
ContractForms == UNION {Predicates(e) : e \in UNION {Predicates(d) : d \in {X, Call("sorted", <<X>>)}}}
Submitted ==
    {Filed(EB, gx, hx, Fn("f", fx, <<>>, <<b>>)) :
        b \in Holding(Call("g", <<X>>)), fx \in {{}, {"net"}, {"net", "smp"}}, gx \in {{}, {"net"}, {"smp"}}, hx \in {{}, {"net"}, {"smp"}}}
    \cup {Filed(EB, {}, {}, [Fn("f", fx, <<>>, <<b>>) EXCEPT !.dec = dec]) :
             b \in Holding(Call("f", <<X>>)) \cup Holding(StructOf("Key", "k", X)), fx \in {{}, {"diverge"}}, dec \in {<<>>, <<X>>}}
    \cup {Filed(b, {}, {}, Fn("f", {}, <<>>, Just(Match(X, arms)))) : arms \in ArmLists, b \in {EB, Variant("b", FALSE, 0)}}
    \cup {Filed(EB, {}, {}, Fn("f", {}, <<c>>, Just(X))) : c \in ContractForms}

(* Functions to mutate: with a sum, a branch or a guard anywhere in the body, with *)
(* loops, and with every kind of return type.                                      *)
Structs == [P |-> <<<<"p", U64>>, <<"q", Node("tuplety", "", 0, <<Named("Q"), U64>>)>>>>, Q |-> <<<<"s", Node("string", "", 0, <<>>)>>>>,
            B |-> <<<<"next", Node("box", "", 0, <<Named("B")>>)>>>>]
Returns == {U64, Named("P"), Named("B"), Node("unit", "", 0, <<>>), Node("tuplety", "", 0, <<U64, Node("option", "", 0, <<U64>>)>>),
            Node("tuplety", "", 0, <<Named("Q"), U64>>), Node("vec", "", 0, <<U64>>), Node("vec", "", 0, <<Named("Q")>>),
            Node("refty", "", 0, <<Node("slicety", "", 0, <<U64>>)>>), Node("prim", "bool", 0, <<>>)}
Mutable(ret, body) == [params |-> <<<<"x", U64>>, <<"n", Named("P")>>>>, ret |-> ret, req |-> Small, ens |-> <<Small>>, body |-> body]
Branch(c) == If(c, Block(<<>>, <<Lit(1)>>), Block(<<>>, <<X>>))
Mutables ==
    {Mutable(U64, b) : b \in UNION {Holding(e) : e \in {Plus(X, Lit(0)), Branch(Small), Branch(Call("g", <<Lit(1)>>)), Index(X, Plus(X, N))}} \cup RunBodies}
    \cup {Mutable(ret, Block(<<Typed("r", X)>>, <<R>>)) : ret \in Returns}
MutantCaps == {1, 3, 64}

(* Functions with a covenant: of a number and a flag, with witnesses that are fine,  *)
(* that break the precondition, have another type or are out of range; and files in  *)
(* which functions, witnesses and other items follow each other.                     *)
Covered(req, ens, body) == [params |-> <<<<"x", U64>>, <<"b", Node("prim", "bool", 0, <<>>)>>>>, ret |-> U64, req |-> req, ens |-> ens, body |-> body]
B == Path("b")
Drops == {Binary("-", X, Lit(1)), Binary("/", Lit(2), X), Binary("&", X, Lit(1)), Binary("%", R, X), Binary(">>", X, R)}
CovenantBodies ==
    {Block(<<Typed("r", X), a>>, <<tail>>) : a \in StmtPool, tail \in Tails \cup Drops}
    \cup {Block(<<Typed("r", Lit(1)), IfElse(B, Block(a, <<X>>), Block(c, <<>>))>>, <<tail>>) : tail \in {R, X},
              a \in {<<>>, <<Assign(R, X)>>, <<Return(X)>>}, c \in {<<Let("x", R)>>, <<Assign(X, R)>>, <<Node("break", "", 0, <<>>)>>, <<>>}}
Agreed(bodies, inhabits, budgets) ==
    {<<Covered(req, ens, body), [inhabits |-> i, budget |-> n]>> :
        req \in {Truth(TRUE), Binary("&&", B, Small), Binary("<", Binary("/", Lit(2), X), Lit(2))},
        ens \in {<<Binary("<=", Result, Plus(X, Lit(1)))>>, <<Binary("<=", X, Result)>>, <<Binary("==", B, Truth(TRUE)), Binary("<", Result, Lit(3))>>},
        body \in bodies, i \in inhabits, n \in budgets}
Covenants ==
    Agreed({<<c>> : c \in CovenantBodies}, {<<<<Lit(1), Truth(TRUE)>>>>, <<<<Plus(Lit(1), Lit(0)), Truth(TRUE)>>, <<Lit(2), Truth(FALSE)>>>>}, {0, 1})
    \cup Agreed({<<>>, <<Block(<<>>, <<Binary("-", X, Lit(1))>>)>>},
                {<<>>, <<<<Lit(1), Truth(TRUE)>>>>, <<<<Lit(5), Truth(TRUE)>>>>, <<<<Truth(TRUE), Lit(1)>>>>, <<<<Lit(1)>>>>, <<<<X, Truth(TRUE)>>>>}, {1})
CovenantItems == {[k |-> "fn", name |-> "f"], [k |-> "fn", name |-> "g"], [k |-> "witness", name |-> "1"], [k |-> "witness", name |-> "2"],
                  [k |-> "struct", name |-> "s"]}

(* Contracts at the gate, with clauses that are always true, that leave the result   *)
(* out and that hide it, with walks that stop early and late; and what a function    *)
(* may declare besides.                                                              *)
Attr(kind, fields) == [kind |-> kind, fields |-> fields]
Gated(ret, req, ens, fx, attr) == [params |-> <<<<"x", U64>>>>, ret |-> ret, req |-> req, ens |-> ens, fx |-> fx, attr |-> attr]
Vague == {Truth(TRUE), Small, Binary("==", X, X), Binary(">=", Binary("/", Lit(1), X), Binary("/", Lit(1), X)), Binary("<", X, X),
          Binary("<=", Result, X), Binary("==", Result, Result), Not(Binary("<", X, Result)), Call("result", <<X>>), Binary(">", X, Lit(0)),
          If(Small, Block(<<>>, <<Small>>), Block(<<>>, <<Binary("<", Lit(0), Result)>>)), Quant("forall", "result", X, Small),
          Node("match", "", 0, <<X, Node("arm", "", 1, <<Node("wild", "", 0, <<>>), Binary("<", Result, X), Small>>)>>),
          Node("struct", "S", 0, <<Node("init", "f", 0, <<Result>>)>>), If(Small, Block(<<Let("y", Result)>>, <<Small>>), Block(<<>>, <<Small>>))}
Conjoined == {Truth(TRUE), Small, Binary("&&", Small, Binary(">", X, Lit(0))), Binary("&&", Binary("&&", X, Binary("==", X, X)), Small)}
Returned == {U64, Node("unit", "", 0, <<>>)}
Fields == {"missing", "blank", "text"}
AtTheGate ==
    {<<Gated(ret, req, ens, {}, Attr("none", <<>>)), max>> :
        ret \in Returned, req \in Conjoined, ens \in {<<a>> : a \in Vague} \cup (Vague \X Vague), max \in {1, 2, 256}}
    \cup {<<Gated(ret, Truth(TRUE), ens, fx, attr), 256>> :
             ret \in Returned, ens \in {<<Truth(TRUE)>>, <<Small>>, <<Binary("<=", Result, X)>>},
             fx \in {{}, {"diverge"}, Probing!BroadEffects, Probing!BroadEffects \ {"time"}, Probing!BroadEffects \cup {"term"}},
             attr \in {Attr("none", <<>>), Attr("boundary", <<"text">>), Attr("boundary", <<"blank">>)}
                       \cup {Attr("slag", fields) : fields \in Fields \X Fields \X Fields}}

(* Obligations for Lean.  Spec functions: a predicate with a binder, a chain of two and *)
(* one that calls itself; `mystery` is never defined.                                   *)
U8      == Node("prim", "u8", 0, <<>>)
Bool    == Node("prim", "bool", 0, <<>>)
Integer   == Named("int")
Words   == Node("refty", "", 0, <<Node("slicety", "", 0, <<U64>>)>>)
Xs      == Path("xs")
K       == Path("k")
Spec1(params, e) == [params |-> params, dec |-> Lit(0), body |-> Block(<<>>, <<e>>)]
SpecFns ==
    [p |-> Spec1(<<<<"v", Integer>>, <<"xs", Words>>>>, Call("forall_in", <<Xs, Closure("k", Binary("<=", K, Path("v")))>>)),
     q |-> Spec1(<<<<"k", Integer>>>>, Binary("+", K, Lit(1))),
     r |-> Spec1(<<<<"x", Integer>>>>, Call("q", <<Call("q", <<X>>)>>)),
     s |-> Spec1(<<<<"x", Integer>>>>, Call("s", <<Binary("-", X, Lit(1))>>))]
Obliged(kind, params, ret, req, ens, body) ==
    [kind |-> kind, holes |-> 0, params |-> params, ret |-> ret, req |-> <<req>>, ens |-> ens, dec |-> <<>>, body |-> body]

Always == Truth(TRUE)
Equals(a, b) == Binary("==", a, b)
Part(kind, is) == Node("index", kind, 0, <<Xs>> \o is)
PureClaims ==
    {Equals(Result, Binary("+", K, Lit(1))), Binary("<=", Result, Binary("*", K, Lit(2))), Call("p", <<K, Xs>>),
     Call("p", <<Result, Xs>>), Equals(Result, Call("q", <<K>>)), Equals(Result, Call("r", <<K>>)),
     Equals(Result, Call("s", <<K>>)), Equals(Result, Call("mystery", <<K>>)), Equals(Result, Call("old", <<K>>)),
     Call("exists_in", <<Xs, Closure("e", Equals(Path("e"), Result))>>), Call("sorted", <<Xs>>),
     Call("forall_below", <<Xs, K, Closure("e", Binary("<", Path("e"), Lit(3)))>>),
     Call("forall_from", <<Xs, K, Closure("e", Binary("<", Path("e"), Lit(3)))>>), Call("forall_in", <<Xs, K>>),
     Binary(">=", Call("count_where", <<Xs, Closure("k", Binary(">", K, Lit(0)))>>), Result),
     Call("disjoint", <<Part("to", <<K>>), Part("from", <<K>>)>>), Call("permutation_of", <<Xs, Part("range", <<Lit(0), K>>)>>),
     Equals(Method("len", Part("to", <<K>>), <<>>), K), Equals(Cast(Result, "nat"), Binary("-", K, Lit(1))),
     Not(Equals(Index(Xs, K), Result)), Binary("||", Binary("<", K, Lit(1)), Equals(Binary("/", Lit(2), K), Result)),
     Call("forall_in", <<Xs, Closure("k", Binary("||", Equals(Call("q", <<K>>), Result), Equals(K, Result)))>>)}
PureBodies == {K, Binary("+", K, Lit(1)), Method("len", Xs, <<>>), Index(Xs, K), Call("q", <<K>>), Ref(Lit(2))}
PureItems ==
    {Obliged("fn", <<<<"k", U64>>, <<"xs", Words>>>>, U64, req, <<c>>, Just(b)) :
        req \in {Always, Binary("<", K, Method("len", Xs, <<>>))}, c \in PureClaims, b \in PureBodies}
    \cup {Obliged("spec", <<<<"x", Integer>>>>, Integer, Always, <<>>, Just(Call(f, <<X>>))) : f \in {"q", "r", "s"}}
    \cup {Obliged("spec", <<<<"x", Integer>>>>, Bool, Always, <<>>, Just(Binary("<", X, Lit(1))))}
    \cup {[Obliged("lemma", <<<<"x", U64>>, <<"xs", Words>>>>, U64, Binary("<", X, Lit(3)), <<c, Always>>, <<>>) EXCEPT !.kind = k] :
             k \in {"lemma", "adt", "fn"},
             c \in {Binary("<=", Binary("+", X, Lit(1)), Lit(3)), Binary("<", Binary("*", X, X), X), Call("sorted", <<Xs>>),
                    Equals(Call("q", <<X>>), X), Call("mystery", <<X>>)}}
    \cup {[Obliged("fn", <<<<"k", U64>>>>, U64, Always, <<Always>>, Just(K)) EXCEPT !.holes = 1]}

(* Bodies of statements over x: u64, y: u8, b: bool and a slice. *)
Z == Path("z")
Y == Path("y")
LetAs(x, t, e) == Node("let", x, 1, <<t, e>>)
Does(stmts, tail) == <<Block(stmts, <<tail>>)>>
Inner(t) == Block(<<t>>, <<>>)
StraightParams == <<<<"x", U64>>, <<"y", U8>>, <<"b", Bool>>, <<"xs", Words>>>>
Small2 == Binary("<", X, Lit(2))
WordBodies ==
    {Does(<<Let("z", Binary("+", X, Lit(1)))>>, Z), Does(<<Let("z", X), IfElse(Small2, Inner(Assign(Z, Binary("+", Z, Lit(1)))), Inner(Assign(Z, Lit(0))))>>, Z),
     Does(<<IfStmt(Small2, Inner(Let("x", Lit(5))))>>, X), Does(<<Let("x", Binary("+", X, Lit(1)))>>, X),
     Does(<<Let("z", X), IfStmt(Path("b"), Inner(Let("z", Lit(1))))>>, Z), Does(<<Let("z", X), Let("z", Binary("+", Z, Lit(1)))>>, Z),
     Does(<<Assign(X, Lit(1))>>, X), Does(<<Let("z", Index(Xs, X))>>, Z), Does(<<Node("expr", "", 0, <<Binary("-", X, Lit(1))>>)>>, X),
     Does(<<Let("z", Cast(Y, "u64")), Assign(Z, Binary("*", Z, Lit(2)))>>, Z), Does(<<Return(X)>>, X),
     Does(<<IfStmt(Small2, Inner(Let("z", Lit(1)))), Assign(Z, Lit(1))>>, Z), Does(<<Assign(Index(Xs, X), Lit(1))>>, X),
     Does(<<Let("z", Binary("-", Lit(5), X))>>, Binary(">>", Z, Lit(1)))}
NarrowBodies ==
    {Does(<<LetAs("z", U8, Binary("+", Y, Lit(1)))>>, Z), Does(<<LetAs("z", U8, Cast(X, "u8"))>>, Z),
     Does(<<LetAs("z", U8, Lit(1)), Assign(Z, Binary("+", Lit(3), Y))>>, Z), Does(<<Let("z", X)>>, Binary("+", Lit(1), Y)),
     Does(<<LetAs("z", U8, Lit(3)), IfStmt(Binary("==", Y, Z), Inner(Assign(Z, Binary("-", Z, Y))))>>, Z)}
TruthBodies ==
    {Just(Small2), Does(<<Let("z", X)>>, Binary("<", Z, Lit(2))), Just(Binary("&&", Binary("<", X, Lit(3)), Binary("<", Binary("+", X, Lit(5)), Lit(7)))),
     Just(Not(Path("b")))}
TruthClaims ==
    {Result, Not(Result), Equals(Result, Always), Equals(Truth(FALSE), Result), Binary("!=", Result, Truth(FALSE)), Equals(Result, Small2),
     Binary("||", Result, Binary(">=", X, Lit(2))), Equals(Result, Path("b"))}
WordClaims == {Always, Equals(Result, Binary("+", X, Lit(1))), Binary(">=", Result, X), Binary("<", Result, Lit(4)), Equals(Result, Call("q", <<X>>)),
               Call("p", <<Result, Xs>>), Equals(Result, Call("s", <<X>>)), Not(Path("b"))}
Bounds == {Always, Binary("<", X, Lit(3)), Binary("<", X, Method("len", Xs, <<>>))}
StraightItems ==
    {Obliged("fn", StraightParams, U64, req, <<c>>, b) : req \in Bounds, c \in WordClaims, b \in WordBodies}
    \cup {Obliged("fn", StraightParams, U8, req, <<c>>, b) : req \in {Always, Binary("<", Y, Lit(3))}, c \in {Always, Binary(">", Result, Y)}, b \in NarrowBodies}
    \cup {Obliged("fn", StraightParams, Bool, Always, <<c>>, b) : c \in TruthClaims, b \in TruthBodies}
    \cup {Obliged("fn", StraightParams, Node("generic", "Option", 0, <<U64>>), Always, <<Always>>, Just(Call("Some", <<X>>)))}

(* Loops that count z up to n, as they should and otherwise. *)
Counting(t, cond, inv, dec, step, tail, ens) ==
    Obliged("fn", <<<<"n", t>>, <<"b", Bool>>>>, t, Always, <<ens>>,
            Does(<<LetAs("z", t, Lit(0)), While(cond, <<inv>>, dec, Block(step, <<>>))>>, tail))
Up(by) == Assign(Z, Binary("+", Z, Lit(by)))
Ends == {<<Z, Equals(Result, N)>>, <<Z, Binary("<=", Result, N)>>, <<Binary("+", Z, Lit(1)), Equals(Result, N)>>}
LoopItems ==
    {Counting(U64, cond, inv, dec, step, end[1], end[2]) :
        cond \in {Binary("<", Z, N), Binary("<=", Z, N), Binary("!=", Z, N)},
        inv \in {Binary("<=", Z, N), Binary("&&", Binary("<=", Z, N), Not(Binary(">", Z, Lit(7)))), Always},
        dec \in {Binary("-", N, Z), Cast(Z, "int"), Binary("-", Binary("+", N, Lit(1)), Ref(Z))},
        step \in {<<Up(1)>>, <<Up(2)>>, <<Assign(Z, Z)>>, <<IfElse(Path("b"), Inner(Up(1)), Inner(Up(2)))>>}, end \in Ends}
    \cup {Counting(U8, cond, inv, Binary("-", N, Z), <<Up(by)>>, Z, Binary("<=", Result, N)) :
              cond \in {Binary("<", Z, N), Binary("<=", Z, N)}, inv \in {Binary("<=", Z, N), Binary("<=", Z, Lit(7))}, by \in 1..2}
    \cup {[Counting(U64, cond, Binary("<=", Z, N), dec, step, Z, Equals(Result, N)) EXCEPT !.params = Append(@, <<"xs", Words>>)] :
             cond \in {Binary("<", Z, N), Path("b"), Binary("<", Z, Method("len", Xs, <<>>))},
             dec \in {Binary("-", N, Z), Binary("-", Method("len", Xs, <<>>), Z), Call("q", <<Z>>)},
             step \in {<<Let("w", Lit(1)), Assign(Z, Binary("+", Z, Path("w")))>>, <<Up(1), Node("break", "", 0, <<>>)>>,
                       <<Assign(N, Lit(0))>>, <<Up(1)>>}}
Owed == (PureItems \X {"body", "any"}) \cup ((StraightItems \cup LoopItems) \X {"body"})

(* Every assignment of the parameters of an item *)
Lists == {<<>>, <<1>>, <<1, 3>>, <<3, 1>>}
Values2(t) == CASE t = U64 -> 0..7 [] t = U8 -> 0..3 [] OTHER -> -1..2
Assignments(params) ==
    LET at(x) == params[CHOOSE i \in DOMAIN params : params[i][1] = x][2]
        named(S) == {p[1] : p \in {params[i] : i \in {j \in DOMAIN params : params[j][2] \in S}}}
        ints  == named({U64, U8, Integer})
    IN  [ints : {f \in [ints -> -1..7] : \A x \in ints : f[x] \in Values2(at(x))},
         seqs : [named({Words}) -> Lists], bools : [named({Bool}) -> BOOLEAN]]

(***************************************************************************)
(* Questions and answers.                                                  *)
(***************************************************************************)
Init ==
    /\ answer = Pending /\ claim = "none"
    /\ \/ area = "expression" /\ given \in Trees
       \/ area = "block" /\ given \in Blocks
       \/ area = "lowering" /\ given \in Formulas \X {TRUE, FALSE}
       \/ area = "file" /\ given \in Files
       \/ area = "prelude" /\ given \in Programs
       \/ area = "strings" /\ given \in Strings \X Patterns
       \/ area = "numbers" /\ given \in Strings
       \/ area = "relax" /\ given \in Contracts
       \/ area = "bits" /\ given \in BvGiven
       \/ area = "reference" /\ given \in Clauses \X {"contract", "exec"}
       \/ area = "fragment" /\ given \in Stratified
       \/ area = "bridge" /\ given \in Claims \X {TRUE, FALSE}
       \/ area = "canonical" /\ given \in Similar
       \/ area = "run text" /\ given \in {e \in Formulas : Cloned(e)}
       \/ area = "run" /\ given \in Woven \X (0..1)
       \/ area = "snapshot" /\ given \in Promises
       \/ area = "admission" /\ given \in Submitted
       \/ area = "mutation" /\ given \in Mutables \X MutantCaps
       \/ area = "covenant" /\ given \in Covenants
       \/ area = "gate" /\ given \in AtTheGate
       \/ area = "witness" /\ given \in UNION {[1..n -> CovenantItems] : n \in 1..4}
       \/ area = "state" /\ given \in Bodies
       \/ area = "exec" /\ given \in Checked \X {1, 2} \X {TRUE, FALSE}
       \/ area = "contract" /\ given \in Loops \X (1..4) \X {TRUE, FALSE}
       \/ area = "export" /\ given \in Owed
       \/ area = "body" /\ given \in (Checked \cup Loops) \X {TRUE, FALSE}

Asked(a) == answer = Pending /\ area = a /\ UNCHANGED <<area, given, claim>>

ReadSource ==
    /\ Asked("expression") \/ Asked("block")
    /\ answer' = Parsing!ParseProgram(IF area = "block" THEN FnTokens("f", X, X, given)
                                      ELSE FnTokens("f", given, X, Block(<<>>, <<X>>)))
LowerFormula   == Asked("lowering") /\ answer' = Lowering!LowerExpr(given[1], LowerContext(given[2]))
WeaveFile      == Asked("file") /\ answer' = [n \in {"f", "g", "p", "q"} |-> Lowering!ItemSubprogram(given, n)]
LowerPrelude   == Asked("prelude") /\ answer' = [proved |-> Front!Emitted(given), run |-> Front!EmittedRun(given)]
Search ==
    Asked("strings") /\ answer' = [find |-> Front!Find(given[1], given[2]), split |-> Front!Split(given[1], 32),
                                   trim |-> Front!Trim(given[1])]
ReadNumber     == Asked("numbers") /\ answer' = Front!ParseU64(given)
RelaxContract  == Asked("relax") /\ answer' \in Real!RelaxOutcomes(given, Halves)
DecideBits ==
    Asked("bits") /\ answer' \in Real!TaggedOutcomes({"x", "n"}, given.req, given.clause, given.nowrap, Word2, Word2)
MutateBody == Asked("mutation") /\ answer' = Probing!Generate(given[1], Structs, given[2])

PassGate        == Asked("gate") /\ answer' = Probing!GateFn(given[1], given[2])
ExecuteCovenant == Asked("covenant") /\ answer' \in Probing!CovenantRoute(given[1], given[2], Word2)
BindWitnesses   == Asked("witness") /\ answer' = Probing!WitnessBindings(given)

EncodeClause ==
    /\ Asked("reference")
    /\ answer' = IF given[2] = "contract" THEN Checking!RefContractPred(given[1], ReferenceContext)
                 ELSE Checking!ExecRefValue(given[1], ReferenceContext)
ClassifyFormula == Asked("fragment") /\ answer' = Strat!Classify(given)
BridgeClause    == Asked("bridge") /\ answer' = Strat!FromClause(given[1], Declared, given[2])
WriteCanonical  == Asked("canonical") /\ answer' = Strat!Written(given)
WriteRunnable   == Asked("run text") /\ answer' = Lowering!LowerExprExec(given, [V |-> "E"])
RunWoven ==
    Asked("run") /\ answer' = [x \in 0..3 |-> Lowering!RunFn(given[1], Guards, [x |-> x], 2 * given[2], 2, 5)]
KeepParameters  == Asked("snapshot") /\ answer' = Lowering!RenameParams(given, {"t"})
Admit           == Asked("admission") /\ answer' = Gate!Admission(given)
ExportObligation == Asked("export") /\ answer' = Lean!ExportItem(given[1], SpecFns, given[2])
EncodeBody == Asked("state") /\ answer' = Checking!BodyRefState(given, ReferenceContext)
(* The question a value of production is compared for, and that value *)
Question(g)   == Checking!AskedExpressions(g[1])[g[2]]
Production(g) == IF g[3] THEN Question(g).e ELSE Flipped(Question(g).e)
ValidateExpression ==
    /\ Asked("exec") /\ given[2] <= Len(Checking!AskedExpressions(given[1]))
    /\ answer' \in Checking!ExecVerdicts(Question(given), Production(given), given[1])
Clause(g) == Checking!ContractQuestions(g[1])[g[2]]
LoweredClause(g) == IF g[3] THEN Clause(g).clause ELSE Flipped(Clause(g).clause)
ValidateContract ==
    /\ Asked("contract") /\ given[2] <= Len(Checking!ContractQuestions(given[1]))
    /\ answer' \in Checking!ContractVerdicts(Clause(given), LoweredClause(given))
LoweredBody(g) == IF g[2] THEN g[1].body ELSE Flipped(g[1].body)
LoweredStep(g) == Checking!LoopBody(LET ss == Stmts(LoweredBody(g)) IN ss[Len(ss)])
ValidateBody ==
    /\ Asked("body")
    /\ answer' \in IF Checking!EndsInLoop(given[1]) THEN Checking!LoopVerdicts(given[1], LoweredStep(given))
                   ELSE Checking!StraightVerdicts(given[1], LoweredBody(given))

Next ==
    \/ EncodeClause \/ EncodeBody \/ ValidateExpression \/ ValidateContract \/ ValidateBody
    \/ ReadSource \/ LowerFormula \/ WeaveFile \/ LowerPrelude \/ Search \/ ReadNumber
    \/ RelaxContract \/ DecideBits \/ MutateBody \/ PassGate \/ ExecuteCovenant \/ BindWitnesses \/ ClassifyFormula \/ BridgeClause \/ WriteCanonical
    \/ WriteRunnable \/ RunWoven \/ KeepParameters \/ Admit \/ ExportObligation

Spec == Init /\ [][Next]_vars

Answered(a) == area = a /\ answer # Pending

(***************************************************************************)
(* Properties.                                                             *)
(***************************************************************************)

(* parse_program: an expression or a block that is written with no more
   parentheses than the grammar needs is read back as the same tree, whatever
   struct literals, quantifiers, closures and casts stand next to each other. *)
ParserRoundTrip ==
    /\ Answered("expression") => answer.errors = <<>> /\ answer.items[1].contract.req = given
    /\ Answered("block") => answer.errors = <<>> /\ answer.items[1].body = <<given>>

(* item_subprogram: whatever an item sent to Verus names, in its signature,
   contract, body or in the measure of a specification function, is sent along,
   and so is what that names. *)
SubprogramResolves ==
    Answered("file") =>
        \A n \in DOMAIN answer : \A m \in answer[n] :
            Lowering!Mentioned(given, Lowering!FollowedParts(given[m])) \subseteq answer[n]

(* The prelude of a lowered program defines every generated name the program
   uses in a contract, or anywhere in a body but in the clauses of a loop; so does
   that of its runnable form, apart from is_space and from what formats or reads
   the digits of a number where no body formats one. *)
PreludeCovers ==
    Answered("prelude") =>
        /\ Front!Mentioned(given) \cup Front!PreludeNeeds(given) \subseteq answer.proved
        /\ Front!Mentioned(given) \ Front!RunLacks(given) \subseteq answer.run

(* The generated string and number functions are exact: find returns the first
   occurrence, split loses no byte, trim no other than spaces, and a string reads
   as a number exactly if it is one that fits the word.  Their runnable forms, and
   those of the containers, return the same where they may be called and abort
   elsewhere. *)
RuntimeExact ==
    /\ Answered("strings") => /\ Front!StringsExact(given[1], given[2], 32)
                              /\ Front!ContainersRunAsProved(given[1], given[2])
                              /\ Front!StringsRunAsProved(given[1], given[2])
    /\ Answered("numbers") => LET n == IF answer = <<>> THEN Word ELSE answer[1]
                              IN  Front!NumbersExact(n, given) /\ Front!NumbersRunAsProved(n, given)

(* The nlsat route: a contract it proves over the non-negative reals holds of
   every natural number, and a counterexample it reports violates the contract.
   The bit-vector route: a clause it proves holds of the machine's words, and one
   proved with nowrap also of the integers, none of its operations leaving the
   word; a counterexample violates the clause, and an overflow it reports is one
   at which code of that width would stop. *)
RelaxVerdictsHold ==
    /\ Answered("relax") =>
        /\ answer.kind = "proved" => \A a, b \in 0..3 : ~Real!NegationOverInts(given, [n |-> a, result |-> b])
        /\ answer.kind = "counterexample" => Real!NegationOverInts(given, answer.point)
    /\ Answered("bits") =>
        LET at(e, pt, mode) == Eval(e, pt, mode, Word2)
            assumed == {pt \in [{"x", "n"} -> 0..3] : at(given.req, pt, "spec") = Value(1)}
            exact(pt) == \A u \in Subtrees(given.clause) : at(u, pt, "exec").ok
            total == \A u \in Subtrees(given.clause) : u.x \notin {"/", "%", "<<"}
        IN  /\ answer.kind = "proved" =>
                  \A pt \in assumed :
                      /\ exact(pt) => at(given.clause, pt, "spec") = Value(1)
                      /\ given.nowrap /\ total => exact(pt)
            /\ answer.kind = "vacuous" => assumed = {}
            /\ answer.kind = "counterexample" =>
                  answer.point \in assumed /\ (exact(answer.point) => at(given.clause, answer.point, "spec") = Value(0))
            /\ answer.kind = "overflow" => answer.point \in assumed /\ ~exact(answer.point)

(* Rust takes < after the type of a cast for the start of its type arguments. *)
NoCastBeforeLess(ts) == \A i \in 1..(Len(ts) - 2) : ts[i] = "as" => ~Lowering!IsLtLeading(ts[i + 2])

ReadAsClause(r) == r.ok /\ r.i = Len(answer.t) + 1 /\ Checking!Canonical(r.v) = Checking!Canonical(given[1])

(* The reference encoders of translation validation: what they write is read by Verus,
   groups as the clause or expression it was written for and names the same things. *)
ReferenceExact ==
    Answered("reference") /\ answer.ok =>
        NoCastBeforeLess(answer.t) /\ ReadAsClause(Parsing!ParseExpr(Parsing!Context(answer.t), 1))

(* body_ref_state: the expression it derives from a body has the value that the body
   returns, if no let takes the name of a parameter. *)
ReferenceOfBody ==
    \A x \in 0..3 :
        LET run == Checking!RunBody(given, [x |-> x], 2, 5)
            parts == IF answer.v.k = "tuple" THEN answer.v.s ELSE <<answer.v>>
        IN  run.ok => [i \in DOMAIN parts |-> Eval(parts[i], [x |-> x], "spec", 2)] = [i \in DOMAIN parts |-> Value(run.v[i])]

BodyReferenceExact ==
    Answered("state") /\ answer.ok /\ ~Checking!Shadows(BodyOf(Truth(TRUE), given)) => ReferenceOfBody

(* The verdict faithful of an audit is deserved: an expression, a body or the step
   of a loop that production lowered otherwise does not get it, and a loop that gets
   it ends in its invariant and the negation of its condition; a function in which a
   let takes the name of a parameter may get it undeserved. *)
FaithfulIsFaithful ==
    /\ Answered("exec") /\ answer = "faithful" /\ ~Checking!Shadows(given[1]) =>
            Checking!AgreesWhereReached(Question(given), Production(given), given[1])
    /\ Answered("contract") /\ answer = "faithful" => Checking!ClausesAgree(Clause(given), LoweredClause(given))
    /\ Answered("body") /\ answer = "faithful" /\ ~Checking!Shadows(given[1]) =>
            IF Checking!EndsInLoop(given[1]) THEN Checking!LoopCharacterised(given[1])
            ELSE Checking!BodiesAgree(given[1], LoweredBody(given))

(* classify: the ground terms of an admitted formula are finitely many, unless it
   reads a sequence that depends on a bound variable at an index that does not;
   and what is exchanged for a formula is read as that formula. *)
AdmittedIsFinite ==
    Answered("fragment") =>
        LET w == Strat!WriteFrm(given)
        IN  /\ answer = "admitted" /\ ~Strat!ReadsBoundSequence(given) => Strat!FinitelyGrounded(given)
            /\ Strat!ParseFrm(w).ok /\ Strat!ParseFrm(w).v = given /\ ~Strat!ParseFrm(SubSeq(w, 1, Len(w) - 1)).ok

(* from_clause: the sorted formula of a clause, and its negation normal form, hold
   in the structures that the clause holds in. *)
BridgeKeepsMeaning ==
    Answered("bridge") /\ answer.ok =>
        \A m \in Structures :
            LET means == Strat!SourceValue(given[1], m.values, m) = 1
            IN  Strat!Holds(answer.v, <<>>, answer.st.atoms, Declared, m) = means
                /\ Strat!Holds(Strat!Nnf(answer.v), <<>>, answer.st.atoms, Declared, m) = means

(* The stratified route: what it admits can be decided, unless a sequence that depends
   on a bound variable is read at an index that does not; what it decides is the
   clause, and two clauses that share evidence are one. *)
StratifiedSound ==
    /\ AdmittedIsFinite /\ BridgeKeepsMeaning
    /\ Answered("canonical") => \A e \in Similar : Strat!Written(e) = answer => e = given

(* lower_expr, lower_expr_exec: the text is read by Rust, and groups as the tree it was
   written for, with the coercions of a specification, the clones, borrows and
   narrowings of Rust, around what they were meant for. *)
GroupsAsMeant(r) ==
    /\ r.ok /\ r.i = Len(answer) + 1
    /\ IF area = "run text" THEN Lowering!RunsAsMeant(r.v, given, [V |-> "E"])
       ELSE Lowering!StatesAsMeant(r.v, given[1], LowerContext(given[2]))
ReadByRust == NoCastBeforeLess(answer) /\ GroupsAsMeant(Parsing!ParseExpr(Parsing!Context(answer), 1))
Written == IF area = "run text" THEN Lowering!RunRewritten(given, [V |-> "E"]) ELSE Lowering!Rewritten(given[1], LowerContext(given[2]))

(* Text is read as it was meant: source by the parser, what lower_expr writes by Verus
   and what lower_expr_exec writes by Rust, but for a comparison whose left operand is
   one, the negation of a cast, and a cast before < or << that is the right end of the
   left operand (in lower_expr_exec also the whole of it). *)
TextReadsBack ==
    /\ ParserRoundTrip
    /\ Answered("lowering") \/ Answered("run text") =>
          ReadByRust = ~Lowering!ReadOtherwise(Written, area = "run text")

(* The runnable form enforces contracts: a call of a function with woven-in checks
   comes back only if its precondition, the invariants of its structs and of its loops
   at every iteration held, and its postconditions unless it comes back by an early
   return, and with the value of the source; it does come back if they hold.  A
   postcondition reads the snapshot of a parameter that the body may have moved,
   except in the branches of an if, and a snapshot is taken whenever one is read
   other than in the guard of an arm. *)
ContractsRun ==
    /\ Answered("run") =>
          \A x \in 0..3 : Lowering!ContractEnforced(given[1], Guards, [x |-> x], 2 * given[2], answer[x], 2, 5)
    /\ Answered("snapshot") =>
          /\ Lowering!SnapshotRead(given, "t", answer)
          /\ ~Lowering!Rebinds(given, "t") /\ ~Lowering!GuardReads(given, "t") =>
                Lowering!ReferencesIdent(given, "t") = ("t" \in Lowering!Free(given))

(* validate, check_effects: in a program that is let through a function has no effect
   that it does not declare, however many calls away; every value of an enum finds its
   arm; a sealed struct is not made but by its foreign functions; a function that calls
   itself has a measure; and contracts call no code and nest no quantifiers.  Excepted
   are calls, of itself too, in the guard of an arm, and in the condition of a while
   calls of itself, literals and matches; and payload patterns that may fail. *)
AdmittedKeepsRules ==
    Answered("admission") /\ answer = {} =>
        /\ Gate!EffectsDeclared(given, FALSE) /\ Gate!MatchesTotal(given, given[2], FALSE)
        /\ Gate!SealedKept(given, FALSE) /\ Gate!MeasuresGiven(given, FALSE, FALSE)
        /\ \A c \in Gate!ContractsOf(given) : Gate!Flat(c) /\ \A e \in Subtrees(c) : e.k = "call" => e.x \notin {"f", "g", "h"}

(* Nothing that a lowered item needs is left out: neither the items it names,
   transitively, nor the generated functions of the prelude. *)
NothingLeftOut == SubprogramResolves /\ PreludeCovers

(* The mutants that weigh a contract: each differs from the body in one place, by
   the action that was recorded for that place, and no place is passed over. *)
MutantsFaithful == Answered("mutation") => Probing!MutantsExact(given[1], Structs, given[2], answer)

(* gate_fn: what is refused on sight promises nothing, and what is certified without
   proof is entitled to it. *)
GateHonest == Answered("gate") => Probing!GateExact(given[1], given[2], Word2, answer)

(* Covenants: what a covenant refutes is refuted by the code itself, on an input it
   may be given, and proof search starts only from witnesses that say what they
   claim, but for a function in which a let in a branch takes a name that is known
   before; a witness belongs to the function it stands behind. *)
CovenantsHonest ==
    /\ Answered("covenant") => Probing!CovenantExact(given[1], given[2], Word2, answer, FALSE)
    /\ Answered("witness") =>
          LET fnAt(j) == {i \in 1..(j - 1) : given[i].k = "fn" /\ \A l \in (i + 1)..(j - 1) : given[l].k # "fn"}
              blocks(x) == {j \in DOMAIN given : given[j].k = "witness" /\ \E i \in fnAt(j) : given[i].name = x}
          IN  /\ DOMAIN answer = {x \in {"f", "g"} : blocks(x) # {}}
              /\ \A x \in DOMAIN answer : \E j \in blocks(x) : answer[x] = given[j] /\ \A l \in blocks(x) : l <= j

(* export_item, export_lemma: what Lean is asked to prove of an item is its contract.  A
   kernel-accepted goal over a pure body, an arbitrary result or no body holds exactly
   where the contract does, through the unfolding of spec functions under binders; one
   over statements or a loop holds only where the code, on words, runs to its end
   without overflow and keeps the contract.  Recursive functions are proved by hand. *)
ExportsHonest ==
    Answered("export") /\ answer.kind # "refused" =>
        \/ answer.tier = "RecursiveInteractive" \/ Lean!Misread(given[1])
        \/ \A env \in Assignments(given[1].params), r \in IF given[2] = "any" THEN 0..2 ELSE {0} : Lean!HonestAt(given[1], answer, env, SpecFns, r)


(***************************************************************************)
(* Comments that the code contradicts.  They are put to the test one after *)
(* the other: where an answer contradicts one, the next is asked about.    *)
(***************************************************************************)
Claimed ==
    <<[claim |-> "effects", area |-> "admission"], [claim |-> "sealed", area |-> "admission"], [claim |-> "matches", area |-> "admission"],
      [claim |-> "measures", area |-> "admission"], [claim |-> "prelude", area |-> "prelude"], [claim |-> "comparison", area |-> "lowering"],
      [claim |-> "cast", area |-> "lowering"], [claim |-> "prefix", area |-> "lowering"], [claim |-> "run cast", area |-> "run text"],
      [claim |-> "branches", area |-> "snapshot"], [claim |-> "guards", area |-> "snapshot"], [claim |-> "returns", area |-> "run"],
      [claim |-> "shadowing", area |-> "state"], [claim |-> "leaks", area |-> "covenant"], [claim |-> "edges", area |-> "fragment"]>>

(* What each is put to the test with *)
InBody(fx, gx, e) == {Filed(EB, gx, gx, Fn("f", fx, <<>>, <<b>>)) : b \in Holding(e)}
TestedWith(c) ==
    CASE c = "effects"    -> InBody({}, {"net"}, Call("g", <<X>>))
      [] c = "sealed"     -> InBody({}, {}, StructOf("Key", "k", X))
      [] c = "matches"    -> InBody({}, {}, Match(X, <<Arm(Node("enum", "B", 1, <<>>), X)>>))
      [] c = "measures"   -> InBody({}, {}, Call("f", <<X>>))
      [] c = "prelude"    -> {<<Function(Str, Truth(TRUE), <<X>>, <<>>, <<Block(<<While(X, <<u>>, X, Block(<<>>, <<>>))>>, <<>>)>>)>> : u \in {X, Call("occurs_at", <<X>>)}}
      [] c = "comparison" -> {<<Binary(op, Binary("<", X, X), X), spec>> : op \in {"==", "<", "-"}, spec \in BOOLEAN}
      [] c = "cast"       -> LateCasts \X BOOLEAN
      [] c = "prefix"     -> {Not(X), Not(Cast(X, "u8")), Not(Binary("&", X, X))} \X BOOLEAN
      [] c = "run cast"   -> {Binary(op, Cast(X, "u8"), X) : op \in {"<", "<<", "-", "=="}}
      [] c \in {"branches", "guards"} -> Promises \ Clauses
      [] c = "returns"    -> {f \in Woven : f.params[1][2] = U64 /\ f.ret = U64 /\ f.body # <<>> /\ Len(f.ens) = 1} \X {0}
      [] c = "shadowing"  -> {Block(<<Typed("r", X), a, Let("x", Plus(X, Lit(1)))>>, <<tail>>) : a \in StmtPool, tail \in {R, Plus(R, X)}}
      [] c = "leaks"      -> Agreed({<<Block(<<Typed("r", Lit(1)), IfElse(B, Block(<<>>, <<>>), Block(<<Let("x", R)>>, <<>>))>>, <<X>>)>>},
                                    {<<<<Lit(2), Truth(FALSE)>>>>}, {1})
      [] c = "edges"      -> {p \in Nested(TRUE, Strat!UsizeS, TRUE, Strat!UsizeS) : Strat!ReadsBoundSequence(p)}

(* What each says *)
Borne(c) ==
    CASE c = "effects"    -> answer = {} => Gate!EffectsDeclared(given, TRUE)
      [] c = "sealed"     -> answer = {} => Gate!SealedKept(given, TRUE)
      [] c = "matches"    -> answer = {} => Gate!MatchesTotal(given, given[2], TRUE)
      [] c = "measures"   -> answer = {} => Gate!MeasuresGiven(given, TRUE, TRUE)
      [] c = "prelude"    -> Front!Mentioned(given) \subseteq answer.proved
      [] c \in {"comparison", "cast", "prefix", "run cast"} -> ReadByRust
      [] c = "branches"   -> ~Lowering!Rebinds(given, "t") => "t" \notin Lowering!Free(answer)
      [] c = "guards"     -> ~Lowering!Rebinds(given, "t") /\ "t" \in Lowering!Free(given) => Lowering!ReferencesIdent(given, "t")
      [] c = "returns"    -> \A x \in 0..3 : answer[x].how \in {"next", "return"} => Lowering!Delivered(given[1], Guards, [x |-> x], answer[x].v[1], 2)
      [] c = "shadowing"  -> answer.ok => ReferenceOfBody
      [] c = "leaks"      -> Probing!CovenantExact(given[1], given[2], Word2, answer, TRUE)
      [] c = "edges"      -> answer = "admitted" => Strat!FinitelyGrounded(given)

FirstClaim == claim = Claimed[1].claim /\ area = Claimed[1].area /\ given \in TestedWith(Claimed[1].claim) /\ answer = Pending
AnotherClaim ==
    /\ answer # Pending /\ ~Borne(claim)
    /\ \E i \in 1..(Len(Claimed) - 1) :
          /\ Claimed[i].claim = claim /\ claim' = Claimed[i + 1].claim /\ area' = Claimed[i + 1].area
          /\ given' \in TestedWith(Claimed[i + 1].claim) /\ answer' = Pending
ClaimsSpec == FirstClaim /\ [][Next \/ AnotherClaim]_vars

(* Not every one of these comments is contradicted.  Of admission: check_effects "walks
   every FnItem body's Expr tree", a literal of a sealed struct "(anywhere, contract or
   caged body)" is rejected, the checks of matches are applied "to every ADT node", and
   "a self-call anywhere in the body is found".  Of the lowering: the prelude follows
   "every fn/spec-fn body + every contract clause", "the AST's grouping is preserved
   verbatim", a cast before < is "a hard parse error", "the prefix binds only the
   operand", and in l1.rs "the AST grouping survives the round-trip".  Of the runnable
   form: "no node left un-renamed", an identifier is found "anywhere", "each ens asserted
   on exit".  Of the audits: body_ref_state makes no "silent wrong encoding" of a
   re-shadow, and the covenant evaluator gives "never a silent wrong value".  Of the
   stratified fragment: an occurrence "whose S-position argument contains a universally
   bound variable" gets an edge. *)
LanguageClaimHolds == claim = "edges" /\ answer # Pending => Borne("edges")
====
