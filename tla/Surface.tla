--------------------------------- MODULE Surface ----------------------------------
(***************************************************************************)
(* The abstract syntax of the surface language (thermite-syntax/src/ast.rs)*)
(* as trees of one shape, and what the expressions of a contract mean.     *)
(*                                                                         *)
(* A node is [k, x, n, s]: its kind, a name or operator, a number, and its *)
(* children in source order.  Expressions, statements, blocks, patterns    *)
(* and types are nodes; positions and verbatim text are left out.          *)
(***************************************************************************)
EXTENDS Integers, Sequences, FiniteSets

Node(k, x, n, s) == [k |-> k, x |-> x, n |-> n, s |-> s]

ExprKinds == {"int", "bool", "path", "call", "method", "field", "closure", "match", "if",
              "binary", "unary", "index", "cast", "ref", "struct", "is", "deref", "str",
              "tuple", "proj", "quant"}
StmtKinds == {"let", "assign", "return", "ifstmt", "loop", "while", "break", "continue", "expr"}
PatternKinds == {"wild", "lit", "bind", "slice", "enum", "structpat", "or"}
TypeKinds == {"prim", "unit", "refty", "slicety", "generic", "named", "box", "vec", "string",
              "option", "result", "map", "tuplety"}

Comparisons == {"==", "!=", "<", "<=", ">", ">="}
Arithmetic  == {"+", "-", "*"}
Division    == {"/", "%"}
Shifts      == {"<<", ">>"}
BitOps     == {"&", "|", "^"}
Connectives == {"&&", "||"}
BinOps      == Comparisons \cup Arithmetic \cup Division \cup Shifts \cup BitOps \cup Connectives

Lit(n)         == Node("int", "", n, <<>>)
Truth(b)       == Node("bool", "", IF b THEN 1 ELSE 0, <<>>)
Path(x)        == Node("path", x, 1, <<>>)     \* n is the number of segments
Binary(op, l, r) == Node("binary", op, 0, <<l, r>>)
Not(e)         == Node("unary", "!", 0, <<e>>)
Call(f, args)  == Node("call", f, 0, args)     \* a call of a function by its name
Method(m, e, args) == Node("method", m, 0, <<e>> \o args)
Field(e, x)    == Node("field", x, 0, <<e>>)
Index(e, i)    == Node("index", "single", 0, <<e, i>>)
Cast(e, t)     == Node("cast", t, 0, <<e>>)
Ref(e)         == Node("ref", "", 0, <<e>>)
Deref(e)       == Node("deref", "", 0, <<e>>)
Tuple(es)      == Node("tuple", "", 0, es)
Is(e, v)       == Node("is", v, 0, <<e>>)
Quant(q, x, domain, body) == Node("quant", q, 0, <<Path(x), domain, body>>)
Closure(x, e)  == Node("closure", "", 1, <<Path(x), e>>)

(* A block is its statements and then its tail; n = 1 if there is a tail. *)
Block(stmts, tail) == Node("block", "", Len(tail), stmts \o tail)
If(c, then, else_) == Node("if", "", 0, <<c, then, else_>>)
Let(x, e)      == Node("let", x, 0, <<e>>)   \* its type, if any, goes before e
Assign(t, e)   == Node("assign", "", 0, <<t, e>>)
Return(e)      == Node("return", "", 1, <<e>>)
IfStmt(c, then) == Node("ifstmt", "", 0, <<c, then>>)
IfElse(c, then, else_) == Node("ifstmt", "", 0, <<c, then, else_>>)
Forever(invs, dec, body) == Node("loop", "", Len(invs), invs \o <<dec, body>>)
While(c, invs, dec, body) == Node("while", "", Len(invs), <<c>> \o invs \o <<dec, body>>)

Result == Path("result")

Stmts(b)   == SubSeq(b.s, 1, Len(b.s) - b.n)
HasTail(b) == b.n = 1
TailOf(b)  == b.s[Len(b.s)]

(* All nodes of a tree, and whether one of them is of a kind. *)
RECURSIVE Subtrees(_)
Subtrees(e) == {e} \cup UNION {Subtrees(e.s[i]) : i \in DOMAIN e.s}

RECURSIVE Depth(_)
Depth(e) == 1 + (IF e.s = <<>> THEN 0
                 ELSE LET ds == {Depth(e.s[i]) : i \in DOMAIN e.s}
                      IN  CHOOSE d \in ds : \A c \in ds : c <= d)

(***************************************************************************)
(* Meaning.  A value is [ok, v]: not ok where Rust panics (overflow,       *)
(* division by zero, a shift by too much) when the code is executed; in a  *)
(* specification the same operators are over the integers.  Booleans are   *)
(* the numbers 0 and 1.                                                    *)
(***************************************************************************)
Value(v) == [ok |-> TRUE, v |-> v]
Panic    == [ok |-> FALSE, v |-> 0]

Flag(b) == IF b THEN 1 ELSE 0

RECURSIVE Power(_)
Power(n) == IF n = 0 THEN 1 ELSE 2 * Power(n - 1)

(* Rust's division and remainder truncate. *)
Quotient(a, b) ==
    IF a >= 0 THEN (IF b > 0 THEN a \div b ELSE -(a \div (-b)))
    ELSE (IF b > 0 THEN -((-a) \div b) ELSE (-a) \div (-b))

RECURSIVE BitsOp(_, _, _, _)
BitsOp(op, a, b, w) ==
    IF w = 0 THEN 0
    ELSE 2 * BitsOp(op, a \div 2, b \div 2, w - 1)
         + LET x == a % 2
               y == b % 2
           IN  CASE op = "&" -> x * y [] op = "|" -> Flag(x + y > 0) [] OTHER -> (x + y) % 2

(* A binary operator on integers, without wrapping. *)
Apply(op, a, b, w) ==
    CASE op = "+" -> Value(a + b)  [] op = "-" -> Value(a - b)  [] op = "*" -> Value(a * b)
      [] op = "/" -> IF b = 0 THEN Panic ELSE Value(Quotient(a, b))
      [] op = "%" -> IF b = 0 THEN Panic ELSE Value(a - b * Quotient(a, b))
      [] op = "<<" -> IF b < 0 \/ b >= w THEN Panic ELSE Value((a * Power(b)) % Power(w))
      [] op = ">>" -> IF b < 0 \/ b >= w THEN Panic ELSE Value(a \div Power(b))
      [] op \in BitOps -> Value(BitsOp(op, a, b, w))
      [] op = "==" -> Value(Flag(a = b))  [] op = "!=" -> Value(Flag(a # b))
      [] op = "<"  -> Value(Flag(a < b))  [] op = "<=" -> Value(Flag(a <= b))
      [] op = ">"  -> Value(Flag(a > b))  [] op = ">=" -> Value(Flag(a >= b))
      [] op = "&&" -> Value(a * b)        [] op = "||" -> Value(Flag(a + b > 0))

(* The value of an expression of scalars.  mode is "spec" (the integers),      *)
(* "exec" (w-bit unsigned code, which panics) or "bv" (w bits, which wrap).    *)
RECURSIVE Eval(_, _, _, _)
Eval(e, env, mode, w) ==
    LET sub(i) == Eval(e.s[i], env, mode, w)
        lazy(stop) == IF ~sub(1).ok THEN Panic
                      ELSE IF sub(1).v = stop THEN sub(1) ELSE sub(2)
        fit(r) == IF ~r.ok THEN r
                  ELSE CASE mode = "spec" -> r
                         [] mode = "exec" -> IF r.v \in 0..(Power(w) - 1) THEN r ELSE Panic
                         [] OTHER         -> Value(r.v % Power(w))
    IN  CASE e.k \in {"int", "bool"} -> fit(Value(e.n))
          [] e.k = "path"  -> IF e.x \in DOMAIN env THEN Value(env[e.x]) ELSE Panic
          [] e.k = "unary" -> IF sub(1).ok THEN Value(1 - sub(1).v) ELSE Panic
          [] e.k = "binary" /\ e.x = "&&" -> lazy(0)
          [] e.k = "binary" /\ e.x = "||" -> lazy(1)
          [] e.k = "binary" -> IF sub(1).ok /\ sub(2).ok
                               THEN fit(Apply(e.x, sub(1).v, sub(2).v, w)) ELSE Panic
          [] e.k = "if"    -> IF ~sub(1).ok THEN Panic ELSE IF sub(1).v = 1 THEN sub(2) ELSE sub(3)
          [] e.k = "block" -> IF e.n = 1 /\ Len(e.s) = 1 THEN sub(1) ELSE Panic
          [] e.k \in {"ref", "deref"} -> sub(1)
          [] e.k = "cast"  -> IF sub(1).ok THEN Value(sub(1).v % Power(w)) ELSE Panic
          [] OTHER         -> Panic

(***************************************************************************)
(* Reference definition for the parser: the tokens of a tree, written with *)
(* the parentheses the grammar of the language needs and no others.  It is *)
(* independent of parser.rs; the parser must read its output back.         *)
(***************************************************************************)

(* How tightly a tree binds: 1 for || up to 13 for what needs no operator. *)
Binding(e) ==
    CASE e.k = "binary" -> CASE e.x = "||" -> 1 [] e.x = "&&" -> 2 [] e.x \in Comparisons -> 3
                             [] e.x = "|" -> 5 [] e.x = "^" -> 6 [] e.x = "&" -> 7
                             [] e.x \in Shifts -> 8 [] e.x \in {"+", "-"} -> 9 [] OTHER -> 10
      [] e.k = "is" -> 4
      [] e.k = "cast" -> 11
      [] e.k = "unary" -> 12
      [] e.k \in {"ref", "deref"} -> 13
      [] e.k \in {"closure", "quant"} -> 0
      [] OTHER -> 14

Digit(n) == <<"0", "1", "2">>[n + 1]

RECURSIVE Tokens(_, _, _)
RECURSIVE Separated(_)
Separated(es) ==
    IF es = <<>> THEN <<>>
    ELSE Tokens(es[1], 0, FALSE) \o (IF Len(es) = 1 THEN <<>> ELSE <<",">> \o Separated(SubSeq(es, 2, Len(es))))

RECURSIVE BlockTokens(_)

(* A dot ends the domain of a quantifier, so a domain with one is parenthesised. *)
RECURSIVE ShowsDot(_)
ShowsDot(e) == e.k \in {"field", "method", "proj", "quant"}
               \/ (e.k \in {"binary", "is", "cast", "unary", "ref", "deref"} /\ \E i \in DOMAIN e.s : ShowsDot(e.s[i]))

Plain(e, hard) ==
    LET sub(i, m) == Tokens(e.s[i], m, hard)
        b == Binding(e)
    IN  CASE e.k = "int"  -> <<Digit(e.n)>>
          [] e.k = "bool" -> <<IF e.n = 1 THEN "true" ELSE "false">>
          [] e.k = "path" -> <<e.x>>
          [] e.k = "binary" -> sub(1, IF b = 3 THEN 4 ELSE b) \o <<e.x>> \o sub(2, b + 1)
          [] e.k = "is"   -> sub(1, 5) \o <<"is", e.x>>
          [] e.k = "cast" -> sub(1, 11) \o <<"as", e.x>>
          [] e.k = "unary" -> <<"!">> \o sub(1, 12)
          [] e.k = "ref"  -> <<"&">> \o (IF e.n = 1 THEN <<"mut">> ELSE <<>>) \o sub(1, 13)
          [] e.k = "deref" -> <<"*">> \o sub(1, 13)
          [] e.k = "call" -> <<e.x, "(">> \o Separated(e.s) \o <<")">>
          [] e.k = "method" -> sub(1, 14) \o <<".", e.x, "(">> \o Separated(SubSeq(e.s, 2, Len(e.s))) \o <<")">>
          [] e.k = "field" -> sub(1, 14) \o <<".", e.x>>
          [] e.k = "proj" -> sub(1, 14) \o <<".", Digit(e.n)>>
          [] e.k = "index" -> sub(1, 14) \o <<"[">> \o Tokens(e.s[2], 0, FALSE) \o <<"]">>
          [] e.k = "tuple" -> <<"(">> \o Separated(e.s) \o <<")">>
          [] e.k = "struct" -> <<e.x, "{", e.s[1].x, ":">> \o Tokens(e.s[1].s[1], 0, FALSE) \o <<"}">>
          [] e.k = "closure" -> <<"|", e.s[1].x, "|">> \o sub(2, 0)
          [] e.k = "quant" -> <<e.x, "(", e.s[1].x, ":", "u8", ")", "in">>
                              \o (IF ShowsDot(e.s[2]) THEN <<"(">> \o Tokens(e.s[2], 0, FALSE) \o <<")">>
                                  ELSE sub(2, 1))
                              \o <<".">> \o sub(3, 0)
          [] e.k = "if" -> <<"if">> \o Tokens(e.s[1], 0, TRUE) \o BlockTokens(e.s[2]) \o <<"else">> \o BlockTokens(e.s[3])

(* The tokens of an expression at a place that wants a binding of at least m;   *)
(* at a place without struct literals (hard) one is put in parentheses.         *)
Tokens(e, m, hard) ==
    IF Binding(e) < m \/ (hard /\ e.k = "struct")
    THEN <<"(">> \o Plain(e, FALSE) \o <<")">>
    ELSE Plain(e, hard)

RECURSIVE StatementTokens(_)
StatementTokens(t) ==
    CASE t.k = "let" -> <<"let">> \o (IF t.n = 1 THEN <<"mut">> ELSE <<>>) \o <<t.x, "=">> \o Tokens(t.s[Len(t.s)], 0, FALSE) \o <<";">>
      [] t.k = "assign" -> Tokens(t.s[1], 0, FALSE) \o <<"=">> \o Tokens(t.s[2], 0, FALSE) \o <<";">>
      [] t.k = "return" -> <<"return">> \o (IF t.n = 1 THEN Tokens(t.s[1], 0, FALSE) ELSE <<>>) \o <<";">>
      [] t.k = "expr" -> Tokens(t.s[1], 0, FALSE) \o <<";">>
      [] t.k \in {"break", "continue"} -> <<t.k, ";">>
      [] t.k = "ifstmt" -> <<"if">> \o Tokens(t.s[1], 0, TRUE) \o BlockTokens(t.s[2])
                           \o (IF Len(t.s) = 3 THEN <<"else">> \o BlockTokens(t.s[3]) ELSE <<>>)
      [] t.k = "while" -> <<"while">> \o Tokens(t.s[1], 0, TRUE) \o <<"inv">> \o Tokens(t.s[2], 0, TRUE)
                          \o <<"dec">> \o Tokens(t.s[3], 0, TRUE) \o BlockTokens(t.s[4])

RECURSIVE Concatenated(_)
Concatenated(ss) == IF ss = <<>> THEN <<>> ELSE StatementTokens(ss[1]) \o Concatenated(SubSeq(ss, 2, Len(ss)))

BlockTokens(b) ==
    <<"{">> \o Concatenated(Stmts(b)) \o (IF HasTail(b) THEN Tokens(TailOf(b), 0, FALSE) ELSE <<>>) \o <<"}">>

(* fn f(x: u8) -> u8 req e ens e fx pure { .. } *)
FnTokens(name, req, ens, body) ==
    <<"fn", name, "(", "x", ":", "u8", ")", "->", "u8", "req">> \o Tokens(req, 0, TRUE)
    \o <<"ens">> \o Tokens(ens, 0, TRUE) \o <<"fx", "pure">> \o BlockTokens(body)

(***************************************************************************)
(* What the statements of the surface language do when they are executed   *)
(* on words of w bits: the reading that the tools which rewrite or encode  *)
(* bodies have to agree with.  A state is an environment, the values that  *)
(* a block has hidden by a let, and how the last statement ended.          *)
(***************************************************************************)

Running(env) == [how |-> "next", env |-> env, hidden |-> [x \in {} |-> 0], v |-> <<>>]
Ended(s, how, v) == [s EXCEPT !.how = how, !.v = v]
With(f, x, v) == [y \in DOMAIN f \cup {x} |-> IF y = x THEN v ELSE f[y]]

(* The values of an expression: of a tuple, those of its parts. *)
Values(e, env, w) ==
    LET es == IF e.k = "tuple" THEN e.s ELSE <<e>>
    IN  [i \in DOMAIN es |-> Eval(es[i], env, "exec", w)]
Fine(vs)  == \A i \in DOMAIN vs : vs[i].ok
Plainly(vs) == [i \in DOMAIN vs |-> vs[i].v]

(* A block, a statement sequence, and the two ways on from a loop's condition and *)
(* from an if run one another.                                                    *)
RECURSIVE Exec(_, _, _, _, _)
ExecBlock(b, env, w, fuel) == Exec("block", b, Running(env), w, fuel)
ExecStmts(ts, s, w, fuel)  == Exec("stmts", ts, s, w, fuel)

(* After a block its own names are gone and what they hid is back. *)
LeaveBlock(out, env) ==
    [out EXCEPT !.env = [x \in DOMAIN env |-> IF x \in DOMAIN out.hidden THEN out.hidden[x] ELSE out.env[x]],
                !.hidden = [x \in {} |-> 0]]

(* A value found for the rest of a block *)
Yield(s, vs) == IF Fine(vs) THEN Ended(s, "next", Plainly(vs)) ELSE Ended(s, "panic", <<>>)

(* The value of a tail, which may be an if over blocks *)
ExecTail(e, s, w, fuel) ==
    IF s.how # "next" THEN s
    ELSE IF e.k = "if" THEN Exec("branch", Node("ifstmt", "", 0, e.s), s, w, fuel)
    ELSE Yield(s, Values(e, s.env, w))

(* What a state is after a block within it was run *)
Resumed(s, r) == [s EXCEPT !.env = r.env, !.how = r.how, !.v = r.v]

(* The branch that an if takes, none without else *)
ExecIf(t, c, s, w, fuel) ==
    CASE ~c.ok -> Ended(s, "panic", <<>>)
      [] c.ok /\ c.v # 1 /\ Len(t.s) = 2 -> s
      [] OTHER -> Resumed(s, ExecBlock(IF c.v = 1 THEN t.s[2] ELSE t.s[3], s.env, w, fuel))

(* A loop after one more run of its body *)
Looped(l, s, r, w, fuel) ==
    CASE r.how \in {"next", "continue"} -> Exec("stmts", <<l>>, [s EXCEPT !.env = r.env], w, fuel - 1)
      [] r.how = "break" -> [s EXCEPT !.env = r.env]
      [] OTHER -> Resumed(s, r)

ExecWhile(l, c, s, w, fuel) ==
    CASE ~c.ok -> Ended(s, "panic", <<>>)
      [] c.ok /\ c.v = 0 -> s
      [] c.ok /\ c.v # 0 /\ fuel = 0 -> Ended(s, "endless", <<>>)
      [] OTHER -> Looped(l, s, ExecBlock(l.s[Len(l.s)], s.env, w, fuel), w, fuel)

ExecSimple(t, vs, s) ==
    CASE ~Fine(vs) -> Ended(s, "panic", <<>>)
      [] Fine(vs) /\ t.k = "let" ->
            [s EXCEPT !.env = With(s.env, t.x, vs[1].v),
                      !.hidden = IF t.x \in DOMAIN s.env /\ t.x \notin DOMAIN s.hidden
                                 THEN With(s.hidden, t.x, s.env[t.x]) ELSE s.hidden]
      [] Fine(vs) /\ t.k = "assign" -> [s EXCEPT !.env = With(s.env, t.s[1].x, vs[1].v)]
      [] Fine(vs) /\ t.k = "return" -> Ended(s, "return", Plainly(vs))
      [] Fine(vs) /\ t.k = "expr"   -> s

ExecStmt(t, s, w, fuel) ==
    CASE t.k \in {"let", "assign", "return", "expr"} -> ExecSimple(t, Values(t.s[Len(t.s)], s.env, w), s)
      [] t.k \in {"break", "continue"} -> Ended(s, t.k, <<>>)
      [] t.k = "ifstmt" -> Exec("branch", t, s, w, fuel)
      [] t.k = "while"  -> ExecWhile(t, Eval(t.s[1], s.env, "exec", w), s, w, fuel)
      [] t.k = "loop"   -> ExecWhile(t, Value(1), s, w, fuel)

Exec(what, t, s, w, fuel) ==
    CASE what = "block" ->
            LeaveBlock(IF HasTail(t) THEN ExecTail(TailOf(t), ExecStmts(Stmts(t), s, w, fuel), w, fuel)
                       ELSE ExecStmts(Stmts(t), s, w, fuel), s.env)
      [] what = "stmts" -> IF t = <<>> \/ s.how # "next" THEN s
                           ELSE ExecStmts(SubSeq(t, 2, Len(t)), ExecStmt(t[1], s, w, fuel), w, fuel)
      [] what = "branch" -> ExecIf(t, Eval(t.s[1], s.env, "exec", w), s, w, fuel)

(* A body run on its arguments: its value, or none where it panics or does not end. *)
RunBody(b, args, w, fuel) ==
    LET s == ExecBlock(b, args, w, fuel)
    IN  [ok |-> s.how \in {"next", "return"}, v |-> s.v]
===================================================================================
