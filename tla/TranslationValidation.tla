-------------------------- MODULE TranslationValidation --------------------------
(***************************************************************************)
(* The reference encoders of translation validation: the second, and       *)
(* independent, rendering of a contract clause (thermite-tv/src/           *)
(* ref_encode.rs) and of an expression of a body (thermite-tv/src/         *)
(* exec_encode.rs).  Both parenthesise every operator, so that what they   *)
(* write groups as it was meant.                                           *)
(*                                                                         *)
(* A context c has the names that are already sequences (seqs), strings,   *)
(* maps, the scalars that are compared as nat (nats), and for a body the   *)
(* slice parameters (slices).  An answer is [ok, t]: the tokens, or none.  *)
(* The Verus view x@ is written as a field.                                *)
(***************************************************************************)
EXTENDS Surface

Written(t)  == [ok |-> TRUE, t |-> t]
Unsupported == [ok |-> FALSE, t |-> <<>>]

Wrapped(t) == <<"(">> \o t \o <<")">>
Digits(n)  == <<"0", "1", "2">>[n + 1]
Bounded    == {"u8", "u16", "u32", "u64", "usize"}
IsName(e)  == e.k = "path" /\ e.n = 1
IsLess(op) == op \in {"<", "<=", "<<"}

RECURSIVE Joined(_)
Joined(rs) ==
    IF rs = <<>> THEN Written(<<>>)
    ELSE LET rest == Joined(SubSeq(rs, 2, Len(rs)))
         IN  IF ~rs[1].ok \/ ~rest.ok THEN Unsupported
             ELSE Written(rs[1].t \o (IF Len(rs) = 1 THEN <<>> ELSE <<",">> \o rest.t))

(* before . r . after, if r is supported *)
Around(before, r, after) == IF r.ok THEN Written(before \o r.t \o after) ELSE Unsupported
Both(l, between, r) == IF l.ok /\ r.ok THEN Written(l.t \o between \o r.t) ELSE Unsupported

EncodePath(e) == Written(IF e.n = 1 THEN <<e.x>> ELSE <<e.x, "::", e.s[1].x>>)

(***************************************************************************)
(* Contracts: ref_encode.rs.                                               *)
(***************************************************************************)
(* The kinds of the arguments of the combinators of the registry *)
ArgKinds ==
    [sorted |-> <<"slice">>, forall_in |-> <<"slice", "pred">>, exists_in |-> <<"slice", "pred">>,
     count_where |-> <<"slice", "pred">>, permutation_of |-> <<"slice", "slice">>,
     disjoint |-> <<"slice", "slice">>, forall_below |-> <<"slice", "index", "pred">>,
     forall_from |-> <<"slice", "index", "pred">>]

RECURSIVE Encode(_, _)

(* encode_slice_arg: a bare name that is no sequence is viewed as one *)
EncodeSliceArg(a, c) == IF IsName(a) /\ a.x \notin c.seqs THEN Written(<<a.x, ".", "view">>) ELSE Encode(a, c)

(* encode_index_value: an index is an int *)
EncodeIndexValue(a, c) ==
    CASE a.k = "int"  -> Encode(a, c)
      [] a.k = "path" -> Around(<<>>, EncodePath(a), <<"as", "int">>)
      [] OTHER        -> Around(<<"(">>, Encode(a, c), <<")", "as", "int">>)

(* encode_pred_arg: a closure of one parameter *)
EncodePredArg(a, c) ==
    IF a.k = "closure" /\ a.n = 1 THEN Around(<<"|", a.s[1].x, "|">>, Encode(a.s[2], c), <<>>) ELSE Unsupported

(* encode_combinator_arg *)
EncodeCombinatorArg(a, kind, c) ==
    CASE kind = "slice" -> EncodeSliceArg(a, c) [] kind = "index" -> EncodeIndexValue(a, c)
      [] kind = "pred" -> EncodePredArg(a, c)   [] OTHER -> Encode(a, c)

(* encode_combinator_call *)
EncodeCombinatorCall(e, c) ==
    IF Len(e.s) # Len(ArgKinds[e.x]) THEN Unsupported
    ELSE Around(<<e.x, "(">>, Joined([i \in DOMAIN e.s |-> EncodeCombinatorArg(e.s[i], ArgKinds[e.x][i], c)]),
                <<")">>)

(* encode_call, encode_call_arg: old(e) becomes a parameter old_e *)
EncodeCall(e, c) ==
    CASE e.x \in {"final", "old"} /\ Len(e.s) # 1 -> Unsupported
      [] e.x = "final" -> Around(<<"final", "(">>, Encode(e.s[1], c), <<")">>)
      [] e.x = "old"   -> LET r == Encode(e.s[1], c)
                          IN  IF r.ok THEN Written([r.t EXCEPT ![1] = "old_" \o r.t[1]]) ELSE Unsupported
      [] e.x \in DOMAIN ArgKinds -> EncodeCombinatorCall(e, c)
      [] OTHER -> Around(<<e.x, "(">>,
                         Joined([i \in DOMAIN e.s |-> IF e.s[i].k = "closure" THEN EncodePredArg(e.s[i], c)
                                                      ELSE EncodeSliceArg(e.s[i], c)]), <<")">>)

(* encode_receiver: as a sequence *)
EncodeReceiver(e, c) ==
    CASE IsName(e) /\ e.x \notin c.seqs -> Written(<<e.x, ".", "view">>)
      [] e.k = "call" /\ e.x = "final"  -> Around(<<>>, Encode(e, c), <<".", "view">>)
      [] OTHER -> Encode(e, c)

(* encode_string_byteview *)
EncodeStringByteview(e, c) ==
    CASE e.x = "len" /\ Len(e.s) = 1 -> Written(<<e.s[1].x, ".", "spec_len", "(", ")">>)
      [] e.x = "byte_at" /\ Len(e.s) = 2 ->
            Around(<<e.s[1].x, ".", "spec_byte_at", "(">>, EncodeIndexValue(e.s[2], c), <<")">>)
      [] OTHER -> Unsupported

(* encode_map_accessor *)
EncodeMapAccessor(e, c) ==
    CASE e.x = "contains_key" /\ Len(e.s) = 2 ->
            Around(<<e.s[1].x, ".", "spec_contains_key", "(">>, Encode(e.s[2], c), <<")">>)
      [] e.x = "len" /\ Len(e.s) = 1 -> Written(<<e.s[1].x, ".", "len", "(", ")">>)
      [] OTHER -> Unsupported

EncodeSubrange(recv, lo, hi) == Around(<<>>, Both(Around(<<>>, recv, <<".", "subrange", "(">>), <<>>,
                                                  Both(lo, <<",">>, hi)), <<")">>)

(* encode_method_call *)
EncodeMethodCall(e, c) ==
    LET r == e.s[1]
        index(i) == EncodeIndexValue(e.s[i], c)
    IN  CASE IsName(r) /\ r.x \in c.strings -> EncodeStringByteview(e, c)
          [] IsName(r) /\ r.x \in c.maps    -> EncodeMapAccessor(e, c)
          [] e.x = "byte_at" /\ Len(e.s) = 2 ->
                Around(<<>>, Both(EncodeReceiver(r, c), <<"[">>, index(2)), <<"]">>)
          [] e.x = "len" /\ Len(e.s) = 1 -> Around(<<>>, Encode(r, c), <<".", "len", "(", ")">>)
          [] e.x = "slice" /\ Len(e.s) = 3 -> EncodeSubrange(EncodeReceiver(r, c), index(2), index(3))
          [] OTHER -> Unsupported

(* encode_index *)
EncodeIndex(e, c) ==
    LET recv == EncodeReceiver(e.s[1], c)
        index(i) == EncodeIndexValue(e.s[i], c)
    IN  CASE e.x = "single" -> Around(<<>>, Both(recv, <<"[">>, index(2)), <<"]">>)
          [] e.x = "to"     -> EncodeSubrange(recv, Written(<<"0">>), index(2))
          [] e.x = "from"   -> EncodeSubrange(recv, index(2), Around(<<>>, recv, <<".", "len", "(", ")", "as", "int">>))
          [] OTHER          -> EncodeSubrange(recv, index(2), index(3))

(* encode_ref: of an index or of a name *)
EncodeRef(e, c) ==
    CASE e.s[1].k = "index" -> EncodeIndex(e.s[1], c)
      [] e.s[1].k = "path"  -> EncodeSliceArg(e.s[1], c)
      [] OTHER -> Unsupported

(* cast_target: a cast to bool is refused *)
EncodeCast(e, c) ==
    IF e.x \in Bounded \cup {"nat", "int"} THEN Around(<<"(">>, Encode(e.s[1], c), <<")", "as", e.x>>) ELSE Unsupported

(* Mutant: the cast on the left of < or << loses its parentheses. *)
BinaryOperandUnwrapped(a, op, isLeft, r) == r

(* encode_binary_operand *)
EncodeBinaryOperand(a, op, isLeft, r) ==
    IF isLeft /\ a.k = "cast" /\ IsLess(op) THEN Around(<<"(">>, r, <<")">>) ELSE r

(* encode_comparison_operand: only equality with a call widens a scalar *)
EncodeComparisonOperand(a, other, op, isLeft, c) ==
    IF op = "==" /\ other.k = "call" /\ IsName(a) /\ a.x \in c.nats THEN Written(<<a.x, "as", "nat">>)
    ELSE EncodeBinaryOperand(a, op, isLeft, Encode(a, c))

(* encode_binary *)
EncodeBinary(e, c) ==
    Around(<<"(">>, Both(EncodeComparisonOperand(e.s[1], e.s[2], e.x, TRUE, c), <<e.x>>,
                         EncodeComparisonOperand(e.s[2], e.s[1], e.x, FALSE, c)), <<")">>)

RECURSIVE EncodePattern(_)
(* encode_pattern: the variants of Option and Result *)
EncodePattern(q) ==
    CASE q.k = "wild" -> Written(<<"_">>)
      [] q.k = "bind" -> Written(<<q.x>>)
      [] q.k = "enum" /\ q.n = 1 /\ q.x \in {"Some", "None", "Ok", "Err"} ->
            IF q.s = <<>> THEN Written(<<q.x>>)
            ELSE Around(<<q.x, "(">>, Joined([i \in DOMAIN q.s |-> EncodePattern(q.s[i])]), <<")">>)
      [] OTHER -> Unsupported

RECURSIVE EncodeArms(_, _)
EncodeArms(arms, c) ==
    IF arms = <<>> THEN Written(<<>>)
    ELSE LET a == arms[1]
             guard == IF a.n = 1 THEN Around(<<"if">>, Encode(a.s[2], c), <<>>) ELSE Written(<<>>)
         IN  Both(Both(Both(EncodePattern(a.s[1]), <<>>, guard), <<"=>">>, Encode(a.s[Len(a.s)], c)), <<",">>,
                  EncodeArms(SubSeq(arms, 2, Len(arms)), c))

(* encode_match *)
EncodeMatch(e, c) ==
    Around(<<"match">>, Both(Encode(e.s[1], c), <<"{">>, EncodeArms(SubSeq(e.s, 2, Len(e.s)), c)), <<"}">>)

(* encode *)
Encode(e, c) ==
    CASE e.k = "int"    -> Written(<<Digits(e.n)>>)
      [] e.k = "bool"   -> Written(<<IF e.n = 1 THEN "true" ELSE "false">>)
      [] e.k = "path"   -> EncodePath(e)
      [] e.k = "binary" -> EncodeBinary(e, c)
      [] e.k = "unary"  -> Around(<<"(", "!">>, Encode(e.s[1], c), <<")">>)
      [] e.k = "call"   -> EncodeCall(e, c)
      [] e.k = "method" -> EncodeMethodCall(e, c)
      [] e.k = "index"  -> EncodeIndex(e, c)
      [] e.k = "ref"    -> EncodeRef(e, c)
      [] e.k = "cast"   -> EncodeCast(e, c)
      [] e.k = "field"  -> Around(<<>>, Encode(e.s[1], c), <<".", e.x>>)
      [] e.k = "proj"   -> Around(<<>>, Encode(e.s[1], c), <<".", Digits(e.n)>>)
      [] e.k = "is"     -> Around(<<"(">>, Encode(e.s[1], c), <<"is", e.x, ")">>)
      [] e.k = "match"  -> EncodeMatch(e, c)
      [] OTHER          -> Unsupported

(* ref_contract_pred *)
RefContractPred(e, c) == Encode(e, c)

(***************************************************************************)
(* Bodies: exec_encode.rs.                                                 *)
(***************************************************************************)
RECURSIVE ExecEncode(_, _)

(* encode_index, encode_index_value: one element of a slice parameter *)
ExecIndex(e, c) ==
    LET i == ExecEncode(e.s[2], c)
    IN  IF e.x # "single" \/ ~IsName(e.s[1]) \/ e.s[1].x \notin c.slices THEN Unsupported
        ELSE Around(<<e.s[1].x, "[">>, CASE e.s[2].k = "int"  -> i
                                         [] e.s[2].k = "path" -> Around(<<>>, i, <<"as", "int">>)
                                         [] OTHER -> Around(<<"(">>, i, <<")", "as", "int">>), <<"]">>)

(* encode_cast, cast_target *)
ExecCast(e, c) == IF e.x \in Bounded THEN Around(<<>>, ExecEncode(e.s[1], c), <<"as", e.x>>) ELSE Unsupported

(* encode *)
ExecEncode(e, c) ==
    LET sub(i) == ExecEncode(e.s[i], c)
    IN  CASE e.k \in {"int", "bool", "path"} -> Encode(e, c)
          [] e.k = "binary" -> Around(<<"(">>, Both(EncodeBinaryOperand(e.s[1], e.x, TRUE, sub(1)), <<e.x>>, sub(2)),
                                      <<")">>)
          [] e.k = "unary"  -> Around(<<"(", "!">>, sub(1), <<")">>)
          [] e.k = "call"   -> Around(<<e.x, "(">>, Joined([i \in DOMAIN e.s |-> sub(i)]), <<")">>)
          [] e.k = "index"  -> ExecIndex(e, c)
          [] e.k = "cast"   -> ExecCast(e, c)
          [] OTHER -> Unsupported

(* exec_ref_value *)
ExecRefValue(e, c) == ExecEncode(e, c)

(***************************************************************************)
(* What a clause says, whoever writes it: casts to int and nat, views and  *)
(* references change nothing, byte_at is an index and slice a range.       *)
(***************************************************************************)
RECURSIVE Canonical(_)
Canonical(e) ==
    LET s == [i \in DOMAIN e.s |-> Canonical(e.s[i])]
        len(x) == Node("method", "len", 0, <<x>>)
        cut(lo, hi) == Node("cut", "", 0, <<s[1], lo, hi>>)
    IN  CASE e.k = "cast" /\ e.x \in {"int", "nat"} -> s[1]
          [] e.k = "ref" \/ (e.k = "field" /\ e.x = "view") -> s[1]
          [] e.k = "method" /\ e.x \in {"byte_at", "spec_byte_at"} -> Node("index", "single", 0, s)
          [] e.k = "method" /\ e.x = "spec_len" -> len(s[1])
          [] e.k = "method" /\ e.x = "spec_contains_key" -> Node("method", "contains_key", 0, s)
          [] e.k = "method" /\ e.x \in {"slice", "subrange"} -> cut(s[2], s[3])
          [] e.k = "index" /\ e.x = "to"    -> cut(Lit(0), s[2])
          [] e.k = "index" /\ e.x = "from"  -> cut(s[2], len(s[1]))
          [] e.k = "index" /\ e.x = "range" -> cut(s[2], s[3])
          [] e.k = "call" /\ e.x = "old"    -> Path("old_" \o s[1].x)
          [] OTHER -> [e EXCEPT !.s = s]

(***************************************************************************)
(* The reference of a body (thermite-tv/src/exec_stmt_encode.rs): its      *)
(* statements are threaded through an environment from names to            *)
(* expressions over the parameters, and the reference is the expression of *)
(* its tail; and the obligations of a body that ends in one while loop     *)
(* (thermite-tv/src/obligation.rs).  Expressions are trees here, since     *)
(* exec_encode parenthesises what it writes; an environment or an          *)
(* expression comes as [ok, v].                                            *)
(***************************************************************************)
Done(v) == [ok |-> TRUE, v |-> v]
Refused == [ok |-> FALSE, v |-> <<>>]

Empty == [x \in {} |-> Lit(0)]
Bound(env, x, e) == [y \in DOMAIN env \cup {x} |-> IF y = x THEN e ELSE env[y]]

RECURSIVE Substitute(_, _)
(* substitute: not below if, match, methods, fields and struct literals *)
Substitute(e, env) ==
    CASE IsName(e) /\ e.x \in DOMAIN env -> env[e.x]
      [] e.k \in {"binary", "unary", "cast", "call", "index", "tuple"} ->
            [e EXCEPT !.s = [i \in DOMAIN e.s |-> Substitute(e.s[i], env)]]
      [] OTHER -> e

RECURSIVE ThreadStmts(_, _), ThreadStmt(_, _)

(* thread_branch: a branch has no value *)
ThreadBranch(b, env) == IF HasTail(b) THEN Refused ELSE ThreadStmts(b.s, env)

(* What the two branches left in a cell *)
Merged(cond, then, else_, pre) ==
    IF then = pre /\ else_ = pre THEN pre ELSE If(cond, Block(<<>>, <<then>>), Block(<<>>, <<else_>>))

(* Mutant: the else branch starts from what the then branch left. *)
ThreadIfChained(t, env) ==
    LET then  == ThreadBranch(t.s[2], env)
        else_ == IF Len(t.s) = 3 THEN ThreadBranch(t.s[3], then.v) ELSE Done(env)
    IN  IF ~then.ok \/ ~else_.ok THEN Refused
        ELSE Done([x \in DOMAIN env |-> Merged(Substitute(t.s[1], env), then.v[x], else_.v[x], env[x])])

(* The If case of thread_stmt: the cells of the outer environment are merged *)
ThreadIf(t, env) ==
    LET then  == ThreadBranch(t.s[2], env)
        else_ == IF Len(t.s) = 3 THEN ThreadBranch(t.s[3], env) ELSE Done(env)
    IN  IF ~then.ok \/ ~else_.ok THEN Refused
        ELSE Done([x \in DOMAIN env |-> Merged(Substitute(t.s[1], env), then.v[x], else_.v[x], env[x])])

(* thread_stmt: no name is bound twice, and only a bound name is assigned *)
ThreadStmt(t, env) ==
    CASE t.k = "let"    -> IF t.x \in DOMAIN env THEN Refused
                           ELSE Done(Bound(env, t.x, Substitute(t.s[Len(t.s)], env)))
      [] t.k = "assign" -> IF IsName(t.s[1]) /\ t.s[1].x \in DOMAIN env
                           THEN Done(Bound(env, t.s[1].x, Substitute(t.s[2], env))) ELSE Refused
      [] t.k = "expr"   -> Done(env)
      [] t.k = "ifstmt" -> ThreadIf(t, env)
      [] OTHER          -> Refused

ThreadStmts(ts, env) ==
    IF ts = <<>> THEN Done(env)
    ELSE LET r == ThreadStmt(ts[1], env)
         IN  IF r.ok THEN ThreadStmts(SubSeq(ts, 2, Len(ts)), r.v) ELSE Refused

RECURSIVE EncodeValue(_, _, _)

(* encode_block_tail: a body has a value *)
EncodeBlockTail(b, env, c) ==
    LET r == ThreadStmts(Stmts(b), env)
    IN  IF r.ok /\ HasTail(b) THEN EncodeValue(TailOf(b), r.v, c) ELSE Refused

(* encode_value: substitutes, and then below an if once more *)
EncodeValue(e, env, c) ==
    LET v == Substitute(e, env)
    IN  CASE v.k = "if" ->
                LET cond  == EncodeValue(v.s[1], env, c)
                    then  == EncodeBlockTail(v.s[2], env, c)
                    else_ == EncodeBlockTail(v.s[3], env, c)
                IN  IF cond.ok /\ then.ok /\ else_.ok
                    THEN Done(If(cond.v, Block(<<>>, <<then.v>>), Block(<<>>, <<else_.v>>))) ELSE Refused
          [] v.k = "tuple" ->
                LET parts == [i \in DOMAIN v.s |-> EncodeValue(v.s[i], env, c)]
                IN  IF \A i \in DOMAIN parts : parts[i].ok THEN Done(Tuple([i \in DOMAIN parts |-> parts[i].v]))
                    ELSE Refused
          [] OTHER -> IF ExecEncode(v, c).ok THEN Done(v) ELSE Refused

(* body_ref_state *)
BodyRefState(b, c) == EncodeBlockTail(b, Empty, c)

(* body_ref_state_ensures: a tuple is compared part by part; the conjuncts *)
BodyEnsures(b, c) ==
    LET r == ThreadStmts(Stmts(b), Empty)
    IN  IF HasTail(b) /\ TailOf(b).k = "tuple"
        THEN IF r.ok THEN Done([i \in DOMAIN TailOf(b).s |-> EncodeValue(TailOf(b).s[i], r.v, c)]) ELSE Refused
        ELSE LET whole == BodyRefState(b, c) IN IF whole.ok THEN Done(<<whole>>) ELSE Refused

(***************************************************************************)
(* Loops.                                                                  *)
(***************************************************************************)
LoopCond(l) == l.s[1]
LoopInvs(l) == SubSeq(l.s, 2, 1 + l.n)
LoopBody(l) == l.s[Len(l.s)]

RECURSIVE InSubset(_)
(* reject_out_of_subset_body: one exit, no loop within the loop *)
InSubset(b) ==
    \A i \in DOMAIN Stmts(b) :
        LET t == Stmts(b)[i]
        IN  /\ t.k \notin {"while", "loop", "break", "continue", "return"}
            /\ t.k = "ifstmt" => \A j \in 2..Len(t.s) : InSubset(t.s[j])

RECURSIVE AssignedCells(_)
(* collect_assigned_cells *)
AssignedCells(b) ==
    UNION {LET t == Stmts(b)[i]
           IN  CASE t.k = "assign" -> {t.s[1]}
                 [] t.k = "ifstmt" -> UNION {AssignedCells(t.s[j]) : j \in 2..Len(t.s)}
                 [] OTHER -> {} : i \in DOMAIN Stmts(b)}

(* encode_predicate, encode_inv_clauses *)
EncodePredicates(es, env, c) ==
    LET ps == [i \in DOMAIN es |-> Substitute(es[i], env)]
    IN  IF \A i \in DOMAIN ps : ExecEncode(ps[i], c).ok THEN Done(ps) ELSE Refused

(* recognize_v1_loop, invariant_is_vacuous *)
Recognized(b) ==
    /\ Stmts(b) # <<>>
    /\ LET l == Stmts(b)[Len(Stmts(b))]
       IN  /\ l.k = "while" /\ InSubset(LoopBody(l))
           /\ \E i \in DOMAIN LoopInvs(l) : LoopInvs(l)[i] # Truth(TRUE)
           /\ \A t \in AssignedCells(LoopBody(l)) : IsName(t)
           /\ AssignedCells(LoopBody(l)) # {}

(* What the step starts from *)
StepStart(cells, entry) == [x \in cells |-> Path(x)]

(* What is asked of the loop l, given what was threaded up to it and through its step *)
ObligationsOf(l, cells, entry, step, c) ==
    LET stepped == [x \in cells |-> step.v[x]]
        inv(env) == EncodePredicates(LoopInvs(l), env, c)
    IN  IF /\ entry.ok /\ cells \subseteq DOMAIN entry.v
           /\ step.ok /\ \A x \in cells : EncodeValue(stepped[x], Empty, c).ok
           /\ EncodePredicates(<<LoopCond(l)>>, Empty, c).ok
           /\ inv(Empty).ok /\ inv(entry.v).ok /\ inv(stepped).ok
        THEN Done([cells |-> cells, entry |-> inv(entry.v).v, cond |-> LoopCond(l), inv |-> LoopInvs(l),
                   step |-> stepped, atStep |-> inv(stepped).v])
        ELSE Refused

(* The names a loop assigns, and the body up to its last statement *)
CellNames(l) == {t.x : t \in AssignedCells(LoopBody(l))}
Before(b)    == SubSeq(Stmts(b), 1, Len(Stmts(b)) - 1)
LastOf(b)    == Stmts(b)[Len(Stmts(b))]

(* The step starts from the cells themselves. *)
StepFrom(l, entry) == ThreadStmts(Stmts(LoopBody(l)), StepStart(CellNames(l), entry.v))

(* loop_ref_obligations *)
LoopObligations(b, c) ==
    LET entry == ThreadStmts(Before(b), Empty)
    IN  IF ~Recognized(b) THEN Refused
        ELSE ObligationsOf(LastOf(b), CellNames(LastOf(b)), entry, StepFrom(LastOf(b), entry), c)

(***************************************************************************)
(* The obligations, over values of w bits: what Verus is asked.            *)
(***************************************************************************)
Words(w) == 0..(Power(w) - 1)
HoldsIn(es, env, w) == \A i \in DOMAIN es : Eval(es[i], env, "spec", w) = Value(1)

(* loop_entry_obligation: under the precondition of the function *)
EntryHolds(o, req, params, w) ==
    \A env \in [params -> Words(w)] : HoldsIn(<<req>>, env, w) => HoldsIn(o.entry, env, w)

(* loop_exit_obligation, with the claim of loop_after_loop_claim: the invariant *)
ExitHolds(o, params, w) ==
    \A env \in [params \cup o.cells -> Words(w)] :
        HoldsIn(Append(o.inv, Not(o.cond)), env, w) => HoldsIn(o.inv, env, w)

(***************************************************************************)
(* The three audits that compare the lowering of a file with the reference *)
(* encoders (forge/src/contract_tv.rs, exec_tv.rs, body_tv.rs): which      *)
(* parts of a function they ask Verus about, in which frame, and what they *)
(* make of its answer.                                                     *)
(*                                                                         *)
(* A function is [params, ret, req, body]; params is a sequence of pairs   *)
(* of a name and a type.  What production lowers an expression or a body   *)
(* to is given as a tree, so that a wrong lowering is a tree with another  *)
(* meaning.  Verus is external: it verifies, reports errors, runs out of   *)
(* its budget, does not compile what it is given, or says nothing.         *)
(***************************************************************************)

W    == 2                 \* bits of a word
Fuel == 5                 \* iterations a loop is run for

(* exec_type_spelling: bounded integers, bool and slices of them *)
Framed(ty) == ty.k = "prim" \/ (ty.k = "refty" /\ ty.s[1].k = "slicety")
IsSlice(ty) == ty.k = "refty"

RECURSIVE Names(_)
(* collect_text_idents of a clause *)
Names(e) == (IF e.k = "path" THEN {e.x} ELSE IF e.k = "call" THEN {e.x} ELSE {})
            \cup UNION {Names(e.s[i]) : i \in DOMAIN e.s}

RECURSIVE FreePaths(_)
(* collect_free_paths *)
FreePaths(e) ==
    CASE IsName(e) -> {e.x}
      [] e.k \in {"binary", "unary", "cast", "call"} \/ (e.k = "index" /\ e.x = "single") ->
            UNION {FreePaths(e.s[i]) : i \in DOMAIN e.s}
      [] e.k = "index" -> FreePaths(e.s[1])
      [] OTHER -> {}

(* corpus_req: a trivial precondition is none *)
Requires(f) == IF f.req = Truth(TRUE) THEN <<>> ELSE <<f.req>>
ParamNames(f) == {f.params[i][1] : i \in DOMAIN f.params}

(***************************************************************************)
(* Verus, and the verdicts of discharge.                                   *)
(***************************************************************************)
(* What Verus may answer: it verifies what holds, finds errors in what does  *)
(* not or may panic, and may run out of its budget on anything.              *)
VerusAnswers(compiles, holds) ==
    IF ~compiles THEN {"abort", "absent"}
    ELSE {"rlimit", "absent", IF holds THEN "verified" ELSE "errors"}

(* discharge of contract_tv *)
DischargeContract(a) ==
    CASE a = "verified" -> "faithful" [] a = "errors" -> "divergent" [] OTHER -> "unverifiable"

(* discharge of exec_tv: what does not compile is blamed on the lowering *)
DischargeExec(a) ==
    CASE a = "verified" -> "faithful" [] a \in {"errors", "abort"} -> "divergent" [] OTHER -> "unverifiable"

(* discharge of body_tv *)
DischargeBody(a) ==
    CASE a = "verified" -> "faithful" [] a = "errors" -> "divergent" [] OTHER -> "unverifiable"

(* Mutant: an obligation that ran out of its budget is passed over. *)
DischargeLoopLax(as) ==
    IF \E i \in DOMAIN as : as[i] = "errors" THEN "divergent"
    ELSE IF \E i \in DOMAIN as : as[i] = "verified" THEN "faithful" ELSE "unverifiable"

(* discharge_loop: entry, preservation and exit in this order; an error ends it *)
DischargeLoop(as) ==
    IF \E i \in DOMAIN as : as[i] = "errors" THEN "divergent"
    ELSE IF \A i \in DOMAIN as : as[i] = "verified" THEN "faithful" ELSE "unverifiable"

(***************************************************************************)
(* Clauses: contract_tv.  A question is a clause and the names that its    *)
(* frame declares, with their types, in order.                             *)
(***************************************************************************)
(* spec_type_of: what a contract may talk about *)
SpecTyped(ty) == ty.k \in {"prim", "string", "map", "option", "result"} \/ (ty.k = "refty" /\ ty.s[1].k = "slicety")

(* signature_frame: the parameters, and the result if it has such a type *)
SignatureFrame(f) == f.params \o (IF SpecTyped(f.ret) THEN <<<<"result", f.ret>>>> ELSE <<>>)

RECURSIVE Locals(_)
(* collect_locals_into: typed lets, in branches and loops too *)
Locals(ts) ==
    IF ts = <<>> THEN <<>>
    ELSE LET t == ts[1]
             below == CASE t.k = "let" /\ Len(t.s) = 2 /\ SpecTyped(t.s[1]) -> <<<<t.x, t.s[1]>>>>
                        [] t.k = "ifstmt" -> Locals(Stmts(t.s[2])) \o (IF Len(t.s) = 3 THEN Locals(Stmts(t.s[3])) ELSE <<>>)
                        [] t.k = "while" -> Locals(Stmts(LoopBody(t)))
                        [] OTHER -> <<>>
             rest == Locals(SubSeq(ts, 2, Len(ts)))
         IN  below \o SelectSeq(rest, LAMBDA d : \A i \in DOMAIN below : below[i][1] # d[1])

RECURSIVE LoopClauses(_)
(* tv_block_loops: the invariants and the measure of every loop *)
LoopClauses(ts) ==
    IF ts = <<>> THEN <<>>
    ELSE LET t == ts[1]
         IN  (CASE t.k = "while" -> LoopInvs(t) \o <<t.s[Len(t.s) - 1]>> \o LoopClauses(Stmts(LoopBody(t)))
                [] t.k = "ifstmt" -> LoopClauses(Stmts(t.s[2]))
                                     \o (IF Len(t.s) = 3 THEN LoopClauses(Stmts(t.s[3])) ELSE <<>>)
                [] OTHER -> <<>>)
             \o LoopClauses(SubSeq(ts, 2, Len(ts)))

(* old_params, collect_old: not below an index, a match or a quantifier *)
RECURSIVE OldParams(_)
OldParams(e) ==
    CASE e.k = "call" /\ e.x = "old" /\ Len(e.s) = 1 /\ IsName(e.s[1]) -> {e.s[1].x}
      [] e.k \in {"call", "binary", "unary", "method", "field", "cast", "closure"} ->
            UNION {OldParams(e.s[i]) : i \in DOMAIN e.s}
      [] e.k = "index" -> OldParams(e.s[1])
      [] OTHER -> {}

(* tv_fn: of a function with another type of parameter nothing is asked *)
ContractQuestions(f) ==
    LET signature == SignatureFrame(f)
        loops == signature \o Locals(Stmts(f.body))
        of(cs, frame) == [i \in DOMAIN cs |-> [clause |-> cs[i], frame |-> frame]]
    IN  IF \E i \in DOMAIN f.params : ~SpecTyped(f.params[i][2]) THEN <<>>
        ELSE of(<<f.req>> \o f.ens, signature) \o of(LoopClauses(Stmts(f.body)), loops)

Declared(frame) == {frame[i][1] : i \in DOMAIN frame}
OfKind(frame, kinds) == {frame[i][1] : i \in {j \in DOMAIN frame : frame[j][2].k \in kinds}}

(* The frame compiles: no name is declared twice, every name is, and a bare argument  *)
(* of a call, which is viewed as a sequence, has a view                               *)
FrameCompiles(q) ==
    /\ Cardinality(Declared(q.frame)) = Len(q.frame)
    /\ FreePaths(q.clause) \subseteq Declared(q.frame)
    /\ \A u \in Subtrees(q.clause) : u.k = "call" /\ u.x # "old" =>
            \A i \in DOMAIN u.s : ~(IsName(u.s[i]) /\ u.s[i].x \in OfKind(q.frame, {"prim"}))

ContractContext(q) ==
    [seqs |-> {}, strings |-> OfKind(q.frame, {"string"}), maps |-> OfKind(q.frame, {"map"}),
     nats |-> OfKind(q.frame, {"prim"}), slices |-> {}]

(* equivalence_obligation: for all values of the declared names, old ones included, the  *)
(* clause of production is the reference.  Nothing else is assumed.                      *)
ContractObligation(q, production) ==
    \A vals \in [Declared(q.frame) -> Words(W)] :
        Eval(production, vals, "spec", W) = Eval(q.clause, vals, "spec", W)

(* tv_clause *)
ContractVerdicts(q, production) ==
    IF ~Encode(q.clause, ContractContext(q)).ok THEN {"skipped"}
    ELSE {DischargeContract(a) : a \in VerusAnswers(FrameCompiles(q), ContractObligation(q, production))}

(***************************************************************************)
(* Expressions of a body: exec_tv.                                         *)
(***************************************************************************)
(* ExecEnv::bind: the first type of a name stays *)
Bind(env, x, ty) == IF x \in DOMAIN env \/ ~Framed(ty) THEN env ELSE With(env, x, ty)

RECURSIVE BindAll(_, _)
BindAll(ps, env) == IF ps = <<>> THEN env ELSE BindAll(SubSeq(ps, 2, Len(ps)), Bind(env, ps[1][1], ps[1][2]))

Asked(what, e, env, prefix) == [what |-> what, e |-> e, env |-> env, prefix |-> prefix]

RECURSIVE AskedOf(_, _, _, _)
(* exec_tv_fn: typed lets, returns and the tail, each in the frame of the names *)
(* bound before it; other statements are skipped                                *)
AskedOf(ts, n, env, f) ==
    IF n > Len(ts) THEN IF HasTail(f.body) /\ Framed(f.ret) THEN <<Asked("tail", TailOf(f.body), env, ts)>> ELSE <<>>
    ELSE LET t == ts[n]
             typed == t.k = "let" /\ Len(t.s) = 2 /\ Framed(t.s[1])
             now == CASE typed -> <<Asked("let", t.s[2], env, SubSeq(ts, 1, n - 1))>>
                      [] t.k = "return" /\ t.s # <<>> /\ Framed(f.ret) ->
                            <<Asked("return", t.s[1], env, SubSeq(ts, 1, n - 1))>>
                      [] OTHER -> <<>>
         IN  now \o AskedOf(ts, n + 1, IF typed THEN Bind(env, t.x, t.s[1]) ELSE env, f)
AskedExpressions(f) == AskedOf(Stmts(f.body), 1, BindAll(f.params, [x \in {} |-> <<>>]), f)

(* The precondition of the frame: dropped if it names something else *)
FrameRequires(f, env) ==
    IF Requires(f) # <<>> /\ Names(f.req) \subseteq DOMAIN env THEN Requires(f) ELSE <<>>

(* exec_equivalence_obligation: production, which may not panic, has the value of the reference *)
ExecObligation(q, production, f) ==
    \A vals \in [FreePaths(q.e) \cup UNION {Names(r) : r \in {FrameRequires(f, q.env)[i] :
                                                            i \in DOMAIN FrameRequires(f, q.env)}} -> Words(W)] :
        HoldsIn(FrameRequires(f, q.env), vals, W) =>
            /\ Eval(production, vals, "exec", W).ok
            /\ Eval(production, vals, "exec", W) = Eval(q.e, vals, "spec", W)

SliceContext(env) == [seqs |-> {}, strings |-> {}, maps |-> {}, nats |-> {},
                      slices |-> {x \in DOMAIN env : IsSlice(env[x])}]

(* check_corpus_expr *)
ExecVerdicts(q, production, f) ==
    IF ~(FreePaths(q.e) \subseteq DOMAIN q.env) \/ ~ExecEncode(q.e, SliceContext(q.env)).ok THEN {"skipped"}
    ELSE {DischargeExec(a) : a \in VerusAnswers(TRUE, ExecObligation(q, production, f))}

(***************************************************************************)
(* Whole bodies: body_tv.                                                  *)
(***************************************************************************)
ParamContext(f) == SliceContext(BindAll(f.params, [x \in {} |-> <<>>]))
Arguments(f)  == {args \in [ParamNames(f) -> Words(W)] : HoldsIn(<<f.req>>, args, W)}
AllFramed(f)  == Framed(f.ret) /\ \A i \in DOMAIN f.params : Framed(f.params[i][2])

(* straight_line_body_tv; body_equivalence_obligation *)
BodyObligation(f, parts, production) ==
    \A args \in Arguments(f) :
        LET r == RunBody(production, args, W, Fuel)
        IN  r.ok /\ \A i \in DOMAIN parts : Eval(parts[i].v, args, "spec", W) = Value(r.v[i])
VerdictsOnParts(parts, f, production) ==
    IF ~AllFramed(f) \/ ~parts.ok \/ ~(Names(f.req) \subseteq ParamNames(f)) \/ \E i \in DOMAIN parts.v : ~parts.v[i].ok
    THEN {"skipped"}
    ELSE {DischargeBody(a) : a \in VerusAnswers(TRUE, BodyObligation(f, parts.v, production))}
StraightVerdicts(f, production) == VerdictsOnParts(BodyEnsures(f.body, ParamContext(f)), f, production)

(* cell_decl_type: every cell has a typed let *)
CellsTyped(b, cells) ==
    \A x \in cells : \E i \in DOMAIN Stmts(b) : LET t == Stmts(b)[i] IN t.k = "let" /\ t.x = x /\ Len(t.s) = 2

(* loop_preservation_obligation: the step of production is that of the reference, and *)
(* keeps the invariant.  The precondition of the function is not assumed.             *)
PreservationHolds(o, step, params) ==
    \A env \in [params \cup o.cells -> Words(W)] :
        HoldsIn(Append(o.inv, o.cond), env, W) =>
            LET s == ExecBlock(step, env, W, Fuel)
            IN  /\ s.how = "next"
                /\ \A x \in o.cells : Eval(o.step[x], env, "spec", W) = Value(s.env[x])
                /\ HoldsIn(o.atStep, env, W)

(* build_loop_frame declares what the obligations name, or there is no frame. *)
FrameClosed(o, params) ==
    /\ o.cells \cap params = {}
    /\ UNION {Names(e) : e \in {o.step[x] : x \in o.cells} \cup {o.inv[i] : i \in DOMAIN o.inv} \cup {o.cond}}
       \subseteq params \cup o.cells

(* discharge_loop *)
LoopAnswers(o, f, step) ==
    {DischargeLoop(<<a, b, c>>) : a \in VerusAnswers(TRUE, EntryHolds(o, f.req, ParamNames(f), W)),
                                  b \in VerusAnswers(TRUE, PreservationHolds(o, step, ParamNames(f))),
                                  c \in VerusAnswers(TRUE, ExitHolds(o, ParamNames(f), W))}

(* loop_body_tv *)
VerdictsOn(r, f, step) ==
    IF ~r.ok \/ ~AllFramed(f) \/ ~CellsTyped(f.body, r.v.cells) \/ ~(Names(f.req) \subseteq ParamNames(f) \cup r.v.cells)
    THEN {"skipped"}
    ELSE IF ~FrameClosed(r.v, ParamNames(f)) THEN {"unverifiable"} ELSE LoopAnswers(r.v, f, step)
LoopVerdicts(f, step) == VerdictsOn(LoopObligations(f.body, ParamContext(f)), f, step)

(* body_tv_fn: a body that ends in a loop is taken for a loop, whatever its tail is *)
EndsInLoop(f) == Stmts(f.body) # <<>> /\ Stmts(f.body)[Len(Stmts(f.body))].k \in {"while", "loop"}

(***************************************************************************)
(* What the verdicts mean.                                                 *)
(***************************************************************************)
(* An expression of production agrees with the source wherever the body gets to it. *)
AgreesWhereReached(q, production, f) ==
    \A args \in Arguments(f) :
        LET s == ExecStmts(q.prefix, Running(args), W, Fuel)
        IN  s.how = "next" => LET v == Eval(q.e, s.env, "exec", W)
                              IN  v.ok => Eval(production, s.env, "exec", W) = v

(* A clause of production says what the clause of the source says, in every state. *)
ClausesAgree(q, production) ==
    \A vals \in [FreePaths(q.clause) \cup {"x"} -> Words(W)] :
        Eval(production, vals, "spec", W) = Eval(q.clause, vals, "spec", W)

(* A body of production returns what the source returns. *)
BodiesAgree(f, production) ==
    \A args \in Arguments(f) :
        LET r == RunBody(f.body, args, W, Fuel)
        IN  r.ok => RunBody(production, args, W, Fuel) = r

(* After the loop of the source, its invariants hold and its condition does not. *)
LoopCharacterised(f) ==
    LET l == Stmts(f.body)[Len(Stmts(f.body))]
    IN  \A args \in Arguments(f) :
            LET s == ExecStmts(Stmts(f.body), Running(args), W, Fuel)
            IN  s.how = "next" => HoldsIn(Append(LoopInvs(l), Not(LoopCond(l))), s.env, W)

Shadows(f) == \E i \in DOMAIN Stmts(f.body) :
                  Stmts(f.body)[i].k = "let" /\ Stmts(f.body)[i].x \in ParamNames(f)
====
