--------------------------------- MODULE Prelude ----------------------------------
(***************************************************************************)
(* What a lowered program is given in front of its own items               *)
(* (thermite-lower/src/lower.rs): the wrappers of Vec, Map and String and  *)
(* the generated functions for searching, formatting, parsing and          *)
(* comparing bytes.  Each is emitted only if a walk over the program finds *)
(* a use; a use the walk misses is a name the lowered program lacks.       *)
(*                                                                         *)
(* Items are the records Parser builds, programs are sequences of them.    *)
(***************************************************************************)
EXTENDS Surface

SearchMethods == {"starts_with", "ends_with", "find", "split", "trim"}
SearchSpecFns == {"occurs_at", "contains_sub", "count_sep", "sep_free", "is_space"}
NumfmtSpecFns == {"parse_le", "parse_be", "pow10"}
ParseFns      == {"parse_u64", "all_digits", "is_digit"}
GeneratedFns  == SearchSpecFns \cup NumfmtSpecFns \cup ParseFns \cup {"bytes_eq", "u64_to_string"}

ItemsOf(p, kind) == {p[j] : j \in {i \in DOMAIN p : p[i].k = kind}}
Functions(p)     == ItemsOf(p, "fn") \cup ItemsOf(p, "spec")
Children(e)      == {e.s[j] : j \in DOMAIN e.s}

(***************************************************************************)
(* The walks.                                                              *)
(***************************************************************************)
(* each_block_subexpr: assignments, nested ifs and loops are not entered *)
BlockSubexprs(b) ==
    UNION {IF st.k \in {"expr", "return", "let"} /\ st.s # <<>> THEN {st.s[Len(st.s)]} ELSE {} : st \in {b.s[j] : j \in 1..(Len(b.s) - b.n)}}
    \cup (IF HasTail(b) THEN {TailOf(b)} ELSE {})

(* each_subexpr *)
EachSubexpr(e) ==
    CASE e.k = "match"  -> {e.s[1]} \cup UNION {{a.s[j] : j \in 2..Len(a.s)} : a \in {e.s[j] : j \in 2..Len(e.s)}}
      [] e.k = "if"     -> {e.s[1]} \cup BlockSubexprs(e.s[2]) \cup BlockSubexprs(e.s[3])
      [] e.k = "struct" -> UNION {Children(f) : f \in {c \in Children(e) : c.k = "init"}}
      [] OTHER          -> {c \in Children(e) : c.k \in ExprKinds}

RECURSIVE Reached(_)
Reached(e) == {e} \cup UNION {Reached(x) : x \in EachSubexpr(e)}

RECURSIVE BlockReached(_)
(* stmt_uses_..: of a loop only the body *)
StmtReached(st) ==
    CASE st.k \in {"let", "expr", "return"} -> IF st.s = <<>> THEN {} ELSE Reached(st.s[Len(st.s)])
      [] st.k = "assign" -> Reached(st.s[1]) \cup Reached(st.s[2])
      [] st.k = "ifstmt" -> Reached(st.s[1]) \cup UNION {BlockReached(st.s[j]) : j \in 2..Len(st.s)}
      [] st.k \in {"loop", "while"} -> BlockReached(st.s[Len(st.s)])
      [] OTHER -> {}

(* block_uses_.. *)
BlockReached(b) ==
    UNION {StmtReached(b.s[j]) : j \in 1..(Len(b.s) - b.n)} \cup (IF HasTail(b) THEN Reached(TailOf(b)) ELSE {})

(* Mutant: the postconditions are not walked. *)
ContractReachedReq(f) == Reached(f.contract.req)

(* contract_uses_.. *)
ContractReached(f) == Reached(f.contract.req) \cup UNION {Reached(f.contract.ens[j]) : j \in DOMAIN f.contract.ens}

BodyReached(f) == UNION {BlockReached(f.body[j]) : j \in DOMAIN f.body}

(* program_uses_..: what the walks of a program visit *)
ProgramReached(p) ==
    UNION {ContractReached(f) \cup BodyReached(f) : f \in ItemsOf(p, "fn")}
    \cup UNION {BodyReached(f) : f \in ItemsOf(p, "spec")}

RECURSIVE IsStringTy(_)
(* is_string_ty *)
IsStringTy(t) == t.k = "string" \/ (t.k = "refty" /\ IsStringTy(t.s[1]))

(* user_string_spec_fn_names: these shadow a generated name *)
Shadow(p) ==
    {f.sig.name : f \in {g \in ItemsOf(p, "spec") :
        \E j \in DOMAIN g.sig.params : IsStringTy(g.sig.params[j].s[1])}}

CallsIn(r)   == {e.x : e \in {x \in r : x.k = "call"}}
MethodsIn(r) == {e.x : e \in {x \in r : x.k = "method"}}

(* program_uses_string_search with expr_uses_string_search *)
UsesSearch(p) ==
    LET r == ProgramReached(p)
    IN  MethodsIn(r) \cap SearchMethods # {} \/ (CallsIn(r) \cap SearchSpecFns) \ Shadow(p) # {}

(* program_uses_numfmt *)
UsesNumfmt(p) ==
    LET r == ProgramReached(p)
    IN  "to_string" \in MethodsIn(r) \/ (CallsIn(r) \cap NumfmtSpecFns) \ Shadow(p) # {}

(* program_uses_parse *)
UsesParse(p) == (CallsIn(ProgramReached(p)) \cap ParseFns) \ Shadow(p) # {}

(* program_uses_bytes_eq *)
UsesBytesEq(p) == "bytes_eq" \in CallsIn(ProgramReached(p)) \ Shadow(p)

(***************************************************************************)
(* Types.                                                                  *)
(***************************************************************************)
RECURSIVE LetTypes(_)
(* note_block_vec_elems, note_block_map_kv, block_has_string_local: the annotations of lets *)
LetTypes(b) ==
    UNION {CASE st.k = "let" -> {st.s[j] : j \in 1..(Len(st.s) - 1)}
             [] st.k = "ifstmt" -> UNION {LetTypes(st.s[j]) : j \in 2..Len(st.s)}
             [] st.k \in {"loop", "while"} -> LetTypes(st.s[Len(st.s)])
             [] OTHER -> {} : st \in {b.s[j] : j \in 1..(Len(b.s) - b.n)}}

SignatureTypes(f) == {f.sig.ret} \cup {f.sig.params[j].s[1] : j \in DOMAIN f.sig.params}
FieldTypes(fs)    == {fs[j].s[1] : j \in DOMAIN fs}
VariantTypes(v)   == {IF v.s[j].k = "fielddef" THEN v.s[j].s[1] ELSE v.s[j] : j \in DOMAIN v.s}

(* The types collect_vec_elem_types and collect_map_kv_types look at *)
ProgramTypes(p) ==
    UNION {SignatureTypes(f) \cup UNION {LetTypes(f.body[j]) : j \in DOMAIN f.body} : f \in Functions(p)}
    \cup UNION {FieldTypes(d.fields) : d \in ItemsOf(p, "struct")}
    \cup UNION {UNION {VariantTypes(d.variants[j]) : j \in DOMAIN d.variants} : d \in ItemsOf(p, "enum")}

(* ty_reaches_string *)
ReachesString(t) == \E u \in Subtrees(t) : u.k = "string"

(* program_uses_string with block_has_str_lit: a literal counts in a body only *)
UsesString(p) ==
    \/ \E t \in ProgramTypes(p) : ReachesString(t)
    \/ \E f \in Functions(p) : \E e \in BodyReached(f) : e.k = "str"

StringTy == Node("string", "", 0, <<>>)

(* collect_vec_elem_types with note_vec_elems *)
VecElems(p) ==
    {u.s[1] : u \in {v \in UNION {Subtrees(t) : t \in ProgramTypes(p)} : v.k = "vec"}}
    \cup (IF UsesSearch(p) THEN {StringTy} ELSE {})

(* collect_map_kv_types with note_map_kv *)
MapPairs(p) == {u.s : u \in {v \in UNION {Subtrees(t) : t \in ProgramTypes(p)} : v.k = "map"}}

CopyTypes == {"prim"}

(* tvec_name, tmap_type_suffix: an element the wrappers support *)
RECURSIVE Wrappable(_)
Wrappable(t) == t.k \in {"prim", "string", "named"} \/ (t.k = "vec" /\ Wrappable(t.s[1]))

(* The errors of emit_vec_wrappers and emit_map_wrappers *)
PreludeRefused(p) ==
    \/ \E t \in VecElems(p) : ~Wrappable(t)
    \/ \E kv \in MapPairs(p) : ~Wrappable(kv[1]) \/ ~Wrappable(kv[2]) \/ kv[1].k \notin CopyTypes

(***************************************************************************)
(* The prelude, as the names it defines and the names it needs.            *)
(***************************************************************************)
(* emit_string_wrapper, emit_string_search_methods *)
StringWrapper(p) ==
    IF ~UsesString(p) THEN {}
    ELSE {"TString"} \cup (IF UsesSearch(p) THEN SearchMethods ELSE {})

(* emit_string_search_defs *)
SearchDefs(p) == IF UsesSearch(p) THEN SearchSpecFns ELSE {}

(* emit_numfmt_defs *)
NumfmtDefs(p) == IF UsesNumfmt(p) THEN NumfmtSpecFns \cup {"u64_to_string"} ELSE {}

(* emit_parse_defs: parse_be is numfmt's when both are there *)
ParseDefs(p) == IF UsesParse(p) THEN ParseFns \cup {"parse_be"} ELSE {}

(* emit_bytes_eq_defs *)
BytesEqDefs(p) == IF UsesBytesEq(p) THEN {"bytes_eq"} ELSE {}

(* The prelude part of lower_with_profile *)
Emitted(p) == StringWrapper(p) \cup SearchDefs(p) \cup NumfmtDefs(p) \cup ParseDefs(p) \cup BytesEqDefs(p)

(* What the emitted definitions mention: a byte string in every one but bytes_eq. *)
PreludeNeeds(p) ==
    IF VecElems(p) \cap {StringTy} # {} \/ UsesNumfmt(p) \/ UsesParse(p) THEN {"TString"} ELSE {}

(***************************************************************************)
(* The runnable form (l1.rs) decides for itself which types and numbers    *)
(* need generated code, by walks that do not look into contracts.          *)
(***************************************************************************)
RECURSIVE RunReached(_)
(* expr_has_str_lit_l1, expr_has_to_string and their blocks: no guard of an arm, no clause of a loop *)
RunReached(t) ==
    {t} \cup UNION {RunReached(x) : x \in
        CASE t.k = "match" -> {t.s[1]} \cup {LET a == t.s[j] IN a.s[Len(a.s)] : j \in 2..Len(t.s)}
          [] t.k \in {"loop", "while"} -> {t.s[Len(t.s)]}
          [] t.k = "let" -> {t.s[Len(t.s)]}
          [] t.k = "closure" -> {t.s[Len(t.s)]}
          [] OTHER -> Children(t)}
RunBodyReached(p) == UNION {UNION {RunReached(f.body[j]) : j \in DOMAIN f.body} : f \in Functions(p)}

(* program_uses_string_l1: signatures, fields and literals, not the types of lets *)
UsesStringRun(p) ==
    \/ \E f \in Functions(p) : \E t \in SignatureTypes(f) : ReachesString(t)
    \/ \E d \in ItemsOf(p, "struct") : \E t \in FieldTypes(d.fields) : ReachesString(t)
    \/ \E d \in ItemsOf(p, "enum") : \E j \in DOMAIN d.variants : \E t \in VariantTypes(d.variants[j]) : ReachesString(t)
    \/ \E e \in RunBodyReached(p) : e.k = "str"

(* Mutant: numbers are formatted only where a function returns them. *)
UsesNumfmtRunTail(p) ==
    \E f \in Functions(p) : \E j \in DOMAIN f.body :
        HasTail(f.body[j]) /\ "to_string" \in MethodsIn(RunReached(TailOf(f.body[j])))
(* program_uses_numfmt_l1 *)
UsesNumfmtRun(p) == "to_string" \in MethodsIn(RunBodyReached(p))

(* emit_string_runtime_l1: nothing without a string, and is_space is not among the twins *)
EmittedRun(p) ==
    IF ~UsesStringRun(p) THEN {}
    ELSE {"TString"} \cup (IF UsesSearch(p) THEN SearchMethods \cup (SearchSpecFns \ {"is_space"}) ELSE {})
         \cup (IF UsesBytesEq(p) THEN {"bytes_eq"} ELSE {})
         \cup (IF UsesParse(p) THEN ParseFns \cup {"parse_be"} ELSE {})
         \cup (IF UsesNumfmtRun(p) THEN NumfmtSpecFns \cup {"u64_to_string"} ELSE {})

(* Names whose twin the runnable form lacks: is_space, and those for the digits of *)
(* a number when no body formats one.                                              *)
RunLacks(p) ==
    LET bodies == UNION {UNION {Subtrees(f.body[j]) : j \in DOMAIN f.body} : f \in Functions(p)}
    IN  {"is_space"} \cup (IF "to_string" \in MethodsIn(bodies) THEN {} ELSE NumfmtSpecFns \cup {"u64_to_string"})

(***************************************************************************)
(* Reference: every generated name the lowered items mention, wherever it  *)
(* stands, a clause of a loop or of an item included.                      *)
(***************************************************************************)
AllParts(item) ==
    CASE item.k = "fn" -> {item.contract.req} \cup {item.contract.ens[j] : j \in DOMAIN item.contract.ens}
                          \cup {item.dec[j] : j \in DOMAIN item.dec} \cup {item.body[j] : j \in DOMAIN item.body}
      [] item.k = "spec" -> {item.dec[1], item.body[1]}
      [] item.k = "struct" -> {item.inv[j] : j \in DOMAIN item.inv}
      [] OTHER -> {}

Mentioned(p) ==
    LET nodes == UNION {Subtrees(e) : e \in UNION {AllParts(p[j]) : j \in DOMAIN p}}
        types == UNION {Subtrees(t) : t \in ProgramTypes(p)}
    IN  ((CallsIn(nodes) \cap GeneratedFns) \ Shadow(p)) \cup (MethodsIn(nodes) \cap SearchMethods)
        \cup (IF "to_string" \in MethodsIn(nodes) THEN {"u64_to_string"} ELSE {})
        \cup (IF \E x \in nodes \cup types : x.k \in {"str", "string"} THEN {"TString"} ELSE {})

(* What a clause of a loop, a measure or an invariant of a type holds *)
RECURSIVE ClauseParts(_)
ClauseParts(e) ==
    (IF e.k \in {"loop", "while"} THEN {e.s[j] : j \in 1..(Len(e.s) - 1)} ELSE {})
    \cup UNION {ClauseParts(c) : c \in Children(e)}

(***************************************************************************)
(* The functions the prelude of a lowered program defines                  *)
(* (thermite-lower/src/lower.rs, emit_..): the wrappers TVec, TMap and     *)
(* TString and the generated functions over bytes.  A value of a wrapper   *)
(* is the sequence it holds; a loop of the emitted text is a recursive     *)
(* operator over its index; asserts and lemmas of the text are left out.   *)
(* A result is a sequence of at most one element where the text says       *)
(* Option.  The requires clause of a function is the operator of its name  *)
(* with Req.                                                               *)
(***************************************************************************)

CONSTANTS Cap,        \* VEC_CAP and MAP_CAP
          MaxWord     \* u64::MAX

At(s, i)         == s[i + 1]
Subrange(s, a, b) == SubSeq(s, a + 1, b)

(***************************************************************************)
(* TVec.                                                                   *)
(***************************************************************************)
WellFormed(s) == Len(s) <= Cap

PushReq(s)      == WellFormed(s) /\ Len(s) < Cap
Push(s, x)      == Append(s, x)
PopLast(s)      == SubSeq(s, 1, Len(s) - 1)
LastOf(s)       == At(s, Len(s) - 1)
InsertReq(s, i) == PushReq(s) /\ i <= Len(s)
Insert(s, i, x) == Subrange(s, 0, i) \o <<x>> \o Subrange(s, i, Len(s))
Remove(s, i)    == Subrange(s, 0, i) \o Subrange(s, i + 1, Len(s))

RECURSIVE ContainsFrom(_, _, _)
ContainsFrom(s, x, i) == i < Len(s) /\ (At(s, i) = x \/ ContainsFrom(s, x, i + 1))
Contains(s, x) == ContainsFrom(s, x, 0)

(***************************************************************************)
(* TMap: pairs in the order of insertion.                                  *)
(***************************************************************************)
SpecContainsKey(m, k) == \E j \in DOMAIN m : m[j][1] = k
MapWellFormed(m)      == Len(m) <= Cap /\ \A a, b \in DOMAIN m : a # b => m[a][1] # m[b][1]

RECURSIVE GetFrom(_, _, _)
GetFrom(m, k, i) == IF i >= Len(m) THEN <<>> ELSE IF At(m, i)[1] = k THEN <<At(m, i)[2]>> ELSE GetFrom(m, k, i + 1)
ContainsKey(m, k) == GetFrom(m, k, 0) # <<>>
MapGet(m, k)      == GetFrom(m, k, 0)
MapInsertReq(m, k) == MapWellFormed(m) /\ Len(m) < Cap /\ ~SpecContainsKey(m, k)
MapInsert(m, k, v) == Append(m, <<k, v>>)

(***************************************************************************)
(* TString.                                                                *)
(***************************************************************************)
RECURSIVE Copied(_, _, _, _)
(* The copying loops of concat, slice, push_byte and trim *)
Copied(out, s, i, hi) == IF i >= hi THEN out ELSE Copied(Append(out, At(s, i)), s, i + 1, hi)

ConcatReq(s, b)    == WellFormed(s) /\ WellFormed(b) /\ Len(s) + Len(b) <= Cap
Concat(s, b)       == Copied(Copied(<<>>, s, 0, Len(s)), b, 0, Len(b))
SliceReq(s, lo, hi) == WellFormed(s) /\ lo <= hi /\ hi <= Len(s)
Slice(s, lo, hi)   == Copied(<<>>, s, lo, hi)
FromByte(b)        == <<b % 256>>
PushByte(s, b)     == Append(Copied(<<>>, s, 0, Len(s)), b % 256)

(* occurs_at, contains_sub, count_sep, sep_free: the specification functions *)
OccursAt(s, p, at) == 0 <= at /\ at + Len(p) <= Len(s) /\ \A k \in 0..(Len(p) - 1) : At(s, at + k) = At(p, k)
ContainsSub(s, p)  == \E at \in 0..Len(s) : OccursAt(s, p, at)
CountSep(s, sep)   == Cardinality({j \in DOMAIN s : s[j] = sep})
SepFree(s, sep)    == \A j \in DOMAIN s : s[j] # sep

RECURSIVE MatchesFrom(_, _, _, _)
MatchesFrom(s, p, at, k) == k >= Len(p) \/ (At(s, at + k) = At(p, k) /\ MatchesFrom(s, p, at, k + 1))
MatchesAt(s, p, at) == MatchesFrom(s, p, at, 0)
StartsWith(s, p)    == Len(p) <= Len(s) /\ MatchesAt(s, p, 0)
EndsWith(s, p)      == Len(p) <= Len(s) /\ MatchesAt(s, p, Len(s) - Len(p))

RECURSIVE FindFrom(_, _, _)
(* Mutant: the last place a pattern fits is not tried. *)
FindShort(s, p) ==
    IF Len(p) >= Len(s) THEN <<>> ELSE FindFrom(SubSeq(s, 1, Len(s) - 1), p, 0)
FindFrom(s, p, at) ==
    IF at > Len(s) - Len(p) THEN <<>> ELSE IF MatchesAt(s, p, at) THEN <<at>> ELSE FindFrom(s, p, at + 1)
Find(s, p) == IF Len(p) > Len(s) THEN <<>> ELSE FindFrom(s, p, 0)
ContainsString(s, p) == Find(s, p) # <<>>

RECURSIVE SplitFrom(_, _, _, _, _)
SplitFrom(s, sep, i, pieces, cur) ==
    IF i >= Len(s) THEN Append(pieces, cur)
    ELSE IF At(s, i) = sep THEN SplitFrom(s, sep, i + 1, Append(pieces, cur), <<>>)
    ELSE SplitFrom(s, sep, i + 1, pieces, Append(cur, At(s, i)))
Split(s, sep) == SplitFrom(s, sep, 0, <<>>, <<>>)

IsSpace(b) == b \in {32, 9, 10, 13}
RECURSIVE TrimLow(_, _)
TrimLow(s, lo) == IF lo < Len(s) /\ IsSpace(At(s, lo)) THEN TrimLow(s, lo + 1) ELSE lo
RECURSIVE TrimHigh(_, _, _)
TrimHigh(s, lo, hi) == IF hi > lo /\ IsSpace(At(s, hi - 1)) THEN TrimHigh(s, lo, hi - 1) ELSE hi
Trim(s) == LET lo == TrimLow(s, 0) IN Copied(<<>>, s, lo, TrimHigh(s, lo, Len(s)))

(***************************************************************************)
(* Numbers.                                                                *)
(***************************************************************************)
RECURSIVE ParseLe(_)
ParseLe(s) == IF s = <<>> THEN 0 ELSE (s[1] - 48) + 10 * ParseLe(SubSeq(s, 2, Len(s)))
RECURSIVE ParseBe(_)
ParseBe(s) == IF s = <<>> THEN 0 ELSE ParseBe(SubSeq(s, 1, Len(s) - 1)) * 10 + (s[Len(s)] - 48)

RECURSIVE Digits(_, _)
(* The digit loop of u64_to_string, lowest digit first *)
Digits(m, data) == IF m = 0 THEN data ELSE Digits(m \div 10, Append(data, (m % 10) + 48))
RECURSIVE Reversed(_, _)
Reversed(data, i) == IF i >= Len(data) THEN <<>> ELSE <<At(data, Len(data) - 1 - i)>> \o Reversed(data, i + 1)
U64ToString(n) == Reversed(Digits(n, IF n = 0 THEN <<48>> ELSE <<>>), 0)

IsDigit(b)   == 48 <= b /\ b <= 57
AllDigits(s) == \A j \in DOMAIN s : IsDigit(s[j])

RECURSIVE ParseFrom(_, _, _)
(* Mutant: the overflow test forgets the digit. *)
ParseFromLate(s, i, acc) ==
    IF i >= Len(s) THEN <<acc>>
    ELSE LET b == At(s, i)
         IN  IF b < 48 \/ b > 57 \/ acc > MaxWord \div 10 THEN <<>>
             ELSE ParseFrom(s, i + 1, (acc * 10 + (b - 48)) % (MaxWord + 1))
(* The digit loop of parse_u64 *)
ParseFrom(s, i, acc) ==
    IF i >= Len(s) THEN <<acc>>
    ELSE LET b == At(s, i)
         IN  IF b < 48 \/ b > 57 \/ acc > (MaxWord - (b - 48)) \div 10 THEN <<>>
             ELSE ParseFrom(s, i + 1, (acc * 10 + (b - 48)) % (MaxWord + 1))
ParseU64(s) == IF s = <<>> THEN <<>> ELSE ParseFrom(s, 0, 0)

RECURSIVE BytesEq(_, _, _, _, _)
BytesEq(a, b, ai, bi, n) == n <= 0 \/ (At(a, ai) = At(b, bi) /\ BytesEq(a, b, ai + 1, bi + 1, n - 1))

(***************************************************************************)
(* The same functions in the runnable form of a program                    *)
(* (thermite-lower/src/l1.rs, emit_.._runtime_l1).  What the Verus form    *)
(* requires is checked when the function runs: a call that does not meet   *)
(* it, or that overflows, aborts.                                          *)
(***************************************************************************)
Returns(v)    == [ok |-> TRUE, v |-> v]
Aborts        == [ok |-> FALSE, v |-> 0]
Guarded(c, v) == IF c THEN Returns(v) ELSE Aborts

(* TVec and TMap *)
RunGet(s, i)       == Guarded(i < Len(s), At(s, i))
RunPush(s, x)      == Guarded(Len(s) < Cap, Append(s, x))
RunPopLast(s)      == Guarded(Len(s) > 0, SubSeq(s, 1, Len(s) - 1))
RunLast(s)         == Guarded(Len(s) > 0, At(s, Len(s) - 1))
RunInsert(s, i, x) == Guarded(i <= Len(s) /\ Len(s) < Cap, Subrange(s, 0, i) \o <<x>> \o Subrange(s, i, Len(s)))
RunRemove(s, i)    == Guarded(i < Len(s), Subrange(s, 0, i) \o Subrange(s, i + 1, Len(s)))
RunMapGet(m, k)    == LET found == SelectSeq(m, LAMBDA p : p[1] = k) IN IF found = <<>> THEN <<>> ELSE <<found[1][2]>>
RunMapInsert(m, k, v) == Guarded(Len(m) < Cap /\ RunMapGet(m, k) = <<>>, Append(m, <<k, v>>))

(* TString; extend_from_slice and to_vec copy *)
RunByteAt(s, i)      == Guarded(i < Len(s), At(s, i))
RunConcat(s, b)      == Guarded(Len(s) + Len(b) <= Cap, s \o b)
(* Mutant: the end of a slice is not checked against the string. *)
RunSliceLoose(s, lo, hi) == Guarded(lo <= hi, SubSeq(s, lo + 1, IF hi <= Len(s) THEN hi ELSE Len(s)))
RunSlice(s, lo, hi)  == Guarded(lo <= hi /\ hi <= Len(s), Subrange(s, lo, hi))
RunPushByte(s, b)    == Guarded(Len(s) < Cap, Append(s, b % 256))

(* matches_at, an index past the end aborts *)
RECURSIVE RunMatchesFrom(_, _, _, _)
RunMatchesFrom(s, p, at, k) ==
    IF k >= Len(p) THEN Returns(TRUE)
    ELSE IF at + k >= Len(s) THEN Aborts
    ELSE IF At(s, at + k) # At(p, k) THEN Returns(FALSE)
    ELSE RunMatchesFrom(s, p, at, k + 1)
RunStartsWith(s, p) == IF Len(p) > Len(s) THEN Returns(FALSE) ELSE RunMatchesFrom(s, p, 0, 0)
RunEndsWith(s, p)   == IF Len(p) > Len(s) THEN Returns(FALSE) ELSE RunMatchesFrom(s, p, Len(s) - Len(p), 0)

RECURSIVE RunFindFrom(_, _, _)
RunFindFrom(s, p, at) ==
    IF at > Len(s) - Len(p) THEN Returns(<<>>)
    ELSE LET here == RunMatchesFrom(s, p, at, 0)
         IN  IF ~here.ok THEN here ELSE IF here.v THEN Returns(<<at>>) ELSE RunFindFrom(s, p, at + 1)
(* find, and contains which asks whether it finds *)
RunFind(s, p) == IF Len(p) > Len(s) THEN Returns(<<>>) ELSE RunFindFrom(s, p, 0)

RECURSIVE RunSplitFrom(_, _, _, _)
RunSplitFrom(s, sep, pieces, cur) ==
    IF s = <<>> THEN Append(pieces, cur)
    ELSE IF Head(s) = sep THEN RunSplitFrom(Tail(s), sep, Append(pieces, cur), <<>>)
    ELSE RunSplitFrom(Tail(s), sep, pieces, Append(cur, Head(s)))
RunSplit(s, sep) == RunSplitFrom(s, sep, <<>>, <<>>)

RECURSIVE RunTrimmed(_)
RunTrimmed(s) ==
    IF s # <<>> /\ Head(s) \in {32, 9, 10, 13} THEN RunTrimmed(Tail(s))
    ELSE IF s # <<>> /\ s[Len(s)] \in {32, 9, 10, 13} THEN RunTrimmed(SubSeq(s, 1, Len(s) - 1))
    ELSE s

(* The twins of the specification functions; separators come as words and are narrowed. *)
RunOccursAt(s, p, at) ==
    IF at + Len(p) > MaxWord THEN Aborts
    ELSE IF at + Len(p) > Len(s) THEN Returns(FALSE) ELSE RunMatchesFrom(s, p, at, 0)
RunContainsSub(s, p)  == Len(p) <= Len(s) /\ \E at \in 0..(Len(s) - Len(p)) : RunOccursAt(s, p, at).v
RunCountSep(s, sep)   == Len(SelectSeq(s, LAMBDA b : b = sep % 256))
RunSepFree(s, sep)    == \A j \in DOMAIN s : s[j] # sep % 256

RECURSIVE RunEqFrom(_, _, _, _, _)
RunEqFrom(a, b, ai, bi, n) == n = 0 \/ (At(a, ai) = At(b, bi) /\ RunEqFrom(a, b, ai + 1, bi + 1, n - 1))
(* bytes_eq: of windows that are not there it says no *)
RunBytesEq(a, b, ai, bi, n) ==
    CASE n = 0 -> Returns(TRUE)
      [] n # 0 /\ (ai + n > MaxWord \/ bi + n > MaxWord) -> Aborts
      [] OTHER -> Returns(ai + n <= Len(a) /\ bi + n <= Len(b) /\ RunEqFrom(a, b, ai, bi, n))

RunAllDigits(s) == \A j \in DOMAIN s : ~(s[j] < 48 \/ s[j] > 57)

RECURSIVE RunParseFrom(_, _)
(* parse_be: neither the subtraction nor the sum may leave the word *)
RunParseFrom(s, acc) ==
    IF s = <<>> THEN Returns(acc)
    ELSE IF Head(s) < 48 \/ acc * 10 + (Head(s) - 48) > MaxWord THEN Aborts
    ELSE RunParseFrom(Tail(s), acc * 10 + (Head(s) - 48))
RunParseBe(s) == RunParseFrom(s, 0)
RunParseLe(s) == RunParseFrom([j \in DOMAIN s |-> s[Len(s) + 1 - j]], 0)

RECURSIVE RunParseU64From(_, _)
RunParseU64From(s, acc) ==
    IF s = <<>> THEN <<acc>>
    ELSE IF Head(s) < 48 \/ Head(s) > 57 \/ acc > (MaxWord - (Head(s) - 48)) \div 10 THEN <<>>
    ELSE RunParseU64From(Tail(s), acc * 10 + (Head(s) - 48))
RunParseU64(s) == IF s = <<>> THEN <<>> ELSE RunParseU64From(s, 0)

RECURSIVE RunDigits(_)
RunDigits(m) == IF m = 0 THEN <<>> ELSE RunDigits(m \div 10) \o <<(m % 10) + 48>>
(* u64_to_string: digits from the lowest, then reversed *)
RunToString(n) == IF n = 0 THEN <<48>> ELSE RunDigits(n)

(***************************************************************************)
(* Reference.                                                              *)
(***************************************************************************)
RECURSIVE Joined(_, _)
Joined(pieces, sep) ==
    IF Len(pieces) = 1 THEN pieces[1] ELSE pieces[1] \o <<sep>> \o Joined(SubSeq(pieces, 2, Len(pieces)), sep)

(* What callers rely on for a string s, a pattern p and a separator.  The emitted *)
(* postconditions of find, split and trim are weaker than this.                   *)
StringsExact(s, p, sep) ==
    /\ StartsWith(s, p) = OccursAt(s, p, 0)
    /\ EndsWith(s, p) = OccursAt(s, p, Len(s) - Len(p))
    /\ ContainsString(s, p) = ContainsSub(s, p)
    /\ \A at \in 0..Len(s) : (Find(s, p) = <<at>>) = (OccursAt(s, p, at) /\ \A q \in 0..(at - 1) : ~OccursAt(s, p, q))
    /\ Joined(Split(s, sep), sep) = s /\ \A j \in DOMAIN Split(s, sep) : SepFree(Split(s, sep)[j], sep)
    /\ LET t == Trim(s)
       IN  /\ t = <<>> \/ (~IsSpace(t[1]) /\ ~IsSpace(t[Len(t)]))
           /\ \E a, b \in 0..Len(s) : a + Len(t) + b = Len(s)
                  /\ s = Subrange(s, 0, a) \o t \o Subrange(s, Len(s) - b, Len(s))
                  /\ \A j \in 0..(Len(s) - 1) : (j < a \/ j >= Len(s) - b) => IsSpace(At(s, j))
    /\ Concat(s, p) = s \o p
    /\ BytesEq(s \o p, p, Len(s), 0, Len(p))

(* A number is written so that it reads back, and a string is read exactly if it is one. *)
NumbersExact(n, s) ==
    /\ ParseU64(U64ToString(n)) = <<n>> /\ ParseBe(U64ToString(n)) = n
    /\ ParseLe(Reversed(U64ToString(n), 0)) = n
    /\ ParseU64(s) = IF s # <<>> /\ AllDigits(s) /\ ParseBe(s) <= MaxWord THEN <<ParseBe(s)>> ELSE <<>>

(* The runnable form of a function returns what its Verus form returns where that *)
(* one may be called, and aborts elsewhere.                                       *)
Same(req, run, v) == run.ok = req /\ (req => run.v = v)

ContainersRunAsProved(s, p) ==
    /\ \A i \in 0..(Len(s) + 1) :
          /\ Same(i < Len(s), RunGet(s, i), At(s, i))
          /\ Same(InsertReq(s, i), RunInsert(s, i, 7), Insert(s, i, 7))
          /\ Same(i < Len(s), RunRemove(s, i), Remove(s, i))
    /\ Same(PushReq(s), RunPush(s, 7), Push(s, 7))
    /\ Same(s # <<>>, RunPopLast(s), PopLast(s)) /\ Same(s # <<>>, RunLast(s), LastOf(s))
    /\ LET m == [j \in DOMAIN s |-> <<s[j], j>>]
       IN  MapWellFormed(m) => /\ RunMapGet(m, 48) = MapGet(m, 48)
                               /\ Same(MapInsertReq(m, 48), RunMapInsert(m, 48, 7), MapInsert(m, 48, 7))

StringsRunAsProved(s, p) ==
    /\ \A i, j \in 0..(Len(s) + 1) :
          /\ Same(i < Len(s), RunByteAt(s, i), At(s, i))
          /\ Same(SliceReq(s, i, j), RunSlice(s, i, j), Slice(s, i, j))
          /\ RunOccursAt(s, p, i).v = OccursAt(s, p, i)
          /\ \A n \in 0..2 : RunBytesEq(s, p, i, j, n).v = (n = 0 \/ (i + n <= Len(s) /\ j + n <= Len(p) /\ BytesEq(s, p, i, j, n)))
    /\ Same(ConcatReq(s, p), RunConcat(s, p), Concat(s, p))
    /\ Same(Len(s) < Cap, RunPushByte(s, 300), PushByte(s, 300))
    /\ RunStartsWith(s, p) = Returns(StartsWith(s, p)) /\ RunEndsWith(s, p) = Returns(EndsWith(s, p))
    /\ RunFind(s, p) = Returns(Find(s, p)) /\ RunSplit(s, 32) = Split(s, 32) /\ RunTrimmed(s) = Trim(s)
    /\ RunContainsSub(s, p) = ContainsSub(s, p)
    /\ RunCountSep(s, 32 + 256) = CountSep(s, 32) /\ RunSepFree(s, 32 + 256) = SepFree(s, 32)

NumbersRunAsProved(n, s) ==
    /\ RunParseU64(s) = ParseU64(s) /\ RunToString(n) = U64ToString(n) /\ RunAllDigits(s) = AllDigits(s)
    /\ Same(ParseBe(s) <= MaxWord, RunParseBe(s), ParseBe(s)) \/ ~AllDigits(s)
    /\ Same(ParseLe(s) <= MaxWord, RunParseLe(s), ParseLe(s)) \/ ~AllDigits(s)
====
