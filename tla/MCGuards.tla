------------------------------ MODULE MCGuards ------------------------------
(* Conditions over a score of a stage, a numeric input, a flag of a stage    *)
(* and the path a call is made for.                                          *)
EXTENDS Guards, FiniteSetsExt

MCInputs == {"limit", "root"}
MCFields == {"score", "ok"}
MCBound == {"target"}
MCDomain == [limit |-> {Num(0, 1), Num(2, 1)}, root |-> {PathOf(1)},
             score |-> {Num(1, 1), Num(2, 1)},
             ok |-> {Bool(TRUE), Bool(FALSE)},
             target |-> {Str(0), Str(1), PathOf(1)}]

Ref(name) == [kind |-> "ref", name |-> name]
Lit(v) == [kind |-> "literal", value |-> v]
Not(x) == [kind |-> "not", expr |-> x]
Pair(kind, l, r) == [kind |-> kind, left |-> l, right |-> r]
Op(kind, op, l, r) == [kind |-> kind, op |-> op, left |-> l, right |-> r]

Atoms == {Ref(name) : name \in Names} \union {Lit(Num(1, 1)), Lit(Str(1)), Lit(Bool(TRUE))}
Sums == {Op("binop", op, Ref("score"), Ref("limit")) : op \in {"sub", "div"}}
          \union {Op("binop", op, Ref("limit"), Lit(Num(1, 1))) : op \in {"add", "mul"}}
Comparisons ==
  {Op("compare", op, l, Lit(Num(1, 1))) : op \in {"gt", "lte"}, l \in Sums \union {Ref("score")}}
    \union {Op("compare", op, Ref("limit"), Ref("score")) : op \in {"gte", "lt"}}
MethodCalls == {Op("method_call", "contains", Ref("root"), Ref("target")),
          Op("method_call", "contains", Lit(Str(1)), Ref("target")),
          Op("method_call", "starts_with", Ref("target"), Lit(Str(1))),
          Op("method_call", "eq", Ref("target"), Lit(Str(1))),
          Op("method_call", "eq", Ref("root"), Ref("limit"))}
Simple == Comparisons \union MethodCalls \union {Ref("ok")}
Few == {Ref("ok"), Op("compare", "gt", Ref("score"), Lit(Num(1, 1))),
        Op("compare", "lt", Ref("limit"), Ref("score")),
        Op("method_call", "contains", Ref("root"), Ref("target"))}
MCConditions == Simple \union {Not(x) : x \in Simple} \union
  {Pair(kind, l, r) : kind \in {"and", "or"}, l \in Few \union {Not(x) : x \in Few},
      r \in {Ref("ok"), Op("compare", "lt", Ref("limit"), Ref("score"))}}
MCExprs == Atoms \union Sums \union MCConditions
MCDepth ==
  LET depth[x \in MCExprs] ==
        1 + Max({0} \union {depth[y] : y \in Parts(x)})
  IN  depth
MCSides == {<<Ref("ok"), Lit(Bool(TRUE))>>, <<Ref("score"), Ref("limit")>>,
            <<Ref("root"), Ref("target")>>, <<Ref("ok"), Ref("root")>>}
=============================================================================
