------------------------------- MODULE Guards -------------------------------
(***************************************************************************)
(* The conditions of a manifest: the guard of a transition, read over the  *)
(* run's inputs and the outputs of the stages so far, and the condition of *)
(* a deny policy, read over the inputs and the arguments the trigger binds.*)
(* Both share _eval_expr_impl and differ in what an unresolved reference   *)
(* does: a guard reads None, a policy raises.                              *)
(*                                                                         *)
(* Values are tagged. A number is an exact fraction; a string is a power   *)
(* of one letter and a path a chain of one directory in another, told by   *)
(* their lengths, so containment, prefix and order are the order of those. *)
(***************************************************************************)
EXTENDS Integers, Sequences, FiniteSets

CONSTANTS
  Exprs,      \* expressions, with their subexpressions
  Depth,      \* of each, how deep it is: above that of its subexpressions
  Conditions, \* those used as the condition of a guard or of a policy
  Sides,      \* <<left, right>>: the sides of the "eq" guards
  Inputs,     \* names of inputs
  Fields,     \* output fields, of stages that may not have run
  Bound,      \* trigger.bind: the variables, one for each argument
  PathBound,  \* those whose argument the catalog types as a path
  Domain      \* per name, the values it may have when it has one

None == <<"none">>
Bool(b) == <<"bool", IF b THEN 1 ELSE 0>>
Num(p, q) == <<"num", p, q>>   \* p / q with q > 0
Str(n) == <<"str", n>>
PathOf(n) == <<"path", n>>
Raise(error) == <<"raise", error>>
Absent == <<"absent">>

Names == Inputs \union Fields \union Bound
Values == {None} \union ({"bool", "str", "path"} \X Nat) \union ({"num"} \X Int \X Int)

\* The condition of a loaded manifest is a finite tree whose nodes are complete.
Leaves == {"ref", "literal"}
OpsOf == [compare |-> {"gt", "gte", "lt", "lte"}, binop |-> {"add", "sub", "mul", "div"},
          method_call |-> {"contains", "starts_with", "eq"}]
Parts(x) ==
  IF x.kind \in Leaves THEN {} ELSE IF x.kind = "not" THEN {x.expr} ELSE {x.left, x.right}

ASSUME ConditionAssumption ==
  /\ Conditions \subseteq Exprs
  /\ Sides \subseteq Exprs \X Exprs
  /\ PathBound \subseteq Bound
  /\ Inputs \intersect Fields = {} /\ Inputs \intersect Bound = {}
  /\ Fields \intersect Bound = {}
  /\ DOMAIN Domain = Names /\ \A name \in Names : Domain[name] \subseteq Values

ASSUME ExpressionAssumption ==
  /\ IsFiniteSet(Exprs) /\ Depth \in [Exprs -> 0 .. Cardinality(Exprs)]
  /\ \A x \in Exprs :
       /\ x.kind \in Leaves \union {"not", "and", "or"} \union DOMAIN OpsOf
       /\ x.kind = "ref" => x.name \in Names
       /\ x.kind = "literal" => x.value \in Values
       /\ x.kind \in DOMAIN OpsOf => x.op \in OpsOf[x.kind]
       /\ \A y \in Parts(x) : y \in Exprs /\ Depth[y] < Depth[x]

VARIABLES
  env,      \* what each name holds now: a value, None, or Absent
  question, \* what was evaluated last
  answer    \* and what came of it

guardVars == <<env, question, answer>>

GuardAnswers == {"match", "no_match", "DataUnavailableError",
                 "PolicyEvaluationError", "TypeError"}
PolicyAnswers == {"allowed", "denied", "PolicyEvaluationError", "TypeError"}
Unasked == <<"nothing">>

-----------------------------------------------------------------------------
(* Values *)

Raises(v) == v[1] = "raise"
Truthy(v) ==
  IF v[1] = "none" THEN FALSE ELSE v[1] \in {"bool", "num", "str"} => v[2] # 0
IsNumber(v) == v[1] = "num"
\* Where numbers are ordered or computed with, a bool is one of them.
AsNumber(v) == IF v[1] = "bool" THEN Num(v[2], 1) ELSE v

\* Left to right: the first operand that raises decides.
Strict(l, r, v) == IF Raises(l) THEN l ELSE IF Raises(r) THEN r ELSE v

\* all() and any() stop at the first value that settles them.
Settles(kind, v) == Raises(v) \/ (Truthy(v) <=> kind = "or")
Settled(kind, l, r) ==
  LET last == IF Settles(kind, l) THEN l ELSE r
  IN  IF Raises(last) THEN last ELSE Bool(Truthy(last))

Ordered(op, a, b) ==
  IF op = "gt" THEN a > b ELSE IF op = "gte" THEN a >= b ELSE IF op = "lt" THEN a < b ELSE a <= b

Compare(op, left, right) ==
  LET l == AsNumber(left)
      r == AsNumber(right)
  IN  IF None \in {left, right} THEN Bool(FALSE)
      ELSE IF IsNumber(l) /\ IsNumber(r)
           THEN Bool(Ordered(op, l[2] * r[3], r[2] * l[3]))
           ELSE IF l[1] = r[1] /\ l[1] \in {"str", "path"}
                THEN Bool(Ordered(op, l[2], r[2]))
                ELSE Raise("TypeError")

Quotient(l, r) ==
  IF r[2] = 0 THEN Raise("PolicyEvaluationError")
  ELSE IF r[2] > 0 THEN Num(l[2] * r[3], l[3] * r[2])
  ELSE Num(-(l[2] * r[3]), -(l[3] * r[2]))

\* On strings and paths, which the compiler of manifests keeps out, not modelled.
Arithmetic(op, left, right) ==
  LET l == AsNumber(left)
      r == AsNumber(right)
  IN
  IF None \in {left, right} THEN None
  ELSE IF ~(IsNumber(l) /\ IsNumber(r)) THEN Raise("TypeError")
  ELSE IF op = "add" THEN Num(l[2] * r[3] + r[2] * l[3], l[3] * r[3])
  ELSE IF op = "sub" THEN Num(l[2] * r[3] - r[2] * l[3], l[3] * r[3])
  ELSE IF op = "mul" THEN Num(l[2] * r[2], l[3] * r[3])
  ELSE Quotient(l, r)

\* string.contains(string), Path.contains(string or Path).
PathOrStringContains(l, r) ==
  IF l[1] = "str"
  THEN IF r[1] = "str" THEN Bool(r[2] <= l[2]) ELSE Raise("DataUnavailableError")
  ELSE IF l[1] = "path" THEN Bool(r[1] \in {"str", "path"} /\ l[2] <= r[2])
  ELSE Raise("DataUnavailableError")

StartsWith(l, r) ==
  IF l[1] = "str" /\ r[1] = "str" THEN Bool(r[2] <= l[2])
  ELSE Raise("DataUnavailableError")

\* A string next to a path is read as a path; None or a bool there is refused.
Equal(l, r) ==
  IF IsNumber(l) \/ IsNumber(r) THEN Raise("PolicyEvaluationError")
  ELSE IF "path" \in {l[1], r[1]}
       THEN IF {l[1], r[1]} \subseteq {"path", "str"} THEN Bool(l[2] = r[2])
            ELSE Raise("TypeError")
       ELSE Bool(l = r)

Method(m, l, r) ==
  IF m = "contains" THEN PathOrStringContains(l, r)
  ELSE IF m = "starts_with" THEN StartsWith(l, r)
  ELSE Equal(l, r)

-----------------------------------------------------------------------------
(* References *)

GuardRef(name, e) ==
  IF name \in Bound THEN Raise("DataUnavailableError")
  ELSE IF e[name] = Absent THEN None ELSE e[name]

\* Faulty variant of PolicyRef: an input that is not there is None, as in guards.
PolicyRef_Lenient(name, e) ==
  IF name \in Fields THEN Raise("PolicyEvaluationError")
  ELSE IF e[name] = Absent THEN None
  ELSE IF name \in PathBound /\ e[name][1] = "str" THEN PathOf(e[name][2]) ELSE e[name]
\* The arguments are bound before: a path argument is coerced there.
PolicyRef(name, e) ==
  IF name \in Fields \/ e[name] = Absent THEN Raise("PolicyEvaluationError")
  ELSE IF name \in PathBound /\ e[name][1] = "str" THEN PathOf(e[name][2])
  ELSE e[name]

\* What each name comes to, for a guard or for a policy.
Resolve(who, e) ==
  [name \in Names |-> IF who = "guard" THEN GuardRef(name, e) ELSE PolicyRef(name, e)]

-----------------------------------------------------------------------------
(* _eval_expr_impl *)

EvalExprImpl(x, resolve, recurse) ==
  IF x.kind = "ref" THEN resolve[x.name]
  ELSE IF x.kind = "literal" THEN x.value
  ELSE IF x.kind = "not"
       THEN LET v == recurse[x.expr] IN IF Raises(v) THEN v ELSE Bool(~Truthy(v))
  ELSE LET l == recurse[x.left]
           r == recurse[x.right]
       IN  IF x.kind \in {"and", "or"} THEN Settled(x.kind, l, r)
           ELSE Strict(l, r, IF x.kind = "compare" THEN Compare(x.op, l, r)
                             ELSE IF x.kind = "binop" THEN Arithmetic(x.op, l, r)
                             ELSE Method(x.op, l, r))

Eval(resolve) ==
  LET ev[x \in Exprs] == EvalExprImpl(x, resolve, ev) IN ev

\* _evaluate_guard. The numbers an "eq" guard meets are refused.
Verdict(v) == IF Raises(v) THEN v[2] ELSE IF Truthy(v) THEN "match" ELSE "no_match"
IsThere(name, e) ==
  LET v == GuardRef(name, e) IN IF Raises(v) THEN v ELSE Bool(v # None)
Opposite(v) == IF Raises(v) THEN v ELSE Bool(~Truthy(v))

EvaluateGuard(q, e) ==
  LET ev == Eval(Resolve("guard", e))
  IN  IF q[1] = "has_value" THEN Verdict(IsThere(q[2], e))
      ELSE IF q[1] = "missing" THEN Verdict(Opposite(IsThere(q[2], e)))
      ELSE IF q[1] = "if" THEN Verdict(ev[q[2]])
      ELSE LET l == ev[q[2][1]]
               r == ev[q[2][2]]
           IN  Verdict(Strict(l, r, IF IsNumber(l) \/ IsNumber(r)
                                    THEN Raise("PolicyEvaluationError")
                                    ELSE Bool(l = r)))

\* Binding fails on an argument the call lacks; a condition that cannot be
\* evaluated refuses the call.
EvaluateCondition(x, e) ==
  IF \E name \in Bound : e[name] = Absent THEN "PolicyEvaluationError"
  ELSE LET v == Eval(Resolve("policy", e))[x]
       IN  IF v = Raise("DataUnavailableError") THEN "PolicyEvaluationError"
           ELSE IF Raises(v) THEN v[2]
           ELSE IF Truthy(v) THEN "denied" ELSE "allowed"

-----------------------------------------------------------------------------
Holding(name) == Domain[name] \union {None, Absent}

GuardsInit ==
  /\ env = [name \in Names |-> Absent]
  /\ question = Unasked
  /\ answer = "none"

\* A run with other inputs, a stage that returns, a call with other arguments:
\* what a name holds changes, and nothing evaluated before is used again.
Supply(name) ==
  /\ \E v \in Holding(name) \ {env[name]} : env' = [env EXCEPT ![name] = v]
  /\ question' = Unasked
  /\ answer' = "none"

Guard == {<<"has_value", name>> : name \in Names} \union
         {<<"missing", name>> : name \in Names} \union
         {<<"if", x>> : x \in Conditions} \union {<<"eq", s>> : s \in Sides}

AskGuard ==
  /\ question = Unasked
  /\ \E q \in Guard : question' = q /\ answer' = EvaluateGuard(q, env)
  /\ UNCHANGED env

AskPolicy ==
  /\ question = Unasked
  /\ \E x \in Conditions : question' = <<"policy", x>> /\ answer' = EvaluateCondition(x, env)
  /\ UNCHANGED env

GuardsNext == (\E name \in Names : Supply(name)) \/ AskGuard \/ AskPolicy

GuardsSpec == GuardsInit /\ [][GuardsNext]_guardVars

-----------------------------------------------------------------------------
(* Correctness *)

\* What was asked, with some names holding other values.
AnswerIn(e) ==
  IF question[1] = "policy" THEN EvaluateCondition(question[2], e)
  ELSE EvaluateGuard(question, e)

\* The environments in which the names that lack a value have one.
Completions(lacking) ==
  LET some == {f \in [lacking -> UNION {Domain[name] : name \in lacking}] :
                 \A name \in lacking : f[name] \in Domain[name]}
  IN  {[name \in Names |-> IF name \in lacking THEN f[name] ELSE env[name]] : f \in some}

Lacking(empty) == {name \in Inputs \union Fields : env[name] \in empty}

\* Terms are made of references, literals and numbers computed of them; what is
\* positive compares terms, without equality, and joins the comparisons.
SortImpl(x, recurse) ==
  IF x.kind \in Leaves THEN "term"
  ELSE IF x.kind = "not" \/ (x.kind = "method_call" /\ x.op = "eq") THEN "other"
  ELSE LET terms == recurse[x.left] = "term" /\ recurse[x.right] = "term"
       IN  IF x.kind = "binop" THEN IF terms THEN "term" ELSE "other"
           ELSE IF terms \/ (x.kind \in {"and", "or"} /\ recurse[x.left] # "other"
                                                    /\ recurse[x.right] # "other")
                THEN "positive" ELSE "other"
Sort == LET sort[x \in Exprs] == SortImpl(x, sort) IN sort
Positive == {x \in Conditions : Sort[x] # "other"}

OfComparisons ==
  LET cmp[x \in Exprs] ==
        CASE x.kind = "compare" -> TRUE
          [] x.kind = "not" -> cmp[x.expr]
          [] x.kind \in {"and", "or"} -> cmp[x.left] /\ cmp[x.right]
          [] OTHER -> FALSE
  IN  {x \in Conditions : cmp[x]}

(* Names hold their values and each evaluator answers in its own terms: a    *)
(* condition that cannot be evaluated is a policy's refusal, never the       *)
(* plain DataUnavailableError (_enforce_and_call_with_policies).             *)
GuardsTypeOK ==
  /\ \A name \in Names : env[name] \in Holding(name)
  /\ question = Unasked \/ question[1] = "policy" \/ question \in Guard
  /\ answer \in IF question = Unasked THEN {"none"}
                 ELSE IF question[1] = "policy" THEN PolicyAnswers ELSE GuardAnswers

(* A policy that lets a call pass does so for good reason: had the inputs    *)
(* that were not provided been provided, whatever their values, it would     *)
(* have let the call pass as well (_resolve_policy_ref).                     *)
AllowedIsCertain ==
  question[1] = "policy" /\ answer = "allowed" =>
    \A e \in Completions(Lacking({Absent})) : AnswerIn(e) = "allowed"

(* Missing data never takes a transition by comparison: an "if" guard that   *)
(* compares terms, without "not" and without equality, and that matches,     *)
(* would, whatever the values it lacked, still not have been passed over     *)
(* (_eval_expr_impl's None propagation).                                     *)
PositiveMatchIsCertain ==
  question[1] = "if" /\ question[2] \in Positive /\ answer = "match" =>
    \A e \in Completions(Lacking({Absent, None})) : AnswerIn(e) # "no_match"

(* A path argument given as a string is judged as the path it is:            *)
(* _bind_trigger_args coerces it, so no policy's verdict depends on which    *)
(* of the two the caller passed.                                             *)
SpellingIrrelevant ==
  question[1] = "policy" =>
    answer = AnswerIn([name \in Names |->
                         IF name \in PathBound /\ env[name][1] = "str"
                         THEN PathOf(env[name][2]) ELSE env[name]])

(* Two kinds of verdict do not hang on missing data: a call allowed without   *)
(* an input would be allowed with it, and a positive guard that matches       *)
(* without a field would not be passed over with it. Besides, how a path is   *)
(* spelt changes nothing, and an evaluation that fails is a refusal. Guards    *)
(* with a negation or an equality, and inputs that are None, do hang on it    *)
(* (_eval_expr_impl; FailsClosed).                                            *)
VerdictsAreSound ==
  GuardsTypeOK /\ AllowedIsCertain /\ PositiveMatchIsCertain /\ SpellingIrrelevant

(* "None propagation: fail-closed for guards" (_eval_expr_impl): an "if"     *)
(* guard made of comparisons that matches would, whatever the values it      *)
(* lacked, still not have been passed over, also under a "not".              *)
FailsClosed ==
  question[1] = "if" /\ question[2] \in OfComparisons /\ answer = "match" =>
    \A e \in Completions(Lacking({Absent, None})) : AnswerIn(e) # "no_match"
=============================================================================
