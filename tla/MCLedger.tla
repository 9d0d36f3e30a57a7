------------------------------ MODULE MCLedger ------------------------------
(* Results of one field of every kind, one of them unsafe and one without    *)
(* canonical form, and, of three, those that use up the passes or nearly do; *)
(* outputs that are metrics, secrets, or badly named.                        *)
EXTENDS Ledger

Out(at, has, name) == [at |-> at, has |-> has, name |-> name]

MCOutputs == {
  <<Out("/output/score", "number", "plain")>>,
  <<Out("/output/score", "huge", "plain")>>,
  <<Out("/output/stdout", "secret", "broken")>>,
  <<Out("/output/stdout", "number", "plain"), Out("/output/other", "plain", "credential")>>}

MCResults ==
  {<<Field(at, "secret")>> : at \in {"/v/out", "/v/stdout", "/v/headers"}}
    \union {<<Field("/v/out", x)>> : x \in {"plain", "huge", "broken"}}
    \union {<<Field("/v/stdout", "home")>>}
    \union {<<Field("/v/out", "secret"), Field("/v/out", x), Field("/v/out", "secret")>> :
             x \in {"plain", "secret"}}
    \union {<<Field("/v/out", "secret"), Field("/v/out", "home"), Field("/v/out", "plain")>>}

MCMessages == {<<Field("/v/out", x)>> : x \in {"plain", "credential", "huge"}}

MCToolUses == [tool : {"plain", "credential"}, path : {"plain"}]
                \union [tool : {"plain"}, path : {"secret", "home"}]
=============================================================================
