--------------------------- MODULE Replay_proofs ---------------------------
(***************************************************************************)
(* A replay that matches is the recorded run again, call by call, and a    *)
(* run with no flaw has a replay that matches, for all stages, tools,      *)
(* policies, budgets and omissions.                                        *)
(*                                                                         *)
(* For the first, two runs are compared through the one sequence they      *)
(* share, so the invariant counts milestones: what the ledger and the      *)
(* replayed milestones say of visits, responses and calls against what the *)
(* tapes and their cursors say of them.                                    *)
(*                                                                         *)
(* For the second, the replay has no flaw to excuse it, so it is followed  *)
(* step by step: the invariant says that the live run is a story, moment   *)
(* after moment, and that the replay stands at one of its moments.         *)
(***************************************************************************)
EXTENDS Replay, FiniteSetTheorems, TLAPS

-----------------------------------------------------------------------------
(* Types.                                                                  *)

Kinds ==
  {"stage_started", "model_completed", "model_retry", "policy_checked", "policy_denied",
   "tool_call_started", "tool_call_completed", "tool_call_failed", "stage_completed",
   "transition_selected"}

Details == {""} \union Tools \union Stages \union (Tools \X BOOLEAN)

Milestones ==
  {<<"run_started">>, <<"run_failed">>, <<"run_completed">>} \union (Kinds \X Stages \X Details)

Responses == [visit : Nat, stage : Stages, answer : Answers]
Fixtures ==
  [visit : Nat, tool : Tools, shape : Shapes, result : Values \union {"error", "fatal"},
   mask : {"clear", "nested", "whole"}]
Snapshots == [visit : Nat, output : [value : {"x", "y", Hidden}, masked : BOOLEAN]]
Tapes ==
  [responses : Seq(Responses), fixtures : Seq(Fixtures),
   policies : [Guarded -> Seq({"allowed", "denied"})], snapshots : Seq(Snapshots)]
Heads ==
  [asked : [Stages -> SUBSET Nat], served : Seq([visit : Nat, tool : Tools, fixture : Nat]),
   checked : [Guarded -> Nat], outputs : Seq([visit : Nat, value : {"x", "y", Hidden}])]

ReplayTypes ==
  /\ ReplayTypeOK
  /\ tape \in Tapes
  /\ head \in Heads
  /\ ledger \in Seq(Milestones)
  /\ replayed \in Seq(Milestones)
  /\ pc \in {"dispatch", "policy", "tool"} => answer.kind = "call"
  /\ pc \in {"policy", "tool"} => answer.tool \in Tools
  /\ pc = "policy" => answer.tool \in Guarded
  /\ pc = "after" => output.value # "invalid"

Flaws == {"aliased", "malformed", "unavailable", "arguments", "secret", "late_failure",
          "omitted"}

\* What removing one of them leaves of a sequence.
LEMMA RemovalFacts ==
  ASSUME NEW T, NEW s \in Seq(T), NEW k \in 1 .. Len(s)
  PROVE  /\ RemoveAt(s, k) \in Seq(T)
         /\ Len(RemoveAt(s, k)) = Len(s) - 1
         /\ \A i \in 1 .. Len(s) - 1 : RemoveAt(s, k)[i] = IF i < k THEN s[i] ELSE s[i + 1]
  <1> DEFINE l == SubSeq(s, 1, k - 1)
             r == SubSeq(s, k + 1, Len(s))
  <1>1. l \in Seq(T) /\ Len(l) = k - 1 /\ \A i \in 1 .. k - 1 : l[i] = s[i]
    OBVIOUS
  <1>2. r \in Seq(T) /\ Len(r) = Len(s) - k /\ \A i \in 1 .. Len(s) - k : r[i] = s[k + i]
    OBVIOUS
  <1>3. RemoveAt(s, k) = l \o r
    BY DEF RemoveAt
  <1> HIDE DEF l, r
  <1>4. \A i \in 1 .. Len(s) - 1 :
          (l \o r)[i] = IF i <= Len(l) THEN l[i] ELSE r[i - Len(l)]
    BY <1>1, <1>2
  <1>5. ASSUME NEW i \in 1 .. Len(s) - 1
        PROVE  (l \o r)[i] = IF i < k THEN s[i] ELSE s[i + 1]
    <2>1. CASE i < k
      BY <2>1, <1>1, <1>2, <1>4
    <2>2. CASE ~(i < k)
      <3>1. i - (k - 1) \in 1 .. Len(s) - k /\ k + (i - (k - 1)) = i + 1
        BY <2>2
      <3> QED BY <3>1, <2>2, <1>1, <1>2, <1>4
    <2> QED BY <2>1, <2>2
  <1>6. l \o r \in Seq(T) /\ Len(l \o r) = Len(l) + Len(r)
    <2>1. \A x, y \in Seq(T) : x \o y \in Seq(T) /\ Len(x \o y) = Len(x) + Len(y)
      OBVIOUS
    <2> QED BY <2>1, <1>1, <1>2
  <1>7. Len(l) + Len(r) = Len(s) - 1
    BY <1>1, <1>2
  <1> QED BY <1>3, <1>5, <1>6, <1>7

LEMMA SameSequence ==
  ASSUME NEW T, NEW s \in Seq(T), NEW t \in Seq(T), Len(s) = Len(t),
         \A i \in 1 .. Len(s) : s[i] = t[i]
  PROVE  s = t
  OBVIOUS

LEMMA RemovedIs ==
  ASSUME NEW T, NEW s \in Seq(T), NEW t \in Seq(T), NEW k \in 1 .. Len(s),
         Len(t) = Len(s) - 1,
         \A i \in 1 .. Len(t) : t[i] = IF i < k THEN s[i] ELSE s[i + 1]
  PROVE  RemoveAt(s, k) = t
  <1>1. /\ RemoveAt(s, k) \in Seq(T) /\ Len(RemoveAt(s, k)) = Len(s) - 1
        /\ \A i \in 1 .. Len(s) - 1 : RemoveAt(s, k)[i] = IF i < k THEN s[i] ELSE s[i + 1]
    BY RemovalFacts
  <1> QED BY <1>1, SameSequence

LEMMA RemovalOfOne ==
  ASSUME NEW T, NEW a \in T
  PROVE  RemoveAt(<<a>>, 1) = << >>
  <1>0. \A s, t \in Seq(T) : \A k \in 1 .. Len(s) :
          /\ Len(t) = Len(s) - 1
          /\ \A i \in 1 .. Len(t) : t[i] = IF i < k THEN s[i] ELSE s[i + 1]
          => RemoveAt(s, k) = t
    BY RemovedIs
  <1>1. RemoveAt(<<a>>, 1) = << >>
    <2> DEFINE s == <<a>>
               t == << >>
    <2>1. s \in Seq(T) /\ Len(s) = 1 /\ t \in Seq(T) /\ Len(t) = 0
      OBVIOUS
    <2>2. \A i \in 1 .. Len(t) : t[i] = IF i < 1 THEN s[i] ELSE s[i + 1]
      OBVIOUS
    <2> HIDE DEF s, t
    <2>3. 1 \in 1 .. Len(s) /\ Len(t) = Len(s) - 1
      BY <2>1
    <2>4. RemoveAt(s, 1) = t
      BY <1>0, <2>1, <2>2, <2>3
    <2> QED BY <2>4 DEF s, t
  <1> QED BY <1>1

LEMMA RemovalsOfTwo ==
  ASSUME NEW T, NEW a \in T, NEW b \in T
  PROVE  RemoveAt(<<a, b>>, 1) = <<b>> /\ RemoveAt(<<a, b>>, 2) = <<a>>
  <1>0. \A s, t \in Seq(T) : \A k \in 1 .. Len(s) :
          /\ Len(t) = Len(s) - 1
          /\ \A i \in 1 .. Len(t) : t[i] = IF i < k THEN s[i] ELSE s[i + 1]
          => RemoveAt(s, k) = t
    BY RemovedIs
  <1>2. RemoveAt(<<a, b>>, 1) = <<b>>
    <2> DEFINE s == <<a, b>>
               t == <<b>>
    <2>1. s \in Seq(T) /\ Len(s) = 2 /\ t \in Seq(T) /\ Len(t) = 1
      OBVIOUS
    <2>2. \A i \in 1 .. Len(t) : t[i] = IF i < 1 THEN s[i] ELSE s[i + 1]
      OBVIOUS
    <2> HIDE DEF s, t
    <2>3. 1 \in 1 .. Len(s) /\ Len(t) = Len(s) - 1
      BY <2>1
    <2>4. RemoveAt(s, 1) = t
      BY <1>0, <2>1, <2>2, <2>3
    <2> QED BY <2>4 DEF s, t
  <1>3. RemoveAt(<<a, b>>, 2) = <<a>>
    <2> DEFINE s == <<a, b>>
               t == <<a>>
    <2>1. s \in Seq(T) /\ Len(s) = 2 /\ t \in Seq(T) /\ Len(t) = 1
      OBVIOUS
    <2>2. \A i \in 1 .. Len(t) : t[i] = IF i < 2 THEN s[i] ELSE s[i + 1]
      OBVIOUS
    <2> HIDE DEF s, t
    <2>3. 2 \in 1 .. Len(s) /\ Len(t) = Len(s) - 1
      BY <2>1
    <2>4. RemoveAt(s, 2) = t
      BY <1>0, <2>1, <2>2, <2>3
    <2> QED BY <2>4 DEF s, t
  <1> QED BY <1>2, <1>3

LEMMA RemovalsOfThree ==
  ASSUME NEW T, NEW a \in T, NEW b \in T, NEW c \in T
  PROVE  /\ RemoveAt(<<a, b, c>>, 1) = <<b, c>>
         /\ RemoveAt(<<a, b, c>>, 2) = <<a, c>>
         /\ RemoveAt(<<a, b, c>>, 3) = <<a, b>>
  <1>0. \A s, t \in Seq(T) : \A k \in 1 .. Len(s) :
          /\ Len(t) = Len(s) - 1
          /\ \A i \in 1 .. Len(t) : t[i] = IF i < k THEN s[i] ELSE s[i + 1]
          => RemoveAt(s, k) = t
    BY RemovedIs
  <1>4. RemoveAt(<<a, b, c>>, 1) = <<b, c>>
    <2> DEFINE s == <<a, b, c>>
               t == <<b, c>>
    <2>1. s \in Seq(T) /\ Len(s) = 3 /\ t \in Seq(T) /\ Len(t) = 2
      OBVIOUS
    <2>2. \A i \in 1 .. Len(t) : t[i] = IF i < 1 THEN s[i] ELSE s[i + 1]
      OBVIOUS
    <2> HIDE DEF s, t
    <2>3. 1 \in 1 .. Len(s) /\ Len(t) = Len(s) - 1
      BY <2>1
    <2>4. RemoveAt(s, 1) = t
      BY <1>0, <2>1, <2>2, <2>3
    <2> QED BY <2>4 DEF s, t
  <1>5. RemoveAt(<<a, b, c>>, 2) = <<a, c>>
    <2> DEFINE s == <<a, b, c>>
               t == <<a, c>>
    <2>1. s \in Seq(T) /\ Len(s) = 3 /\ t \in Seq(T) /\ Len(t) = 2
      OBVIOUS
    <2>2. \A i \in 1 .. Len(t) : t[i] = IF i < 2 THEN s[i] ELSE s[i + 1]
      OBVIOUS
    <2> HIDE DEF s, t
    <2>3. 2 \in 1 .. Len(s) /\ Len(t) = Len(s) - 1
      BY <2>1
    <2>4. RemoveAt(s, 2) = t
      BY <1>0, <2>1, <2>2, <2>3
    <2> QED BY <2>4 DEF s, t
  <1>6. RemoveAt(<<a, b, c>>, 3) = <<a, b>>
    <2> DEFINE s == <<a, b, c>>
               t == <<a, b>>
    <2>1. s \in Seq(T) /\ Len(s) = 3 /\ t \in Seq(T) /\ Len(t) = 2
      OBVIOUS
    <2>2. \A i \in 1 .. Len(t) : t[i] = IF i < 3 THEN s[i] ELSE s[i + 1]
      OBVIOUS
    <2> HIDE DEF s, t
    <2>3. 3 \in 1 .. Len(s) /\ Len(t) = Len(s) - 1
      BY <2>1
    <2>4. RemoveAt(s, 3) = t
      BY <1>0, <2>1, <2>2, <2>3
    <2> QED BY <2>4 DEF s, t
  <1> QED BY <1>4, <1>5, <1>6

\* What joining two sequences gives.
LEMMA Joins ==
  ASSUME NEW T, NEW p \in Seq(T), NEW q \in Seq(T)
  PROVE  /\ p \o q \in Seq(T) /\ Len(p \o q) = Len(p) + Len(q)
         /\ \A i \in 1 .. Len(p) + Len(q) :
              (p \o q)[i] = IF i <= Len(p) THEN p[i] ELSE q[i - Len(p)]
  OBVIOUS

\* Three milestones at once are three milestones in turn.
LEMMA Appends ==
  ASSUME NEW T, NEW s \in Seq(T), NEW a \in T, NEW b \in T, NEW c \in T
  PROVE  /\ s \o << >> = s
         /\ s \o <<a>> = Append(s, a)
         /\ s \o <<a, b>> = Append(Append(s, a), b)
         /\ s \o <<a, b, c>> = Append(Append(Append(s, a), b), c)
  <1>1. s \o << >> = s /\ s \o <<a>> = Append(s, a) /\ s \o <<a, b>> = Append(Append(s, a), b)
    OBVIOUS
  <1>2. s \o <<a, b, c>> = Append(s \o <<a, b>>, c)
    <2> DEFINE u == <<a, b>>
               w == <<a, b, c>>
               x == s \o w
               y == s \o u
               z == Append(y, c)
    <2>1. u \in Seq(T) /\ Len(u) = 2 /\ w \in Seq(T) /\ Len(w) = 3 /\ w[3] = c
          /\ \A i \in 1 .. 2 : w[i] = u[i]
      OBVIOUS
    <2> HIDE DEF u, w
    <2>2. /\ x \in Seq(T) /\ Len(x) = Len(s) + 3
          /\ \A i \in 1 .. Len(s) + 3 : x[i] = IF i <= Len(s) THEN s[i] ELSE w[i - Len(s)]
      <3>1. /\ s \o w \in Seq(T) /\ Len(s \o w) = Len(s) + Len(w)
            /\ \A i \in 1 .. Len(s) + Len(w) :
                 (s \o w)[i] = IF i <= Len(s) THEN s[i] ELSE w[i - Len(s)]
        BY <2>1, Joins
      <3> QED BY <2>1, <3>1
    <2>3. /\ y \in Seq(T) /\ Len(y) = Len(s) + 2
          /\ \A i \in 1 .. Len(s) + 2 : y[i] = IF i <= Len(s) THEN s[i] ELSE u[i - Len(s)]
      <3>1. /\ s \o u \in Seq(T) /\ Len(s \o u) = Len(s) + Len(u)
            /\ \A i \in 1 .. Len(s) + Len(u) :
                 (s \o u)[i] = IF i <= Len(s) THEN s[i] ELSE u[i - Len(s)]
        BY <2>1, Joins
      <3> QED BY <2>1, <3>1
    <2> HIDE DEF x, y
    <2>4. /\ z \in Seq(T) /\ Len(z) = Len(s) + 3
          /\ \A i \in 1 .. Len(s) + 2 : z[i] = y[i]
          /\ z[Len(s) + 3] = c
      BY <2>3
    <2> HIDE DEF z
    <2>5. ASSUME NEW i \in 1 .. Len(s) + 3
          PROVE  x[i] = z[i]
      <3>1. CASE i <= Len(s)
        BY <3>1, <2>2, <2>3, <2>4
      <3>2. CASE i \in {Len(s) + 1, Len(s) + 2}
        <4>1. i - Len(s) \in 1 .. 2 /\ ~(i <= Len(s)) /\ i \in 1 .. Len(s) + 2
          BY <3>2
        <4> QED BY <4>1, <2>1, <2>2, <2>3, <2>4
      <3>3. CASE i = Len(s) + 3
        <4>1. i - Len(s) = 3 /\ ~(i <= Len(s))
          BY <3>3
        <4> QED BY <4>1, <3>3, <2>1, <2>2, <2>4
      <3> QED BY <3>1, <3>2, <3>3
    <2>6. x = z
      BY <2>2, <2>4, <2>5, SameSequence
    <2> QED BY <2>6 DEF x, y, z, u, w
  <1> QED BY <1>1, <1>2

LEMMA AllAppends ==
  ASSUME NEW T, NEW s \in Seq(T)
  PROVE  /\ s \o << >> = s
         /\ \A a \in T : s \o <<a>> = Append(s, a)
         /\ \A a, b \in T : s \o <<a, b>> = Append(Append(s, a), b)
         /\ \A a, b, c \in T : s \o <<a, b, c>> = Append(Append(Append(s, a), b), c)
  <1>1. \A a, b \in T : s \o << >> = s /\ s \o <<a>> = Append(s, a)
                       /\ s \o <<a, b>> = Append(Append(s, a), b)
    OBVIOUS
  <1>2. s \o << >> = s
    OBVIOUS
  <1>3. \A a, b, c \in T : s \o <<a, b, c>> = Append(Append(Append(s, a), b), c)
    BY Appends
  <1> QED BY <1>1, <1>2, <1>3

LEMMA AppendPair ==
  ASSUME NEW T, NEW a \in T, NEW b \in T, NEW c \in T
  PROVE  /\ Append(<<a>>, b) = <<a, b>>
         /\ Append(<<a, b>>, c) = <<a, b, c>>
  <1> DEFINE e == << >>
             u == <<a, b>>
             w == <<a, b, c>>
  <1>1. e \in Seq(T) /\ u \in Seq(T) /\ w \in Seq(T) /\ \A q \in Seq(T) : e \o q = q
    OBVIOUS
  <1>2. e \o <<a, b>> = Append(Append(e, a), b)
        /\ e \o <<a, b, c>> = Append(Append(Append(e, a), b), c)
    BY AllAppends
  <1>3. Append(e, a) = <<a>>
    OBVIOUS
  <1>4. e \o <<a, b>> = u /\ e \o <<a, b, c>> = w
    BY <1>1
  <1> HIDE DEF e, u, w
  <1>5. u = Append(Append(e, a), b) /\ w = Append(Append(Append(e, a), b), c)
    BY <1>2, <1>4
  <1>6. w = Append(u, c) /\ u = Append(<<a>>, b)
    BY <1>3, <1>5
  <1> QED BY <1>6 DEF u, w

\* What a live run writes of one, two or three milestones: all, or all but one
\* and the mark of the omission.
Wrote(s, more) == ledger' = s /\ flaws' = flaws \union more
Omits(more) == "omitted" \notin flaws /\ flaws' = flaws \union more \union {"omitted"}

LEMMA EmitOne ==
  ASSUME ledger \in Seq(Milestones), NEW a \in Milestones, NEW more, Live, Emits(<<a>>, more)
  PROVE  /\ replayed' = replayed
         /\ \/ Wrote(Append(ledger, a), more)
            \/ Omits(more) /\ ledger' = ledger
  <1>1. \A s \in Seq(Milestones) : s \o <<a>> = Append(s, a) /\ s \o << >> = s
    OBVIOUS
  <1>2. CASE ledger' = ledger \o <<a>> /\ flaws' = flaws \union more /\ UNCHANGED replayed
    BY <1>1, <1>2 DEF Wrote
  <1>3. ASSUME NEW k \in DOMAIN <<a>>, "omitted" \notin flaws,
               ledger' = ledger \o RemoveAt(<<a>>, k),
               flaws' = flaws \union more \union {"omitted"}
        PROVE  Omits(more) /\ ledger' = ledger
    <2>1. k = 1
      OBVIOUS
    <2> QED BY <2>1, <1>1, <1>3, RemovalOfOne DEF Omits
  <1> QED BY <1>2, <1>3 DEF Emits

LEMMA EmitTwo ==
  ASSUME ledger \in Seq(Milestones), NEW a \in Milestones, NEW b \in Milestones, NEW more, Live,
         Emits(<<a, b>>, more)
  PROVE  /\ replayed' = replayed
         /\ \/ Wrote(Append(Append(ledger, a), b), more)
            \/ Omits(more) /\ ledger' \in {Append(ledger, a), Append(ledger, b)}
  <1>1. \A s \in Seq(Milestones) :
          /\ s \o <<a, b>> = Append(Append(s, a), b)
          /\ s \o <<a>> = Append(s, a) /\ s \o <<b>> = Append(s, b)
    OBVIOUS
  <1>2. CASE ledger' = ledger \o <<a, b>> /\ flaws' = flaws \union more /\ UNCHANGED replayed
    BY <1>1, <1>2 DEF Wrote
  <1>3. ASSUME NEW k \in DOMAIN <<a, b>>, "omitted" \notin flaws,
               ledger' = ledger \o RemoveAt(<<a, b>>, k),
               flaws' = flaws \union more \union {"omitted"}
        PROVE  Omits(more) /\ ledger' \in {Append(ledger, a), Append(ledger, b)}
    <2>1. k = 1 \/ k = 2
      OBVIOUS
    <2>2. RemoveAt(<<a, b>>, 1) = <<b>> /\ RemoveAt(<<a, b>>, 2) = <<a>>
      BY RemovalsOfTwo
    <2>3. RemoveAt(<<a, b>>, k) \in {<<a>>, <<b>>}
      BY <2>1, <2>2
    <2> QED BY <2>3, <1>1, <1>3 DEF Omits
  <1> QED BY <1>2, <1>3 DEF Emits

LEMMA EmitThree ==
  ASSUME ledger \in Seq(Milestones), NEW a \in Milestones, NEW b \in Milestones,
         NEW c \in Milestones, NEW more, Live, Emits(<<a, b, c>>, more)
  PROVE  /\ replayed' = replayed
         /\ \/ Wrote(Append(Append(Append(ledger, a), b), c), more)
            \/ /\ Omits(more)
               /\ ledger' \in {Append(Append(ledger, a), b), Append(Append(ledger, a), c),
                               Append(Append(ledger, b), c)}
  <1>0. /\ \A x \in Milestones : ledger \o <<x>> = Append(ledger, x)
        /\ \A x, y \in Milestones : ledger \o <<x, y>> = Append(Append(ledger, x), y)
        /\ \A x, y, z \in Milestones :
             ledger \o <<x, y, z>> = Append(Append(Append(ledger, x), y), z)
    BY AllAppends
  <1>1. /\ ledger \o <<a, b, c>> = Append(Append(Append(ledger, a), b), c)
        /\ ledger \o <<a, b>> = Append(Append(ledger, a), b)
        /\ ledger \o <<a, c>> = Append(Append(ledger, a), c)
        /\ ledger \o <<b, c>> = Append(Append(ledger, b), c)
    BY <1>0
  <1>2. CASE ledger' = ledger \o <<a, b, c>> /\ flaws' = flaws \union more /\ UNCHANGED replayed
    BY <1>1, <1>2 DEF Wrote
  <1>3. ASSUME NEW k \in DOMAIN <<a, b, c>>, "omitted" \notin flaws,
               ledger' = ledger \o RemoveAt(<<a, b, c>>, k),
               flaws' = flaws \union more \union {"omitted"}
        PROVE  /\ Omits(more)
               /\ ledger' \in {Append(Append(ledger, a), b), Append(Append(ledger, a), c),
                               Append(Append(ledger, b), c)}
    <2>1. k = 1 \/ k = 2 \/ k = 3
      OBVIOUS
    <2>2. /\ RemoveAt(<<a, b, c>>, 1) = <<b, c>> /\ RemoveAt(<<a, b, c>>, 2) = <<a, c>>
          /\ RemoveAt(<<a, b, c>>, 3) = <<a, b>>
      BY RemovalsOfThree
    <2>3. RemoveAt(<<a, b, c>>, k) \in {<<a, b>>, <<a, c>>, <<b, c>>}
      BY <2>1, <2>2
    <2> QED BY <2>3, <1>1, <1>3 DEF Omits
  <1> QED BY <1>2, <1>3 DEF Emits

\* The replay emits all of them.
LEMMA EmitReplayed ==
  ASSUME replayed \in Seq(Milestones), NEW keys, NEW more, ~Live, Emits(keys, more)
  PROVE  /\ replayed' = replayed \o keys /\ ledger' = ledger /\ flaws' = flaws
         /\ \A a \in Milestones : keys = <<a>> => replayed' = Append(replayed, a)
         /\ \A a, b \in Milestones :
              keys = <<a, b>> => replayed' = Append(Append(replayed, a), b)
         /\ \A a, b, c \in Milestones :
              keys = <<a, b, c>> => replayed' = Append(Append(Append(replayed, a), b), c)
  <1>0. /\ \A x \in Milestones : replayed \o <<x>> = Append(replayed, x)
        /\ \A x, y \in Milestones : replayed \o <<x, y>> = Append(Append(replayed, x), y)
        /\ \A x, y, z \in Milestones :
             replayed \o <<x, y, z>> = Append(Append(Append(replayed, x), y), z)
    BY AllAppends
  <1>2. replayed' = replayed \o keys /\ ledger' = ledger /\ flaws' = flaws
    BY DEF Emits
  <1>3. ASSUME NEW a \in Milestones, keys = <<a>>
        PROVE  replayed' = Append(replayed, a)
    BY <1>0, <1>2, <1>3
  <1>4. ASSUME NEW a \in Milestones, NEW b \in Milestones, keys = <<a, b>>
        PROVE  replayed' = Append(Append(replayed, a), b)
    BY <1>0, <1>2, <1>4
  <1>5. ASSUME NEW a \in Milestones, NEW b \in Milestones, NEW c \in Milestones,
               keys = <<a, b, c>>
        PROVE  replayed' = Append(Append(Append(replayed, a), b), c)
    BY <1>0, <1>2, <1>5
  <1> QED BY <1>2, <1>3, <1>4, <1>5

\* A key of a stage is a milestone.
LEMMA KeysTyped ==
  ASSUME stage \in Stages, NEW kind \in Kinds, NEW d \in Details
  PROVE  Key(kind, d) \in Milestones
  BY DEF Key, Milestones

\* Whatever is emitted, ledger and replayed milestones keep their types.
LEMMA EmitTyped ==
  ASSUME ReplayTypes, NEW keys \in Seq(Milestones), NEW more \in SUBSET Flaws, Emits(keys, more)
  PROVE  /\ ledger' \in Seq(Milestones) /\ replayed' \in Seq(Milestones)
         /\ flaws' \subseteq Flaws
  <1>1. ledger \in Seq(Milestones) /\ replayed \in Seq(Milestones) /\ flaws \subseteq Flaws
    BY DEF ReplayTypes, ReplayTypeOK, Flaws
  <1>2. \A k \in DOMAIN keys : RemoveAt(keys, k) \in Seq(Milestones)
    BY DEF RemoveAt
  <1>3. CASE Live /\ ledger' = ledger \o keys /\ flaws' = flaws \union more /\ UNCHANGED replayed
    BY <1>1, <1>3
  <1>4. ASSUME NEW k \in DOMAIN keys, ledger' = ledger \o RemoveAt(keys, k),
               flaws' = flaws \union more \union {"omitted"}, UNCHANGED replayed
        PROVE  /\ ledger' \in Seq(Milestones) /\ replayed' \in Seq(Milestones)
               /\ flaws' \subseteq Flaws
    <2>1. ledger' \in Seq(Milestones)
      BY <1>1, <1>2, <1>4
    <2> QED BY <2>1, <1>1, <1>4 DEF Flaws
  <1>5. CASE replayed' = replayed \o keys /\ UNCHANGED <<ledger, flaws>>
    BY <1>1, <1>5
  <1> QED BY <1>3, <1>4, <1>5 DEF Emits

Outcomes == [{"live", "replay"} -> {"none", "complete", "failed"}]
Outputs == [value : Values \union {Hidden}, masked : BOOLEAN]

\* What every part of a step that emits keeps.
RecordsTyped ==
  /\ ledger \in Seq(Milestones) /\ replayed \in Seq(Milestones)
  /\ flaws \subseteq Flaws /\ outcome \in Outcomes

LEMMA TypesUnfolded ==
  ASSUME ReplayTypes
  PROVE  /\ mode \in {"live", "replay"} /\ stage \in Stages
         /\ visit \in 0 .. MaxSteps /\ retries \in 0 .. MaxRetries /\ rounds \in 0 .. MaxRounds
         /\ answer \in Answers /\ output \in Outputs /\ missed \in BOOLEAN
         /\ tape \in Tapes /\ head \in Heads
         /\ RecordsTyped
         /\ MaxSteps \in Nat /\ MaxRetries \in Nat /\ MaxRounds \in Nat
  BY WorkflowAssumption DEF ReplayTypes, ReplayTypeOK, RecordsTyped, Outcomes, Outputs, Flaws

LEMMA FailTyped ==
  ASSUME ReplayTypes, NEW keys \in Seq(Milestones), NEW more \in SUBSET Flaws, Fail(keys, more)
  PROVE  RecordsTyped' /\ pc' = "ended"
  <1> DEFINE all == Append(keys, <<"run_failed">>)
             late == more \union (IF LateFailure THEN {"late_failure"} ELSE {})
  <1>1. all \in Seq(Milestones)
    BY DEF Milestones
  <1>2. late \in SUBSET Flaws
    BY DEF Flaws
  <1>3. Emits(all, late)
    BY DEF Fail
  <1> HIDE DEF all, late
  <1>4. ledger' \in Seq(Milestones) /\ replayed' \in Seq(Milestones) /\ flaws' \subseteq Flaws
    BY <1>1, <1>2, <1>3, EmitTyped
  <1>5. outcome' \in Outcomes
    BY TypesUnfolded DEF Fail, RecordsTyped, Outcomes
  <1> QED BY <1>4, <1>5 DEF Fail, RecordsTyped

LEMMA ToolErrorTyped ==
  ASSUME ReplayTypes, NEW keys \in Seq(Milestones), NEW more \in SUBSET Flaws,
         ToolError(keys, more)
  PROVE  RecordsTyped' /\ pc' \in {"asking", "ended"}
  <1>1. CASE IsModel /\ Emits(Append(keys, Retry), more) /\ pc' = "asking" /\ UNCHANGED outcome
    <2>1. Retry \in Milestones
      BY TypesUnfolded, KeysTyped DEF Retry, Kinds, Details
    <2>2. Append(keys, Retry) \in Seq(Milestones)
      BY <2>1
    <2>3. ledger' \in Seq(Milestones) /\ replayed' \in Seq(Milestones) /\ flaws' \subseteq Flaws
      BY <2>2, <1>1, EmitTyped
    <2> QED BY <2>3, <1>1, TypesUnfolded DEF RecordsTyped
  <1>2. CASE Fail(keys, more)
    BY <1>2, FailTyped
  <1> QED BY <1>1, <1>2 DEF ToolError

LEMMA RetryOrFailTyped ==
  ASSUME ReplayTypes, NEW more \in SUBSET Flaws, RetryOrFail(more)
  PROVE  RecordsTyped' /\ pc' \in {"asking", "ended"} /\ retries' \in 0 .. MaxRetries
  <1>1. CASE /\ retries < MaxRetries /\ retries' = retries + 1 /\ Emits(<<Retry>>, more)
             /\ pc' = "asking" /\ UNCHANGED outcome
    <2>1. Retry \in Milestones
      BY TypesUnfolded, KeysTyped DEF Retry, Kinds, Details
    <2>2. <<Retry>> \in Seq(Milestones)
      BY <2>1
    <2>3. ledger' \in Seq(Milestones) /\ replayed' \in Seq(Milestones) /\ flaws' \subseteq Flaws
      BY <2>2, <1>1, EmitTyped
    <2>4. retries' \in 0 .. MaxRetries
      BY <1>1, TypesUnfolded
    <2> QED BY <2>3, <2>4, <1>1, TypesUnfolded DEF RecordsTyped
  <1>2. CASE Fail(<< >>, more) /\ UNCHANGED retries
    <2>1. << >> \in Seq(Milestones)
      OBVIOUS
    <2> QED BY <2>1, <1>2, FailTyped, TypesUnfolded
  <1> QED BY <1>1, <1>2 DEF RetryOrFail

LEMMA ToolEndsTyped ==
  ASSUME ReplayTypes, answer.tool \in Tools, NEW result \in Values \union {Hidden, "error", "fatal"},
         NEW masked \in BOOLEAN, NEW more \in SUBSET Flaws, ToolEnds(result, masked, more)
  PROVE  RecordsTyped' /\ pc' \in {"asking", "ended", "returned"} /\ output' \in Outputs
  <1> DEFINE keys(kind) == <<Key("tool_call_started", answer.tool), Key(kind, answer.tool)>>
  <1>1. /\ keys("tool_call_failed") \in Seq(Milestones)
        /\ keys("tool_call_completed") \in Seq(Milestones)
    <2>1. /\ Key("tool_call_started", answer.tool) \in Milestones
          /\ Key("tool_call_failed", answer.tool) \in Milestones
          /\ Key("tool_call_completed", answer.tool) \in Milestones
      BY TypesUnfolded, KeysTyped DEF Kinds, Details
    <2> QED BY <2>1
  <1>2. output \in Outputs
    BY TypesUnfolded
  <1>3. CASE ToolError(keys("tool_call_failed"), more) /\ UNCHANGED output
    BY <1>1, <1>2, <1>3, ToolErrorTyped
  <1>4. CASE Fail(keys("tool_call_failed"), more) /\ UNCHANGED output
    BY <1>1, <1>2, <1>4, FailTyped
  <1>5. CASE /\ result \notin {"error", "fatal"}
             /\ Emits(keys("tool_call_completed"), more)
             /\ pc' = IF IsModel THEN "asking" ELSE "returned"
             /\ output' = IF IsModel THEN output ELSE [value |-> result, masked |-> masked]
             /\ UNCHANGED outcome
    <2>1. ledger' \in Seq(Milestones) /\ replayed' \in Seq(Milestones) /\ flaws' \subseteq Flaws
      BY <1>1, <1>5, EmitTyped
    <2>2. [value |-> result, masked |-> masked] \in Outputs
      BY <1>5 DEF Outputs
    <2> QED BY <2>1, <2>2, <1>2, <1>5, TypesUnfolded DEF RecordsTyped
  <1> QED BY <1>3, <1>4, <1>5 DEF ToolEnds

Points == {"loop", "asking", "dispatch", "policy", "tool", "returned", "after", "ended"}

\* What a point of the run says of the answer and the output.
PointTyped ==
  /\ pc \in Points
  /\ pc \in {"dispatch", "policy", "tool"} => answer.kind = "call"
  /\ pc \in {"policy", "tool"} => answer.tool \in Tools
  /\ pc = "policy" => answer.tool \in Guarded
  /\ pc = "after" => output.value # "invalid"

LEMMA TypesFolded ==
  ASSUME mode' \in {"live", "replay"}, stage' \in Stages, visit' \in 0 .. MaxSteps,
         retries' \in 0 .. MaxRetries, rounds' \in 0 .. MaxRounds, answer' \in Answers,
         output' \in Outputs, missed' \in BOOLEAN, tape' \in Tapes, head' \in Heads,
         RecordsTyped', PointTyped'
  PROVE  ReplayTypes'
  BY DEF ReplayTypes, ReplayTypeOK, RecordsTyped, PointTyped, Points, Outcomes, Outputs, Flaws

LEMMA PointUnfolded ==
  ASSUME ReplayTypes
  PROVE  PointTyped
  BY DEF ReplayTypes, ReplayTypeOK, PointTyped, Points

LEMMA OneTyped ==
  ASSUME NEW T, NEW a \in T
  PROVE  <<a>> \in Seq(T)
  OBVIOUS

LEMMA Bounds ==
  MaxSteps \in Nat /\ MaxRetries \in Nat /\ MaxRounds \in Nat
  BY WorkflowAssumption

\* A response is an output or a call.
LEMMA AnswerForms ==
  ASSUME NEW a \in Answers
  PROVE  \/ /\ a.kind = "output" /\ a.value \in Values /\ a.secret \in BOOLEAN
            /\ a = Output(a.value, a.secret)
         \/ /\ a.kind = "call" /\ a.tool \in Tools \union {"ghost"} /\ a.good \in BOOLEAN
            /\ a.shape \in Shapes /\ a = Call(a.tool, a.good, a.shape)
  <1> DEFINE os == {Output(v, FALSE) : v \in Values}
             cs == {Call(t, b, h) : t \in Tools, b \in BOOLEAN, h \in Shapes}
             o == Output("x", TRUE)
             g == Call("ghost", TRUE, "plain")
             isOutput == /\ a.kind = "output" /\ a.value \in Values /\ a.secret \in BOOLEAN
                         /\ a = Output(a.value, a.secret)
             isCall == /\ a.kind = "call" /\ a.tool \in Tools \union {"ghost"}
                       /\ a.good \in BOOLEAN /\ a.shape \in Shapes
                       /\ a = Call(a.tool, a.good, a.shape)
  <1>0. Answers = os \union {o} \union cs \union {g}
    BY DEF Answers
  <1>1. ASSUME a \in os PROVE isOutput
    <2>1. PICK v \in Values : a = Output(v, FALSE)
      BY <1>1
    <2> QED BY <2>1 DEF Output
  <1>2. ASSUME a = o PROVE isOutput
    BY <1>2 DEF Output, Values
  <1>3. ASSUME a \in cs PROVE isCall
    <2>1. PICK t \in Tools, b \in BOOLEAN, h \in Shapes : a = Call(t, b, h)
      BY <1>3
    <2> QED BY <2>1 DEF Call
  <1>4. ASSUME a = g PROVE isCall
    BY <1>4 DEF Call, Shapes
  <1>5. isOutput \/ isCall
    <2> HIDE DEF os, cs, o, g, isOutput, isCall
    <2> QED BY <1>0, <1>1, <1>2, <1>3, <1>4
  <1> QED BY <1>5

LEMMA CallsAreAnswers ==
  /\ NoAnswer \in Answers /\ Call("ghost", TRUE, "plain") \in Answers
  /\ \A t \in Tools : \A b \in BOOLEAN : \A h \in Shapes : Call(t, b, h) \in Answers
  <1>1. NoAnswer \in Answers
    BY DEF NoAnswer, Answers, Values
  <1>2. Call("ghost", TRUE, "plain") \in Answers
    BY DEF Answers
  <1>3. \A t \in Tools : \A b \in BOOLEAN : \A h \in Shapes : Call(t, b, h) \in Answers
    <2> DEFINE os == {Output(v, FALSE) : v \in Values}
               cs == {Call(t, b, h) : t \in Tools, b \in BOOLEAN, h \in Shapes}
               o == Output("x", TRUE)
               g == Call("ghost", TRUE, "plain")
    <2>1. Answers = os \union {o} \union cs \union {g}
      BY DEF Answers
    <2>2. \A t \in Tools : \A b \in BOOLEAN : \A h \in Shapes : Call(t, b, h) \in cs
      OBVIOUS
    <2> HIDE DEF os, cs, o, g
    <2> QED BY <2>1, <2>2
  <1> QED BY <1>1, <1>2, <1>3

LEMMA InitTypes ==
  ASSUME ReplayInit
  PROVE  ReplayTypes
  <1>1. /\ mode = "live" /\ pc = "loop" /\ stage \in Stages /\ visit \in 0 .. MaxSteps
        /\ retries \in 0 .. MaxRetries /\ rounds \in 0 .. MaxRounds /\ missed \in BOOLEAN
    <2>1. mode = "live" /\ pc = "loop" /\ stage = Entry /\ visit = 0 /\ retries = 0
          /\ rounds = 0 /\ missed = FALSE
      BY DEF ReplayInit
    <2>2. 0 \in 0 .. MaxSteps /\ 0 \in 0 .. MaxRetries /\ 0 \in 0 .. MaxRounds
      BY Bounds
    <2>3. Entry \in Stages
      BY WorkflowAssumption
    <2> QED BY <2>1, <2>2, <2>3
  <1>2. answer \in Answers
    BY DEF ReplayInit, NoAnswer, Answers, Values
  <1>3. output \in [value : Values \union {Hidden}, masked : BOOLEAN]
    BY DEF ReplayInit, NoOutput, Values
  <1>4. tape \in Tapes
    BY DEF ReplayInit, Tapes
  <1>5. head \in Heads
    BY DEF ReplayInit, Heads
  <1>6. ledger \in Seq(Milestones) /\ replayed \in Seq(Milestones)
    BY DEF ReplayInit, Milestones
  <1>7. outcome \in [{"live", "replay"} -> {"none", "complete", "failed"}] /\ flaws \subseteq Flaws
    BY DEF ReplayInit, Flaws
  <1> QED BY <1>1, <1>2, <1>3, <1>4, <1>5, <1>6, <1>7 DEF ReplayTypes, ReplayTypeOK, Flaws

LEMMA EnterTypes ==
  ASSUME ReplayTypes, EnterStage
  PROVE  ReplayTypes'
  <1>1. /\ UNCHANGED <<mode, stage, output, tape, head, missed>>
    BY DEF EnterStage
  <1>2. CASE visit = MaxSteps /\ Fail(<< >>, {}) /\ UNCHANGED <<visit, stageVars>>
    <2>1. << >> \in Seq(Milestones) /\ {} \in SUBSET Flaws
      OBVIOUS
    <2>2. RecordsTyped' /\ pc' = "ended"
      BY <2>1, <1>2, FailTyped
    <2>3. PointTyped'
      BY <2>2 DEF PointTyped, Points
    <2> QED BY <1>1, <1>2, <2>2, <2>3, TypesUnfolded, TypesFolded DEF stageVars
  <1>3. CASE /\ visit < MaxSteps /\ visit' = visit + 1
             /\ Emits(<<Key("stage_started", "")>>, {}) /\ retries' = 0 /\ rounds' = 0
             /\ \/ IsModel /\ pc' = "asking" /\ answer' = NoAnswer
                \/ /\ ~IsModel /\ pc' = ToolPoint(Executes[stage])
                   /\ answer' = Call(Executes[stage], TRUE, "plain")
             /\ UNCHANGED outcome
    <2>0. Key("stage_started", "") \in Milestones
      BY TypesUnfolded, KeysTyped DEF Kinds, Details
    <2>1. <<Key("stage_started", "")>> \in Seq(Milestones) /\ {} \in SUBSET Flaws
      BY <2>0, OneTyped
    <2>2. RecordsTyped'
      BY <2>1, <1>3, EmitTyped, TypesUnfolded DEF RecordsTyped
    <2>3. visit' \in 0 .. MaxSteps /\ retries' \in 0 .. MaxRetries /\ rounds' \in 0 .. MaxRounds
      <3>1. visit \in 0 .. MaxSteps /\ visit < MaxSteps /\ visit' = visit + 1
            /\ retries' = 0 /\ rounds' = 0
        BY <1>3, TypesUnfolded
      <3> QED BY <3>1, Bounds
    <2>4. answer' \in Answers /\ PointTyped'
      <3>1. CASE IsModel /\ pc' = "asking" /\ answer' = NoAnswer
        BY <3>1 DEF NoAnswer, Answers, Values, PointTyped, Points
      <3>2. CASE /\ ~IsModel /\ pc' = ToolPoint(Executes[stage])
                 /\ answer' = Call(Executes[stage], TRUE, "plain")
        <4>1. Executes[stage] \in Tools
          BY <3>2, TypesUnfolded, WorkflowAssumption DEF IsModel
        <4>2. answer' \in Answers /\ answer'.kind = "call" /\ answer'.tool = Executes[stage]
          BY <4>1, <3>2, CallsAreAnswers DEF Call, Shapes
        <4> QED BY <4>1, <4>2, <3>2 DEF PointTyped, Points, ToolPoint
      <3> QED BY <1>3, <3>1, <3>2
    <2> QED BY <1>1, <2>2, <2>3, <2>4, TypesUnfolded, TypesFolded
  <1> QED BY <1>2, <1>3 DEF EnterStage

LEMMA RaisesTypes ==
  ASSUME ReplayTypes, ModelRaises
  PROVE  ReplayTypes'
  <1>1. UNCHANGED <<mode, stage, visit, rounds, answer, output, tape, head, missed>>
    BY DEF ModelRaises
  <1>2. << >> \in Seq(Milestones) /\ {} \in SUBSET Flaws /\ {"malformed"} \in SUBSET Flaws
    BY DEF Flaws
  <1>3. RecordsTyped' /\ pc' \in {"asking", "ended"} /\ retries' \in 0 .. MaxRetries
    BY <1>2, FailTyped, RetryOrFailTyped, TypesUnfolded DEF ModelRaises
  <1>4. PointTyped'
    BY <1>3 DEF PointTyped, Points
  <1> QED BY <1>1, <1>3, <1>4, TypesUnfolded, TypesFolded

LEMMA TakeTyped ==
  ASSUME ReplayTypes, NEW a \in Answers, NEW more \in SUBSET Flaws, Take(a, more),
         UNCHANGED <<outcome>>
  PROVE  RecordsTyped' /\ PointTyped' /\ answer' \in Answers /\ output' \in Outputs
  <1>0. Key("model_completed", "") \in Milestones
    BY TypesUnfolded, KeysTyped DEF Kinds, Details
  <1>1. <<Key("model_completed", "")>> \in Seq(Milestones)
    BY <1>0, OneTyped
  <1>2. RecordsTyped'
    BY <1>1, EmitTyped, TypesUnfolded DEF RecordsTyped, Take
  <1>3. CASE a.kind = "call"
    BY <1>2, <1>3, TypesUnfolded DEF Take, PointTyped, Points
  <1>4. CASE a.kind # "call"
    <2>1. a.value \in Values /\ a.secret \in BOOLEAN
      BY <1>4, AnswerForms
    <2>2. output' = [value |-> a.value, masked |-> a.secret]
      BY <1>4 DEF Take
    <2>3. output' \in Outputs
      BY <2>1, <2>2 DEF Outputs
    <2> QED BY <1>2, <1>4, <2>3 DEF Take, PointTyped, Points
  <1> QED BY <1>3, <1>4

LEMMA AnswersTypes ==
  ASSUME ReplayTypes, NEW a \in Offered, ModelAnswers(a)
  PROVE  ReplayTypes'
  <1>1. UNCHANGED <<mode, stage, visit, retries, rounds, head, outcome, missed>>
    BY DEF ModelAnswers
  <1>2. a \in Answers
    BY DEF Offered
  <1>3. PICK more \in SUBSET Flaws : Take(a, more)
    BY DEF ModelAnswers, Flaws
  <1>4. tape' \in Tapes
    <2>1. [visit |-> visit, stage |-> stage, answer |-> a] \in Responses
      BY <1>2, TypesUnfolded DEF Responses
    <2>2. tape.responses \in Seq(Responses)
      BY TypesUnfolded DEF Tapes
    <2> DEFINE r == Append(tape.responses, [visit |-> visit, stage |-> stage, answer |-> a])
    <2>3. r \in Seq(Responses)
      BY <2>1, <2>2
    <2>4. tape' = [tape EXCEPT !.responses = r]
      BY DEF ModelAnswers
    <2> HIDE DEF r
    <2> QED BY <2>3, <2>4, TypesUnfolded DEF Tapes
  <1> QED BY <1>1, <1>2, <1>3, <1>4, TakeTyped, TypesUnfolded, TypesFolded

LEMMA ServeTypes ==
  ASSUME ReplayTypes, ServeResponse
  PROVE  ReplayTypes'
  <1>1. UNCHANGED <<mode, stage, visit, retries, rounds, tape, outcome, missed>>
    BY DEF ServeResponse
  <1>2. PICK i \in Waiting(stage) :
          /\ head' = [head EXCEPT !.asked[stage] = @ \union {i}]
          /\ Take(Taped(tape.responses[i].answer), {})
    BY DEF ServeResponse
  <1>3. i \in DOMAIN tape.responses
    BY DEF Waiting, Queue
  <1>4. tape.responses[i] \in Responses /\ i \in Nat
    BY <1>3, TypesUnfolded DEF Tapes
  <1>5. Taped(tape.responses[i].answer) \in Answers
    <2>1. tape.responses[i].answer \in Answers
      BY <1>4 DEF Responses
    <2> QED BY <2>1, CallsAreAnswers DEF Taped
  <1>6. head' \in Heads
    BY <1>2, <1>4, TypesUnfolded DEF Heads
  <1>7. {} \in SUBSET Flaws
    OBVIOUS
  <1> QED BY <1>1, <1>2, <1>5, <1>6, <1>7, TakeTyped, TypesUnfolded, TypesFolded

LEMMA MissTypes ==
  ASSUME ReplayTypes, MissResponse \/ RefuseStubs
  PROVE  ReplayTypes'
  <1>1. /\ UNCHANGED <<mode, stage, visit, stageVars, output, tape, head>>
        /\ missed' \in {TRUE, missed}
    BY DEF MissResponse, RefuseStubs
  <1>2. << >> \in Seq(Milestones) /\ {} \in SUBSET Flaws
    OBVIOUS
  <1>3. RecordsTyped' /\ pc' = "ended"
    BY <1>2, FailTyped DEF MissResponse, RefuseStubs
  <1>4. PointTyped'
    BY <1>3 DEF PointTyped, Points
  <1> QED BY <1>1, <1>3, <1>4, TypesUnfolded, TypesFolded DEF stageVars

\* A call the stage does not refuse is allowed, and so names a tool.
LEMMA Passes ==
  ASSUME ReplayTypes, NEW a, ~Refused(a)
  PROVE  a.tool \in Allows[stage] /\ a.tool \in Tools
  <1>1. a.tool \in Allows[stage]
    BY DEF Refused
  <1>2. Allows[stage] \in SUBSET Tools
    BY TypesUnfolded, WorkflowAssumption
  <1> QED BY <1>1, <1>2

LEMMA DispatchTypes ==
  ASSUME ReplayTypes, Dispatch
  PROVE  ReplayTypes'
  <1>1. UNCHANGED <<mode, stage, visit, retries, answer, output, tape, head, missed>>
        /\ pc = "dispatch"
    BY DEF Dispatch
  <1>2. answer.kind = "call"
    BY <1>1, PointUnfolded DEF PointTyped
  <1>3. << >> \in Seq(Milestones) /\ {} \in SUBSET Flaws /\ {"arguments"} \in SUBSET Flaws
    BY DEF Flaws
  <1>4. rounds' \in 0 .. MaxRounds
    <2>1. CASE rounds < MaxRounds /\ rounds' = rounds + 1
      BY <2>1, TypesUnfolded
    <2> QED BY <2>1, TypesUnfolded DEF Dispatch
  <1>5. RecordsTyped' /\ PointTyped'
    <2>1. CASE Fail(<< >>, {})
      BY <2>1, <1>3, FailTyped DEF PointTyped, Points
    <2>2. CASE ToolError(<< >>, IF Misjudged(answer) THEN {"arguments"} ELSE {})
      <3>1. PICK more \in SUBSET Flaws : ToolError(<< >>, more)
        BY <2>2, <1>3
      <3> QED BY <3>1, <1>3, ToolErrorTyped DEF PointTyped, Points
    <2>3. CASE /\ ~Refused(answer) /\ pc' = ToolPoint(answer.tool)
               /\ flaws' \in {flaws, flaws \union {"arguments"}}
               /\ UNCHANGED <<ledger, replayed, outcome>>
      BY <2>3, <1>1, <1>2, Passes, TypesUnfolded
         DEF PointTyped, Points, ToolPoint, RecordsTyped, Flaws
    <2> QED BY <2>1, <2>2, <2>3 DEF Dispatch
  <1> QED BY <1>1, <1>4, <1>5, TypesUnfolded, TypesFolded

LEMMA PolicyTypes ==
  ASSUME ReplayTypes, CheckPolicy
  PROVE  ReplayTypes'
  <1>1. UNCHANGED <<mode, stage, visit, stageVars, output, missed>> /\ pc = "policy"
    BY DEF CheckPolicy
  <1>2. answer.kind = "call" /\ answer.tool \in Tools /\ answer.tool \in Guarded
    BY <1>1, PointUnfolded DEF PointTyped
  <1> DEFINE t == answer.tool
             checked(denied) == Key("policy_checked", <<t, denied>>)
             wasDenied == Key("policy_denied", t)
  <1>3. checked(TRUE) \in Milestones /\ checked(FALSE) \in Milestones /\ wasDenied \in Milestones
    <2>1. <<t, TRUE>> \in Details /\ <<t, FALSE>> \in Details /\ t \in Details
      BY <1>2 DEF Details
    <2> QED BY <2>1, TypesUnfolded, KeysTyped DEF Kinds
  <1>4. PICK v \in Verdicts(t) :
          /\ \/ v = "allowed" /\ Emits(<<checked(FALSE)>>, {}) /\ pc' = "tool" /\ UNCHANGED outcome
             \/ v = "denied"  /\ ToolError(<<checked(TRUE), wasDenied>>, {})
             \/ v = "unavailable" /\ Fail(<<checked(TRUE)>>, {"unavailable"})
          /\ \/ /\ Live
                /\ tape' = [tape EXCEPT !.policies[t] =
                              Append(@, IF v = "unavailable" THEN "denied" ELSE v)]
                /\ UNCHANGED head
             \/ /\ ~Live
                /\ head' = IF head.checked[t] < Len(tape.policies[t])
                           THEN [head EXCEPT !.checked[t] = @ + 1] ELSE head
                /\ UNCHANGED tape
    BY DEF CheckPolicy
  <1>5. {} \in SUBSET Flaws /\ {"unavailable"} \in SUBSET Flaws
    BY DEF Flaws
  <1>6. RecordsTyped' /\ PointTyped'
    <2>0. /\ <<checked(FALSE)>> \in Seq(Milestones) /\ <<checked(TRUE)>> \in Seq(Milestones)
          /\ <<checked(TRUE), wasDenied>> \in Seq(Milestones)
      <3> DEFINE yes == checked(TRUE)
                 no == checked(FALSE)
      <3>1. yes \in Milestones /\ no \in Milestones /\ wasDenied \in Milestones
        BY <1>3
      <3> HIDE DEF yes, no, wasDenied
      <3>2. <<no>> \in Seq(Milestones) /\ <<yes>> \in Seq(Milestones)
            /\ <<yes, wasDenied>> \in Seq(Milestones)
        BY <3>1
      <3> QED BY <3>2 DEF yes, no, wasDenied
    <2> HIDE DEF checked, wasDenied
    <2>1. CASE v = "allowed" /\ Emits(<<checked(FALSE)>>, {}) /\ pc' = "tool" /\ UNCHANGED outcome
      <3>1. RecordsTyped'
        BY <2>0, <2>1, <1>5, EmitTyped, TypesUnfolded DEF RecordsTyped
      <3>2. PointTyped'
        BY <2>1, <1>1, <1>2 DEF PointTyped, Points, stageVars
      <3> QED BY <3>1, <3>2
    <2>2. CASE ToolError(<<checked(TRUE), wasDenied>>, {})
      BY <2>0, <2>2, <1>5, ToolErrorTyped DEF PointTyped, Points
    <2>3. CASE Fail(<<checked(TRUE)>>, {"unavailable"})
      BY <2>0, <2>3, <1>5, FailTyped DEF PointTyped, Points
    <2> QED BY <1>4, <2>1, <2>2, <2>3
  <1>7. tape' \in Tapes /\ head' \in Heads
    <2>0. tape.policies \in [Guarded -> Seq({"allowed", "denied"})] /\ head.checked \in [Guarded -> Nat]
      BY TypesUnfolded DEF Tapes, Heads
    <2>1. CASE /\ tape' = [tape EXCEPT !.policies[t] =
                              Append(@, IF v = "unavailable" THEN "denied" ELSE v)]
               /\ UNCHANGED head
      <3> DEFINE w == IF v = "unavailable" THEN "denied" ELSE v
                 q == Append(tape.policies[t], w)
                 ps == [tape.policies EXCEPT ![t] = q]
      <3>1. w \in {"allowed", "denied"}
        BY <1>4
      <3> HIDE DEF w
      <3>2. q \in Seq({"allowed", "denied"})
        BY <3>1, <2>0, <1>2
      <3>3. ps \in [Guarded -> Seq({"allowed", "denied"})]
        BY <3>2, <2>0
      <3>4. tape' = [tape EXCEPT !.policies = ps]
        BY <2>1 DEF w
      <3> HIDE DEF ps, q
      <3>5. tape' \in Tapes
        BY <3>3, <3>4, TypesUnfolded DEF Tapes
      <3> QED BY <2>1, <3>5, TypesUnfolded
    <2>2. CASE /\ head' = IF head.checked[t] < Len(tape.policies[t])
                          THEN [head EXCEPT !.checked[t] = @ + 1] ELSE head
               /\ UNCHANGED tape
      <3>1. head.checked[t] \in Nat
        BY <2>0, <1>2
      <3> DEFINE cs == [head.checked EXCEPT ![t] = head.checked[t] + 1]
      <3>3. cs \in [Guarded -> Nat]
        <4>1. head.checked \in [Guarded -> Nat] /\ head.checked[t] + 1 \in Nat
          BY <3>1, <2>0
        <4> QED BY <4>1
      <3>4. [head EXCEPT !.checked[t] = @ + 1] = [head EXCEPT !.checked = cs]
        OBVIOUS
      <3> HIDE DEF cs
      <3>2. [head EXCEPT !.checked[t] = @ + 1] \in Heads
        BY <3>3, <3>4, TypesUnfolded DEF Heads
      <3> QED BY <2>2, <3>2, TypesUnfolded
    <2> QED BY <1>4, <2>1, <2>2
  <1> QED BY <1>1, <1>6, <1>7, TypesUnfolded, TypesFolded DEF stageVars

LEMMA AfterTool ==
  ASSUME ReplayTypes, pc' \in {"asking", "ended", "returned"}
  PROVE  PointTyped'
  BY DEF PointTyped, Points

LEMMA ArgsShaped ==
  ASSUME ReplayTypes, pc = "tool"
  PROVE  ArgShapes \subseteq Shapes
  <1>1. answer \in Answers /\ answer.kind = "call"
    BY PointUnfolded, TypesUnfolded DEF PointTyped
  <1>2. answer.shape \in Shapes
    BY <1>1, AnswerForms
  <1> QED BY <1>2 DEF ArgShapes, Shapes

LEMMA CallTypes ==
  ASSUME ReplayTypes, CallTool
  PROVE  ReplayTypes'
  <1>1. UNCHANGED <<mode, stage, visit, stageVars, head, missed>> /\ pc = "tool"
    BY DEF CallTool
  <1>2. answer.tool \in Tools
    BY <1>1, PointUnfolded DEF PointTyped
  <1>0. PICK result \in Results : \E mask \in Masks(result), h \in ArgShapes :
          /\ tape' = [tape EXCEPT !.fixtures =
                       Append(@, [visit |-> visit, tool |-> answer.tool, shape |-> h,
                                  result |-> result, mask |-> mask])]
          /\ ToolEnds(result, mask # "clear",
                      IF mask = "whole" \/ (mask = "nested" /\ ~IsModel /\ Diverts(result))
                      THEN {"secret"} ELSE {})
    BY DEF CallTool
  <1>8. PICK mask \in Masks(result), h \in ArgShapes :
          /\ tape' = [tape EXCEPT !.fixtures =
                       Append(@, [visit |-> visit, tool |-> answer.tool, shape |-> h,
                                  result |-> result, mask |-> mask])]
          /\ ToolEnds(result, mask # "clear",
                      IF mask = "whole" \/ (mask = "nested" /\ ~IsModel /\ Diverts(result))
                      THEN {"secret"} ELSE {})
    BY <1>0
  <1> DEFINE more == IF mask = "whole" \/ (mask = "nested" /\ ~IsModel /\ Diverts(result))
                     THEN {"secret"} ELSE {}
  <1>3. /\ tape' = [tape EXCEPT !.fixtures =
                       Append(@, [visit |-> visit, tool |-> answer.tool, shape |-> h,
                                  result |-> result, mask |-> mask])]
        /\ ToolEnds(result, mask # "clear", more)
    BY <1>8
  <1>4. /\ result \in Values \union {"error", "fatal"} /\ mask \in {"clear", "nested", "whole"}
        /\ h \in Shapes
    BY <1>1, ArgsShaped DEF Results, Masks, Values
  <1>5. more \in SUBSET Flaws
    BY DEF Flaws
  <1> HIDE DEF more
  <1>6. RecordsTyped' /\ pc' \in {"asking", "ended", "returned"} /\ output' \in Outputs
    <2> DEFINE masked == mask # "clear"
    <2>1. masked \in BOOLEAN /\ ToolEnds(result, masked, more)
      BY <1>3
    <2>2. result \in Values \union {Hidden, "error", "fatal"}
      BY <1>4
    <2> HIDE DEF masked
    <2> QED BY <2>1, <2>2, <1>2, <1>5, ToolEndsTyped
  <1>7. tape' \in Tapes
    <2> DEFINE x == [visit |-> visit, tool |-> answer.tool, shape |-> h,
                    result |-> result, mask |-> mask]
               r == Append(tape.fixtures, x)
    <2>1. x \in Fixtures
      BY <1>2, <1>4, TypesUnfolded DEF Fixtures
    <2>2. tape.fixtures \in Seq(Fixtures)
      BY TypesUnfolded DEF Tapes
    <2>3. tape' = [tape EXCEPT !.fixtures = r]
      BY <1>3
    <2> HIDE DEF x
    <2>4. r \in Seq(Fixtures)
      BY <2>1, <2>2
    <2> HIDE DEF r
    <2> QED BY <2>3, <2>4, TypesUnfolded DEF Tapes
  <1> QED BY <1>1, <1>6, <1>7, AfterTool, TypesUnfolded, TypesFolded DEF stageVars

LEMMA FixtureTypes ==
  ASSUME ReplayTypes, ServeFixture
  PROVE  ReplayTypes'
  <1>1. UNCHANGED <<mode, stage, visit, stageVars, tape>> /\ pc = "tool"
    BY DEF ServeFixture
  <1>2. answer.tool \in Tools
    BY <1>1, PointUnfolded DEF PointTyped
  <1>3. {} \in SUBSET Flaws /\ FALSE \in BOOLEAN
    OBVIOUS
  <1>4. CASE /\ FixturesLeft
             /\ head' = [head EXCEPT !.served =
                      Append(@, [visit |-> visit, tool |-> answer.tool, fixture |-> NextFixture])]
             /\ ToolEnds(Reproduced(tape.fixtures[NextFixture]), FALSE, {})
             /\ UNCHANGED missed
    <2>1. head.served \in Seq([visit : Nat, tool : Tools, fixture : Nat])
          /\ tape.fixtures \in Seq(Fixtures)
      BY TypesUnfolded DEF Heads, Tapes
    <2>2. NextFixture \in 1 .. Len(tape.fixtures)
      BY <1>4, <2>1 DEF NextFixture, FixturesLeft
    <2> DEFINE x == [visit |-> visit, tool |-> answer.tool, fixture |-> NextFixture]
               r == Append(head.served, x)
               S == [visit : Nat, tool : Tools, fixture : Nat]
               result == Reproduced(tape.fixtures[NextFixture])
    <2>3. x \in S
      BY <1>2, <2>2, TypesUnfolded
    <2>4. head.served \in Seq(S)
      BY <2>1
    <2>5. head' = [head EXCEPT !.served = r]
      BY <1>4
    <2>6. result \in Values \union {Hidden, "error", "fatal"}
      <3>1. tape.fixtures[NextFixture] \in Fixtures
        BY <2>1, <2>2
      <3> QED BY <3>1 DEF Fixtures, Reproduced
    <2>7. ToolEnds(result, FALSE, {})
      BY <1>4
    <2> HIDE DEF x, S, result
    <2>8. r \in Seq(S)
      BY <2>3, <2>4
    <2> HIDE DEF r
    <2>9. head' \in Heads
      BY <2>5, <2>8, TypesUnfolded DEF Heads, S
    <2>10. RecordsTyped' /\ pc' \in {"asking", "ended", "returned"} /\ output' \in Outputs
      BY <2>6, <2>7, <1>2, <1>3, ToolEndsTyped
    <2> QED BY <2>9, <2>10, <1>1, <1>4, AfterTool, TypesUnfolded, TypesFolded DEF stageVars
  <1>5. CASE /\ ~FixturesLeft /\ ToolEnds("fatal", FALSE, {}) /\ missed' = TRUE /\ UNCHANGED head
    <2>1. RecordsTyped' /\ pc' \in {"asking", "ended", "returned"} /\ output' \in Outputs
      BY <1>2, <1>3, <1>5, ToolEndsTyped
    <2> QED BY <2>1, <1>1, <1>5, AfterTool, TypesUnfolded, TypesFolded DEF stageVars
  <1> QED BY <1>4, <1>5 DEF ServeFixture

LEMMA InvalidTypes ==
  ASSUME ReplayTypes, OutputInvalid
  PROVE  ReplayTypes'
  <1>1. UNCHANGED <<mode, stage, visit, rounds, answer, output, tape, head, missed>>
    BY DEF OutputInvalid
  <1>2. << >> \in Seq(Milestones) /\ {} \in SUBSET Flaws
    OBVIOUS
  <1>3. RecordsTyped' /\ pc' \in {"asking", "ended"} /\ retries' \in 0 .. MaxRetries
    BY <1>2, FailTyped, RetryOrFailTyped, TypesUnfolded DEF OutputInvalid
  <1>4. PointTyped'
    BY <1>3 DEF PointTyped, Points
  <1> QED BY <1>1, <1>3, <1>4, TypesUnfolded, TypesFolded

LEMMA CompleteTypes ==
  ASSUME ReplayTypes, CompleteStage
  PROVE  ReplayTypes'
  <1>1. /\ UNCHANGED <<mode, stage, visit, stageVars, output, outcome, missed>>
        /\ pc = "returned" /\ output.value # "invalid" /\ pc' = "after"
        /\ Emits(<<Key("stage_completed", "")>>, {})
    BY DEF CompleteStage
  <1>2. Key("stage_completed", "") \in Milestones
    BY TypesUnfolded, KeysTyped DEF Kinds, Details
  <1>3. <<Key("stage_completed", "")>> \in Seq(Milestones) /\ {} \in SUBSET Flaws
    BY <1>2, OneTyped
  <1>4. RecordsTyped'
    BY <1>1, <1>3, EmitTyped, TypesUnfolded DEF RecordsTyped
  <1>5. PointTyped'
    BY <1>1 DEF PointTyped, Points
  <1>6. output.value \in {"x", "y", Hidden} /\ output.masked \in BOOLEAN
        /\ output \in [value : {"x", "y", Hidden}, masked : BOOLEAN]
    BY <1>1, TypesUnfolded DEF Outputs, Values
  <1>7. tape' \in Tapes /\ head' \in Heads
    <2>1. CASE tape' = tape /\ UNCHANGED head
      BY <2>1, TypesUnfolded
    <2>2. CASE tape' = [tape EXCEPT !.snapshots = Append(@, [visit |-> visit, output |-> output])]
               /\ UNCHANGED head
      <3> DEFINE x == [visit |-> visit, output |-> output]
                 r == Append(tape.snapshots, x)
      <3>1. x \in Snapshots
        BY <1>6, TypesUnfolded DEF Snapshots
      <3>2. tape' = [tape EXCEPT !.snapshots = r] /\ tape.snapshots \in Seq(Snapshots)
        BY <2>2, TypesUnfolded DEF Tapes
      <3> HIDE DEF x
      <3>3. r \in Seq(Snapshots)
        BY <3>1, <3>2
      <3> HIDE DEF r
      <3> QED BY <3>2, <3>3, <2>2, TypesUnfolded DEF Tapes
    <2>3. CASE head' = [head EXCEPT !.outputs = Append(@, [visit |-> visit, value |-> output.value])]
               /\ UNCHANGED tape
      <3> DEFINE x == [visit |-> visit, value |-> output.value]
                 r == Append(head.outputs, x)
                 S == [visit : Nat, value : {"x", "y", Hidden}]
      <3>1. x \in S
        BY <1>6, TypesUnfolded
      <3>2. head' = [head EXCEPT !.outputs = r] /\ head.outputs \in Seq(S)
        BY <2>3, TypesUnfolded DEF Heads
      <3> HIDE DEF x, S
      <3>3. r \in Seq(S)
        BY <3>1, <3>2
      <3> HIDE DEF r
      <3> QED BY <3>2, <3>3, <2>3, TypesUnfolded DEF Heads, S
    <2> QED BY <2>1, <2>2, <2>3 DEF CompleteStage
  <1> QED BY <1>1, <1>4, <1>5, <1>7, TypesUnfolded, TypesFolded DEF stageVars

LEMMA LeaveTypes ==
  ASSUME ReplayTypes, Leave
  PROVE  ReplayTypes'
  <1>1. UNCHANGED <<mode, visit, stageVars, output, tape, head, missed>> /\ pc = "after"
    BY DEF Leave
  <1> DEFINE to == Goto[stage][output.value]
  <1>2. to \in Stages \union {"none"}
    <2>1. output.value \in {"x", "y", Hidden}
      BY <1>1, TypesUnfolded, PointUnfolded DEF PointTyped, Outputs, Values
    <2> QED BY <2>1, TypesUnfolded, WorkflowAssumption
  <1>3. {} \in SUBSET Flaws /\ << >> \in Seq(Milestones)
    OBVIOUS
  <1>4. CASE /\ Emits(<< <<"run_completed">> >>, {}) /\ pc' = "ended" /\ UNCHANGED stage
             /\ outcome' = [outcome EXCEPT ![mode] = "complete"]
    <2>1. << <<"run_completed">> >> \in Seq(Milestones)
      BY DEF Milestones
    <2>2. outcome' \in Outcomes
      BY <1>4, TypesUnfolded DEF RecordsTyped, Outcomes
    <2>3. RecordsTyped'
      BY <2>1, <2>2, <1>3, <1>4, EmitTyped DEF RecordsTyped
    <2>4. PointTyped'
      BY <1>4 DEF PointTyped, Points
    <2> QED BY <2>3, <2>4, <1>1, <1>4, TypesUnfolded, TypesFolded DEF stageVars
  <1>5. CASE Fail(<< >>, {}) /\ UNCHANGED stage
    <2>1. RecordsTyped' /\ pc' = "ended"
      BY <1>3, <1>5, FailTyped
    <2>2. PointTyped'
      BY <2>1 DEF PointTyped, Points
    <2> QED BY <2>1, <2>2, <1>1, <1>5, TypesUnfolded, TypesFolded DEF stageVars
  <1>6. CASE /\ to # "none" /\ Emits(<<Key("transition_selected", to)>>, {})
             /\ stage' = to /\ pc' = "loop" /\ UNCHANGED outcome
    <2>1. to \in Stages
      BY <1>2, <1>6
    <2>2. Key("transition_selected", to) \in Milestones
      BY <2>1, TypesUnfolded, KeysTyped DEF Kinds, Details
    <2>3. <<Key("transition_selected", to)>> \in Seq(Milestones)
      BY <2>2, OneTyped
    <2>4. RecordsTyped'
      BY <2>3, <1>3, <1>6, EmitTyped, TypesUnfolded DEF RecordsTyped
    <2>5. PointTyped'
      BY <1>6 DEF PointTyped, Points
    <2> QED BY <2>1, <2>4, <2>5, <1>1, <1>6, TypesUnfolded, TypesFolded DEF stageVars
  <1> QED BY <1>4, <1>5, <1>6 DEF Leave

LEMMA UnlockTypes ==
  ASSUME ReplayTypes, Unlock
  PROVE  ReplayTypes'
  <1>1. /\ mode' = "replay" /\ pc' = "loop" /\ stage' = Entry /\ visit' = 0 /\ retries' = 0
        /\ rounds' = 0 /\ answer' = NoAnswer /\ output' = NoOutput
        /\ replayed' = << <<"run_started">> >>
        /\ UNCHANGED <<tape, head, ledger, outcome, missed, flaws>>
    BY DEF Unlock
  <1>2. replayed' \in Seq(Milestones)
    BY <1>1 DEF Milestones
  <1>3. RecordsTyped'
    BY <1>1, <1>2, TypesUnfolded DEF RecordsTyped
  <1>4. PointTyped'
    BY <1>1 DEF PointTyped, Points
  <1>5. output' \in Outputs
    BY <1>1 DEF NoOutput, Outputs, Values
  <1>6. answer' \in Answers /\ stage' \in Stages
    BY <1>1, CallsAreAnswers, WorkflowAssumption
  <1>7. visit' \in 0 .. MaxSteps /\ retries' \in 0 .. MaxRetries /\ rounds' \in 0 .. MaxRounds
    BY <1>1, Bounds
  <1> QED BY <1>1, <1>3, <1>4, <1>5, <1>6, <1>7, TypesUnfolded, TypesFolded

LEMMA TypesKept ==
  ASSUME ReplayTypes, [ReplayNext]_replayVars
  PROVE  ReplayTypes'
  <1>1. CASE UNCHANGED replayVars
    BY <1>1 DEF ReplayTypes, ReplayTypeOK, replayVars
  <1>2. CASE ReplayStep
    BY <1>2, EnterTypes, RaisesTypes, AnswersTypes, ServeTypes, MissTypes, DispatchTypes,
       PolicyTypes, CallTypes, FixtureTypes, InvalidTypes, CompleteTypes, LeaveTypes, UnlockTypes
       DEF ReplayStep
  <1> QED BY <1>1, <1>2 DEF ReplayNext

\* A recorded run and its replay stay within their types and their budgets of
\* visits, retries and rounds (replay_trace runs with the options of the run).
THEOREM ReplayTypeCorrect == ReplaySpec => []ReplayTypeOK
  <1>1. ReplayInit => ReplayTypes
    BY InitTypes
  <1>2. ReplayTypes /\ [ReplayNext]_replayVars => ReplayTypes'
    BY TypesKept
  <1>3. ReplayTypes => ReplayTypeOK
    BY DEF ReplayTypes
  <1> QED BY <1>1, <1>2, <1>3, PTL DEF ReplaySpec

-----------------------------------------------------------------------------
(* Counting milestones.                                                    *)

\* How many of the first n milestones are in S, and how many of all.
Up(S, s, n) == Cardinality({i \in 1 .. n : s[i] \in S})
Among(S, s) == Up(S, s, Len(s))

Entered == {"stage_started"} \X Stages \X {""}
Left == {"transition_selected"} \X Stages \X Stages
Begun == {"tool_call_started"} \X Stages \X Tools
Ended == {"tool_call_completed", "tool_call_failed"} \X Stages \X Tools
Told(s) == {<<"model_completed", s, "">>}

Counts == {Entered, Left, Begun, Ended} \union {Told(s) : s \in Stages}

\* After these milestones a stage asks its model, and the model's answer is
\* the next one, unless the run fails.
Asking ==
  {k \in {"stage_started", "model_retry"} \X Stages \X {""} : Executes[k[2]] = "model"} \union
  {k \in {"tool_call_completed"} \X Stages \X Tools : Executes[k[2]] = "model"}
Reply == (UNION {Told(s) : s \in Stages}) \union {<<"run_failed">>}

LEMMA UpTyped ==
  ASSUME NEW S, NEW s, NEW n \in Nat
  PROVE  /\ Up(S, s, n) \in Nat /\ Up(S, s, n) <= n
         /\ IsFiniteSet({i \in 1 .. n : s[i] \in S})
  <1>1. IsFiniteSet(1 .. n) /\ Cardinality(1 .. n) = n
    BY FS_Interval
  <1>2. {i \in 1 .. n : s[i] \in S} \subseteq 1 .. n
    OBVIOUS
  <1>3. /\ IsFiniteSet({i \in 1 .. n : s[i] \in S})
        /\ Cardinality({i \in 1 .. n : s[i] \in S}) <= Cardinality(1 .. n)
    BY <1>1, <1>2, FS_Subset
  <1>4. Cardinality({i \in 1 .. n : s[i] \in S}) \in Nat
    BY <1>3, FS_CardinalityType
  <1> QED BY <1>1, <1>3, <1>4 DEF Up

LEMMA UpZero ==
  ASSUME NEW S, NEW s
  PROVE  Up(S, s, 0) = 0
  <1>1. {i \in 1 .. 0 : s[i] \in S} = {}
    OBVIOUS
  <1> QED BY <1>1, FS_EmptySet DEF Up

\* The count of equal milestones is equal.
LEMMA UpSame ==
  ASSUME NEW S, NEW s, NEW t, NEW n \in Nat, \A i \in 1 .. n : s[i] = t[i]
  PROVE  Up(S, s, n) = Up(S, t, n)
  <1>1. {i \in 1 .. n : s[i] \in S} = {i \in 1 .. n : t[i] \in S}
    OBVIOUS
  <1> QED BY <1>1 DEF Up

LEMMA UpNext ==
  ASSUME NEW S, NEW s, NEW n \in Nat
  PROVE  Up(S, s, n + 1) = Up(S, s, n) + (IF s[n + 1] \in S THEN 1 ELSE 0)
  <1> DEFINE few == {i \in 1 .. n : s[i] \in S}
             all == {i \in 1 .. n + 1 : s[i] \in S}
  <1>1. IsFiniteSet(few) /\ Cardinality(few) \in Nat
    BY UpTyped DEF Up
  <1>2. CASE s[n + 1] \in S
    <2>1. all = few \union {n + 1} /\ n + 1 \notin few
      BY <1>2
    <2>2. Cardinality(all) = Cardinality(few) + 1
      <3> HIDE DEF few, all
      <3> QED BY <1>1, <2>1, FS_AddElement
    <2> QED BY <2>2, <1>2 DEF Up
  <1>3. CASE s[n + 1] \notin S
    <2>1. all = few
      BY <1>3
    <2>2. Up(S, s, n + 1) = Up(S, s, n) /\ Up(S, s, n) \in Nat
      BY <2>1, <1>1 DEF Up
    <2> QED BY <2>2, <1>3
  <1> QED BY <1>2, <1>3

\* Milestones outside S do not count.
LEMMA UpSkips ==
  ASSUME NEW S, NEW s, NEW n \in Nat, NEW m \in Nat, n <= m,
         \A i \in n + 1 .. m : s[i] \notin S
  PROVE  Up(S, s, m) = Up(S, s, n)
  <1>1. {i \in 1 .. m : s[i] \in S} = {i \in 1 .. n : s[i] \in S}
    OBVIOUS
  <1> QED BY <1>1 DEF Up

\* t goes on where s ends.
Extends(s, t) == Len(s) <= Len(t) /\ \A i \in 1 .. Len(s) : t[i] = s[i]

LEMMA ExtendsCounts ==
  ASSUME NEW s \in Seq(Milestones), NEW t \in Seq(Milestones), Extends(s, t)
  PROVE  \A S : \A n \in 0 .. Len(s) : Up(S, t, n) = Up(S, s, n)
  <1> SUFFICES ASSUME NEW S, NEW n \in 0 .. Len(s)
               PROVE  Up(S, t, n) = Up(S, s, n)
    OBVIOUS
  <1>1. n \in Nat /\ \A i \in 1 .. n : t[i] = s[i]
    BY DEF Extends
  <1> QED BY <1>1, UpSame

LEMMA AppendCounts ==
  ASSUME NEW s \in Seq(Milestones), NEW a \in Milestones
  PROVE  /\ Append(s, a) \in Seq(Milestones) /\ Len(Append(s, a)) = Len(s) + 1
         /\ Append(s, a)[Len(s) + 1] = a
         /\ Extends(s, Append(s, a))
         /\ \A S : Among(S, Append(s, a)) = Among(S, s) + (IF a \in S THEN 1 ELSE 0)
  <1> DEFINE t == Append(s, a)
  <1>1. t \in Seq(Milestones) /\ Len(t) = Len(s) + 1 /\ t[Len(s) + 1] = a
    OBVIOUS
  <1>2. Extends(s, t)
    BY DEF Extends
  <1> HIDE DEF t
  <1>3. ASSUME NEW S
        PROVE  Among(S, t) = Among(S, s) + (IF a \in S THEN 1 ELSE 0)
    <2>1. Len(s) \in Nat
      OBVIOUS
    <2>2. Up(S, t, Len(s) + 1) = Up(S, t, Len(s)) + (IF t[Len(s) + 1] \in S THEN 1 ELSE 0)
      BY <2>1, UpNext
    <2>3. Up(S, t, Len(s)) = Up(S, s, Len(s))
      BY <2>1, <1>1, <1>2, ExtendsCounts
    <2> QED BY <2>2, <2>3, <1>1 DEF Among
  <1> QED BY <1>1, <1>2, <1>3 DEF t

LEMMA ExtendsTrans ==
  ASSUME NEW s \in Seq(Milestones), NEW t \in Seq(Milestones), NEW u \in Seq(Milestones),
         Extends(s, t), Extends(t, u)
  PROVE  Extends(s, u)
  BY DEF Extends

\* Milestones no count asks for.
Quiet == {k \in Milestones : \A S \in Counts : k \notin S}
Quietly(s, t) == Extends(s, t) /\ \A S \in Counts : Among(S, t) = Among(S, s)

\* What is counted, by its kind.
LEMMA CountedKinds ==
  /\ \A k \in Entered : k[1] = "stage_started"
  /\ \A k \in Left : k[1] = "transition_selected"
  /\ \A k \in Begun : k[1] = "tool_call_started"
  /\ \A k \in Ended : k[1] \in {"tool_call_completed", "tool_call_failed"}
  /\ \A s \in Stages : \A k \in Told(s) : k[1] = "model_completed" /\ k[2] = s
  <1>1. \A k \in Entered : k[1] = "stage_started"
    BY DEF Entered
  <1>2. \A k \in Left : k[1] = "transition_selected"
    BY DEF Left
  <1>3. \A k \in Begun : k[1] = "tool_call_started"
    BY DEF Begun
  <1>4. \A k \in Ended : k[1] \in {"tool_call_completed", "tool_call_failed"}
    BY DEF Ended
  <1>5. \A s \in Stages : \A k \in Told(s) : k[1] = "model_completed" /\ k[2] = s
    <2> DEFINE none == ""
    <2>1. \A s : Told(s) = {<<"model_completed", s, none>>}
      BY DEF Told
    <2> HIDE DEF none
    <2> QED BY <2>1
  <1> QED BY <1>1, <1>2, <1>3, <1>4, <1>5

LEMMA QuietKinds ==
  ASSUME NEW k \in Milestones,
         k[1] \notin {"stage_started", "transition_selected", "tool_call_started",
                      "tool_call_completed", "tool_call_failed", "model_completed"}
  PROVE  k \in Quiet
  <1> SUFFICES ASSUME NEW S \in Counts, k \in S
               PROVE  FALSE
    BY DEF Quiet
  <1>1. S \in {Entered, Left, Begun, Ended} \/ \E s \in Stages : S = Told(s)
    BY DEF Counts
  <1> QED BY <1>1, CountedKinds

LEMMA QuietKeys ==
  ASSUME stage \in Stages, NEW d \in Details
  PROVE  /\ Key("model_retry", d) \in Quiet /\ Key("policy_checked", d) \in Quiet
         /\ Key("policy_denied", d) \in Quiet /\ Key("stage_completed", d) \in Quiet
         /\ <<"run_failed">> \in Quiet /\ <<"run_completed">> \in Quiet
  <1>1. ASSUME NEW kind \in {"model_retry", "policy_checked", "policy_denied", "stage_completed"}
        PROVE  Key(kind, d) \in Quiet
    <2>1. Key(kind, d) \in Milestones
      BY KeysTyped DEF Kinds
    <2>2. Key(kind, d)[1] = kind
      BY DEF Key
    <2> HIDE DEF Key
    <2> QED BY <2>1, <2>2, QuietKinds
  <1>2. ASSUME NEW kind \in {"run_failed", "run_completed"}
        PROVE  <<kind>> \in Quiet
    <2>1. <<kind>> \in Milestones
      BY DEF Milestones
    <2>2. <<kind>>[1] = kind
      OBVIOUS
    <2> QED BY <2>1, <2>2, QuietKinds
  <1> QED BY <1>1, <1>2

LEMMA QuietJoin ==
  ASSUME NEW s \in Seq(Milestones), NEW q \in Seq(Quiet)
  PROVE  s \o q \in Seq(Milestones) /\ Quietly(s, s \o q)
  <1> DEFINE t == s \o q
  <1>1. q \in Seq(Milestones)
    BY DEF Quiet
  <1>2. t \in Seq(Milestones) /\ Len(t) = Len(s) + Len(q)
    BY <1>1
  <1>3. \A i \in 1 .. Len(s) : t[i] = s[i]
    BY <1>1
  <1>4. \A i \in Len(s) + 1 .. Len(t) : t[i] \in Quiet
    <2> SUFFICES ASSUME NEW i \in Len(s) + 1 .. Len(t)
                 PROVE  t[i] \in Quiet
      OBVIOUS
    <2>1. i - Len(s) \in 1 .. Len(q) /\ t[i] = q[i - Len(s)]
      BY <1>1, <1>2
    <2> QED BY <2>1
  <1> HIDE DEF t
  <1>5. Extends(s, t)
    BY <1>2, <1>3 DEF Extends
  <1>6. ASSUME NEW S \in Counts
        PROVE  Among(S, t) = Among(S, s)
    <2>1. \A i \in Len(s) + 1 .. Len(t) : t[i] \notin S
      BY <1>4 DEF Quiet
    <2>2. Len(s) \in Nat /\ Len(t) \in Nat /\ Len(s) <= Len(t)
      BY <1>2
    <2>3. Up(S, t, Len(t)) = Up(S, t, Len(s))
      BY <2>1, <2>2, UpSkips
    <2>4. Up(S, t, Len(s)) = Up(S, s, Len(s))
      BY <2>2, <1>2, <1>5, ExtendsCounts
    <2> QED BY <2>3, <2>4 DEF Among
  <1> QED BY <1>2, <1>5, <1>6 DEF t, Quietly

\* Emitting such milestones, in the live run or in the replay.
LEMMA EmitQuiet ==
  ASSUME ReplayTypes, NEW keys \in Seq(Quiet), NEW more, Emits(keys, more)
  PROVE  /\ Live => Quietly(ledger, ledger') /\ replayed' = replayed
         /\ Live => "omitted" \in flaws' \/ (ledger' = ledger \o keys /\ "omitted" \notin flaws)
         /\ Live /\ "omitted" \in flaws => ledger' = ledger \o keys
         /\ ~Live => Quietly(replayed, replayed') /\ ledger' = ledger /\ flaws' = flaws
         /\ ~Live => replayed' = replayed \o keys
         /\ flaws \subseteq flaws'
  <1>1. ledger \in Seq(Milestones) /\ replayed \in Seq(Milestones)
    BY TypesUnfolded DEF RecordsTyped
  <1>2. CASE Live /\ ledger' = ledger \o keys /\ flaws' = flaws \union more /\ UNCHANGED replayed
    BY <1>1, <1>2, QuietJoin
  <1>3. ASSUME Live, "omitted" \notin flaws, UNCHANGED replayed,
               NEW k \in DOMAIN keys, ledger' = ledger \o RemoveAt(keys, k),
               flaws' = flaws \union more \union {"omitted"}
        PROVE  /\ Quietly(ledger, ledger') /\ replayed' = replayed
               /\ "omitted" \in flaws' /\ flaws \subseteq flaws'
    <2>1. RemoveAt(keys, k) \in Seq(Quiet)
      BY RemovalFacts
    <2> QED BY <2>1, <1>1, <1>3, QuietJoin
  <1>4. CASE ~Live /\ replayed' = replayed \o keys /\ UNCHANGED <<ledger, flaws>>
    BY <1>1, <1>4, QuietJoin
  <1> QED BY <1>2, <1>3, <1>4 DEF Emits

-----------------------------------------------------------------------------
(* What a step emits.                                                      *)

LEMMA Replies ==
  /\ \A k : k \in Reply <=> k = <<"run_failed">> \/ \E s \in Stages : k \in Told(s)
  /\ <<"run_failed">> \in Reply
  <1> DEFINE us == {Told(s) : s \in Stages}
             f == <<"run_failed">>
  <1>1. Reply = (UNION us) \union {f}
    BY DEF Reply
  <1>2. \A k : k \in UNION us <=> \E s \in Stages : k \in Told(s)
    OBVIOUS
  <1> HIDE DEF us, f
  <1>3. /\ \A k : k \in Reply <=> k = f \/ \E s \in Stages : k \in Told(s)
        /\ f \in Reply
    BY <1>1, <1>2
  <1> QED BY <1>3 DEF f

LEMMA KindsOfTurns ==
  /\ \A k \in Asking : /\ k[1] \in {"stage_started", "model_retry", "tool_call_completed"}
                      /\ Executes[k[2]] = "model"
  /\ \A k \in Reply : k[1] \in {"model_completed", "run_failed"}
  <1>1. \A k \in Asking : /\ k[1] \in {"stage_started", "model_retry", "tool_call_completed"}
                         /\ Executes[k[2]] = "model"
    <2> DEFINE none == {""}
    <2>1. Asking =
            {k \in {"stage_started", "model_retry"} \X Stages \X none : Executes[k[2]] = "model"} \union
            {k \in {"tool_call_completed"} \X Stages \X Tools : Executes[k[2]] = "model"}
      BY DEF Asking
    <2> HIDE DEF none
    <2> QED BY <2>1
  <1>2. \A k \in Reply : k[1] \in {"model_completed", "run_failed"}
    <2> TAKE k \in Reply
    <2>1. k = <<"run_failed">> \/ \E s \in Stages : k \in Told(s)
      BY Replies
    <2> QED BY <2>1, CountedKinds
  <1> QED BY <1>1, <1>2

LEMMA TurnKeys ==
  ASSUME stage \in Stages
  PROVE  /\ Key("stage_started", "") \in Asking <=> IsModel
         /\ Retry \in Asking <=> IsModel
         /\ \A t \in Tools : Key("tool_call_completed", t) \in Asking <=> IsModel
         /\ Key("model_completed", "") \in Told(stage)
         /\ Key("model_completed", "") \in Reply /\ <<"run_failed">> \in Reply
  <1> DEFINE none == ""
             nones == {none}
  <1>1. Asking =
          {k \in {"stage_started", "model_retry"} \X Stages \X nones : Executes[k[2]] = "model"} \union
          {k \in {"tool_call_completed"} \X Stages \X Tools : Executes[k[2]] = "model"}
    BY DEF Asking
  <1>2. Told(stage) = {<<"model_completed", stage, none>>}
    BY DEF Told
  <1>3. nones = {none}
    OBVIOUS
  <1>4. /\ Key("stage_started", "") = <<"stage_started", stage, none>>
        /\ Retry = <<"model_retry", stage, none>>
        /\ Key("model_completed", "") = <<"model_completed", stage, none>>
        /\ \A t \in Tools : Key("tool_call_completed", t) = <<"tool_call_completed", stage, t>>
    BY DEF Key, Retry
  <1> HIDE DEF none, nones
  <1>5. /\ <<"stage_started", stage, none>> \in Asking <=> IsModel
        /\ <<"model_retry", stage, none>> \in Asking <=> IsModel
        /\ \A t \in Tools : <<"tool_call_completed", stage, t>> \in Asking <=> IsModel
    BY <1>1, <1>3 DEF IsModel
  <1>6. <<"model_completed", stage, none>> \in Told(stage)
    BY <1>2
  <1>7. <<"model_completed", stage, none>> \in Reply /\ <<"run_failed">> \in Reply
    BY <1>6, Replies
  <1> QED BY <1>4, <1>5, <1>6, <1>7

\* Only a stage with a model asks it and dispatches its calls.
AsksModel == pc \in {"asking", "dispatch"} => IsModel

\* The milestones of one step: an asking point comes last, and leads to
\* "asking"; what follows an asking point is a reply.
Chain(keys) ==
  /\ keys \in Seq(Milestones) /\ keys # << >>
  /\ \A i \in 1 .. Len(keys) - 1 : keys[i] \notin Asking
  /\ ~Live /\ pc = "asking" => keys[1] \in Reply
  /\ pc' = "asking" <=> keys[Len(keys)] \in Asking
  /\ pc \in {"dispatch", "policy", "tool", "returned"} /\ pc' # "ended" => keys[1] \notin Reply

\* One milestone, or several of which only the last may be an asking point.
LEMMA ChainOne ==
  ASSUME NEW k \in Milestones, ~Live /\ pc = "asking" => k \in Reply,
         pc' = "asking" <=> k \in Asking,
         pc \in {"dispatch", "policy", "tool", "returned"} /\ pc' # "ended" => k \notin Reply
  PROVE  Chain(<<k>>)
  BY DEF Chain

LEMMA ChainMore ==
  ASSUME NEW keys \in Seq(Milestones), keys # << >>, NEW k \in Milestones,
         \A i \in 1 .. Len(keys) : keys[i] \notin Asking, keys[1] \notin Reply, pc # "asking",
         pc' = "asking" <=> k \in Asking
  PROVE  Chain(Append(keys, k))
  <1> DEFINE all == Append(keys, k)
  <1>1. /\ all \in Seq(Milestones) /\ Len(all) = Len(keys) + 1 /\ all[Len(all)] = k
        /\ \A i \in 1 .. Len(keys) : all[i] = keys[i]
    OBVIOUS
  <1>2. Len(keys) \in Nat /\ Len(keys) >= 1
    OBVIOUS
  <1> HIDE DEF all
  <1>3. all # << >> /\ all[1] = keys[1]
    BY <1>1, <1>2
  <1>4. \A i \in 1 .. Len(all) - 1 : all[i] \notin Asking
    BY <1>1, <1>2
  <1>5. Chain(all)
    BY <1>1, <1>3, <1>4 DEF Chain
  <1> QED BY <1>5 DEF all

\* Beginnings that a failing call or policy leaves to a retry or the end.
Preface(keys) ==
  /\ keys \in Seq(Milestones)
  /\ \A i \in 1 .. Len(keys) : keys[i] \notin Asking
  /\ keys # << >> => keys[1] \notin Reply
  /\ keys # << >> => pc # "asking"

LEMMA FailEmits ==
  ASSUME ReplayTypes, NEW keys, Preface(keys), NEW more, Fail(keys, more)
  PROVE  \E late : Emits(Append(keys, <<"run_failed">>), late) /\ Chain(Append(keys, <<"run_failed">>))
  <1> DEFINE k == <<"run_failed">>
  <1>1. k \in Milestones /\ k[1] = "run_failed"
    BY DEF Milestones
  <1>2. k \notin Asking /\ k \in Reply /\ pc' = "ended"
    <2>1. pc' = "ended"
      BY DEF Fail
    <2>2. k \in Reply
      BY Replies
    <2> HIDE DEF k
    <2> QED BY <2>1, <2>2, <1>1, KindsOfTurns
  <1>3. \E late : Emits(Append(keys, k), late)
    BY DEF Fail
  <1>4. CASE keys = << >>
    <2>1. Append(keys, k) = <<k>>
      BY <1>4
    <2> HIDE DEF k
    <2>2. Chain(<<k>>)
      BY <1>1, <1>2, ChainOne
    <2> QED BY <2>1, <2>2, <1>3 DEF k
  <1>5. CASE keys # << >>
    <2> HIDE DEF k
    <2>1. Chain(Append(keys, k))
      BY <1>1, <1>2, <1>5, ChainMore DEF Preface
    <2> QED BY <2>1, <1>3 DEF k
  <1> QED BY <1>4, <1>5

LEMMA RetryTyped ==
  ASSUME ReplayTypes
  PROVE  Retry \in Milestones /\ Retry[1] = "model_retry" /\ Retry \notin Reply /\ Retry \in Quiet
  <1>1. Retry \in Milestones /\ Retry \in Quiet
    BY TypesUnfolded, KeysTyped, QuietKeys DEF Retry, Kinds, Details
  <1>2. Retry[1] = "model_retry"
    BY DEF Retry, Key
  <1> QED BY <1>1, <1>2, KindsOfTurns

\* A failing call or policy emits a chain.
LEMMA ToolErrorEmits ==
  ASSUME ReplayTypes, NEW keys, Preface(keys), pc # "asking", NEW more, ToolError(keys, more)
  PROVE  \E k \in {Retry, <<"run_failed">>} : \E late :
           Emits(Append(keys, k), late) /\ Chain(Append(keys, k))
  <1>1. CASE IsModel /\ Emits(Append(keys, Retry), more) /\ pc' = "asking"
    <2>1. Retry \in Asking
      BY <1>1, TypesUnfolded, TurnKeys
    <2>2. CASE keys = << >>
      <3>1. Append(keys, Retry) = <<Retry>>
        BY <2>2
      <3>2. Chain(<<Retry>>)
        BY <1>1, <2>1, RetryTyped, ChainOne
      <3> QED BY <3>1, <3>2, <1>1
    <2>3. CASE keys # << >>
      <3>1. Chain(Append(keys, Retry))
        BY <1>1, <2>1, <2>3, RetryTyped, ChainMore DEF Preface
      <3> QED BY <3>1, <1>1
    <2> QED BY <2>2, <2>3
  <1>2. CASE Fail(keys, more)
    BY <1>2, FailEmits
  <1> QED BY <1>1, <1>2 DEF ToolError

\* The step emits these milestones.
Emitted(keys) == (\E more : Emits(keys, more)) /\ Chain(keys)
QuietlyEmitted == \E keys \in Seq(Quiet) : Emitted(keys)

LEMMA NoPreface ==
  Preface(<< >>) /\ << >> \in Seq(Quiet) /\ \A k \in Quiet : Append(<< >>, k) \in Seq(Quiet)
  BY DEF Preface

LEMMA FailedTyped ==
  <<"run_failed">> \in Quiet /\ <<"run_failed">> \in Milestones
  <1> DEFINE k == <<"run_failed">>
  <1>1. k \in Milestones /\ k[1] = "run_failed"
    BY DEF Milestones
  <1>2. k \in Quiet
    BY <1>1, QuietKinds
  <1> QED BY <1>1, <1>2

LEMMA FailsQuietly ==
  ASSUME ReplayTypes, NEW keys \in Seq(Quiet), Preface(keys), NEW more, Fail(keys, more)
  PROVE  QuietlyEmitted
  <1>1. Append(keys, <<"run_failed">>) \in Seq(Quiet)
    BY FailedTyped
  <1> QED BY <1>1, FailEmits DEF QuietlyEmitted, Emitted

LEMMA ErrsQuietly ==
  ASSUME ReplayTypes, NEW keys \in Seq(Quiet), Preface(keys), pc # "asking", NEW more,
         ToolError(keys, more)
  PROVE  QuietlyEmitted
  <1>1. Append(keys, <<"run_failed">>) \in Seq(Quiet) /\ Append(keys, Retry) \in Seq(Quiet)
    BY FailedTyped, RetryTyped
  <1> QED BY <1>1, ToolErrorEmits DEF QuietlyEmitted, Emitted

LEMMA RetriesQuietly ==
  ASSUME ReplayTypes, IsModel, Live \/ pc # "asking", NEW more, RetryOrFail(more)
  PROVE  QuietlyEmitted
  <1>1. CASE Emits(<<Retry>>, more) /\ pc' = "asking"
    <2>1. Retry \in Asking
      BY TypesUnfolded, TurnKeys
    <2>2. Chain(<<Retry>>)
      BY <2>1, <1>1, RetryTyped, ChainOne
    <2>3. <<Retry>> \in Seq(Quiet)
      BY RetryTyped
    <2> QED BY <2>2, <2>3, <1>1 DEF QuietlyEmitted, Emitted
  <1>2. CASE Fail(<< >>, more)
    BY <1>2, NoPreface, FailsQuietly
  <1> QED BY <1>1, <1>2 DEF RetryOrFail

LEMMA OneQuietly ==
  ASSUME NEW k \in Quiet, NEW more, Emits(<<k>>, more), Chain(<<k>>)
  PROVE  QuietlyEmitted
  <1>1. <<k>> \in Seq(Quiet)
    OBVIOUS
  <1> QED BY <1>1 DEF QuietlyEmitted, Emitted

\* The steps that no count sees.
LEMMA QuietRaises ==
  ASSUME ReplayTypes, AsksModel, ModelRaises
  PROVE  QuietlyEmitted
  <1>1. Live /\ IsModel
    BY DEF AsksModel, ModelRaises
  <1> QED BY <1>1, NoPreface, FailsQuietly, RetriesQuietly DEF ModelRaises

LEMMA QuietMiss ==
  ASSUME ReplayTypes, MissResponse \/ RefuseStubs
  PROVE  QuietlyEmitted
  BY NoPreface, FailsQuietly DEF MissResponse, RefuseStubs

LEMMA QuietDispatch ==
  ASSUME ReplayTypes, Dispatch
  PROVE  \/ QuietlyEmitted
         \/ /\ UNCHANGED <<ledger, replayed>> /\ flaws \subseteq flaws'
            /\ pc' \in {"policy", "tool"} /\ ~Refused(answer)
  <1>1. pc = "dispatch"
    BY DEF Dispatch
  <1>2. CASE Fail(<< >>, {})
    BY <1>2, NoPreface, FailsQuietly
  <1>3. CASE ToolError(<< >>, IF Misjudged(answer) THEN {"arguments"} ELSE {})
    <2> DEFINE more == IF Misjudged(answer) THEN {"arguments"} ELSE {}
    <2>1. ToolError(<< >>, more)
      BY <1>3
    <2> HIDE DEF more
    <2> QED BY <2>1, <1>1, NoPreface, ErrsQuietly
  <1>4. CASE /\ ~Refused(answer) /\ pc' = ToolPoint(answer.tool)
             /\ flaws \subseteq flaws' /\ UNCHANGED <<ledger, replayed, outcome>>
    BY <1>4 DEF ToolPoint
  <1> QED BY <1>2, <1>3, <1>4 DEF Dispatch

LEMMA QuietPolicy ==
  ASSUME ReplayTypes, CheckPolicy
  PROVE  QuietlyEmitted
  <1>1. pc = "policy"
    BY DEF CheckPolicy
  <1> DEFINE t == answer.tool
             yes == Key("policy_checked", <<t, TRUE>>)
             no == Key("policy_checked", <<t, FALSE>>)
             wasDenied == Key("policy_denied", t)
  <1>2. t \in Tools
    BY <1>1, PointUnfolded DEF PointTyped
  <1>3. /\ yes \in Quiet /\ no \in Quiet /\ wasDenied \in Quiet
        /\ yes[1] = "policy_checked" /\ no[1] = "policy_checked" /\ wasDenied[1] = "policy_denied"
    <2>1. <<t, TRUE>> \in Details /\ <<t, FALSE>> \in Details /\ t \in Details
      BY <1>2 DEF Details
    <2>2. yes \in Quiet /\ no \in Quiet /\ wasDenied \in Quiet
      BY <2>1, TypesUnfolded, QuietKeys
    <2> QED BY <2>2 DEF Key
  <1>4. \/ Emits(<<no>>, {}) /\ pc' = "tool"
        \/ ToolError(<<yes, wasDenied>>, {})
        \/ Fail(<<yes>>, {"unavailable"})
    BY DEF CheckPolicy
  <1> HIDE DEF t, yes, no, wasDenied
  <1>5. /\ yes \notin Asking /\ no \notin Asking /\ wasDenied \notin Asking
        /\ yes \notin Reply /\ no \notin Reply
    BY <1>3, KindsOfTurns
  <1>6. yes \in Milestones /\ no \in Milestones /\ wasDenied \in Milestones
    BY <1>3 DEF Quiet
  <1>7. CASE Emits(<<no>>, {}) /\ pc' = "tool"
    <2>1. Chain(<<no>>)
      BY <1>1, <1>5, <1>6, <1>7, ChainOne
    <2> QED BY <2>1, <1>3, <1>7, OneQuietly
  <1>8. CASE ToolError(<<yes, wasDenied>>, {})
    <2> DEFINE keys == <<yes, wasDenied>>
    <2>1. keys \in Seq(Quiet) /\ keys \in Seq(Milestones) /\ keys[1] = yes
          /\ \A i \in 1 .. Len(keys) : keys[i] \in {yes, wasDenied}
      BY <1>3, <1>6
    <2>2. ToolError(keys, {})
      BY <1>8
    <2> HIDE DEF keys
    <2>3. Preface(keys)
      BY <2>1, <1>1, <1>5 DEF Preface
    <2> QED BY <2>1, <2>2, <2>3, <1>1, ErrsQuietly
  <1>9. CASE Fail(<<yes>>, {"unavailable"})
    <2> DEFINE keys == <<yes>>
    <2>1. keys \in Seq(Quiet) /\ keys \in Seq(Milestones) /\ keys[1] = yes
          /\ \A i \in 1 .. Len(keys) : keys[i] = yes
      BY <1>3, <1>6
    <2>2. Fail(keys, {"unavailable"})
      BY <1>9
    <2> HIDE DEF keys
    <2>3. Preface(keys)
      BY <2>1, <1>1, <1>5 DEF Preface
    <2> QED BY <2>1, <2>2, <2>3, FailsQuietly
  <1> QED BY <1>4, <1>7, <1>8, <1>9

LEMMA QuietInvalid ==
  ASSUME ReplayTypes, OutputInvalid
  PROVE  QuietlyEmitted
  BY NoPreface, FailsQuietly, RetriesQuietly DEF OutputInvalid

LEMMA QuietComplete ==
  ASSUME ReplayTypes, CompleteStage
  PROVE  QuietlyEmitted
  <1> DEFINE k == Key("stage_completed", "")
  <1>1. /\ pc = "returned" /\ pc' = "after" /\ Emits(<<k>>, {})
    BY DEF CompleteStage
  <1>2. k \in Quiet /\ k[1] = "stage_completed"
    <2>1. k \in Quiet
      BY TypesUnfolded, QuietKeys DEF Details
    <2> QED BY <2>1 DEF Key
  <1> HIDE DEF k
  <1>3. k \in Milestones /\ k \notin Asking /\ k \notin Reply
    BY <1>2, KindsOfTurns DEF Quiet
  <1>4. Chain(<<k>>)
    BY <1>1, <1>3, ChainOne
  <1> QED BY <1>1, <1>2, <1>4, OneQuietly

\* The steps that some count sees.
EnterKey == Key("stage_started", "")
TakeKey == Key("model_completed", "")
StartKey == Key("tool_call_started", answer.tool)
DoneKey == Key("tool_call_completed", answer.tool)
ErrorKey == Key("tool_call_failed", answer.tool)

\* Which milestones a count asks for.
LEMMA CountedKeys ==
  ASSUME stage \in Stages
  PROVE  /\ EnterKey \in Milestones /\ EnterKey \in Entered /\ EnterKey \notin Left
         /\ EnterKey \notin Begun /\ EnterKey \notin Ended
         /\ \A s \in Stages : EnterKey \notin Told(s)
         /\ TakeKey \in Milestones /\ TakeKey \notin Left /\ TakeKey \notin Entered
         /\ TakeKey \notin Begun /\ TakeKey \notin Ended
         /\ \A s \in Stages : TakeKey \in Told(s) <=> s = stage
         /\ \A to \in Stages : LET k == Key("transition_selected", to)
                               IN /\ k \in Milestones /\ k \in Left /\ k \notin Entered
                                  /\ k \notin Begun /\ k \notin Ended
                                  /\ \A s \in Stages : k \notin Told(s)
  <1>1. EnterKey \in Milestones /\ TakeKey \in Milestones
        /\ \A to \in Stages : Key("transition_selected", to) \in Milestones
    BY KeysTyped DEF EnterKey, TakeKey, Kinds, Details
  <1>2. /\ EnterKey[1] = "stage_started" /\ TakeKey[1] = "model_completed" /\ TakeKey[2] = stage
        /\ \A to \in Stages : Key("transition_selected", to)[1] = "transition_selected"
    BY DEF EnterKey, TakeKey, Key
  <1>3. EnterKey \in Entered
    <2> DEFINE none == ""
               nones == {none}
    <2>1. EnterKey = <<"stage_started", stage, none>>
      BY DEF EnterKey, Key
    <2>2. Entered = {"stage_started"} \X Stages \X nones /\ none \in nones
      BY DEF Entered
    <2> HIDE DEF none, nones
    <2> QED BY <2>1, <2>2
  <1>4. TakeKey \in Told(stage)
    BY DEF TakeKey, Key, Told
  <1>5. \A to \in Stages : Key("transition_selected", to) \in Left
    BY DEF Key, Left
  <1> HIDE DEF Key
  <1>6. /\ EnterKey \notin Left /\ EnterKey \notin Begun /\ EnterKey \notin Ended
        /\ \A s \in Stages : EnterKey \notin Told(s)
    BY <1>2, CountedKinds
  <1>7. /\ TakeKey \notin Left /\ TakeKey \notin Begun /\ TakeKey \notin Ended
        /\ TakeKey \notin Entered
        /\ \A s \in Stages : TakeKey \in Told(s) <=> s = stage
    BY <1>2, <1>4, CountedKinds
  <1>8. ASSUME NEW to \in Stages
        PROVE  LET k == Key("transition_selected", to)
               IN /\ k \notin Entered /\ k \notin Begun /\ k \notin Ended
                  /\ \A s \in Stages : k \notin Told(s)
    <2> DEFINE k == Key("transition_selected", to)
    <2>1. k[1] = "transition_selected"
      BY <1>2
    <2> HIDE DEF k
    <2>2. /\ k \notin Entered /\ k \notin Begun /\ k \notin Ended
          /\ \A s \in Stages : k \notin Told(s)
      BY <2>1, CountedKinds
    <2> QED BY <2>2 DEF k
  <1> QED BY <1>1, <1>3, <1>5, <1>6, <1>7, <1>8

LEMMA CallKeys ==
  ASSUME stage \in Stages, answer.tool \in Tools
  PROVE  /\ {StartKey, DoneKey, ErrorKey} \subseteq Milestones
         /\ StartKey \in Begun /\ StartKey \notin Ended
         /\ \A k \in {DoneKey, ErrorKey} : /\ k \in Ended /\ k \notin Begun
                                          /\ k[3] = answer.tool
         /\ \A k \in {StartKey, DoneKey, ErrorKey} :
              k \notin Entered /\ k \notin Left /\ \A s \in Stages : k \notin Told(s)
         /\ StartKey \notin Asking /\ ErrorKey \notin Asking
         /\ DoneKey \in Asking <=> IsModel
         /\ StartKey \notin Reply
  <1>1. /\ StartKey \in Milestones /\ DoneKey \in Milestones /\ ErrorKey \in Milestones
    BY KeysTyped DEF StartKey, DoneKey, ErrorKey, Kinds, Details
  <1>2. /\ StartKey[1] = "tool_call_started" /\ DoneKey[1] = "tool_call_completed"
        /\ ErrorKey[1] = "tool_call_failed"
        /\ DoneKey[3] = answer.tool /\ ErrorKey[3] = answer.tool
    BY DEF StartKey, DoneKey, ErrorKey, Key
  <1>3. StartKey \in Begun /\ DoneKey \in Ended /\ ErrorKey \in Ended
    BY DEF StartKey, DoneKey, ErrorKey, Key, Begun, Ended
  <1>4. DoneKey \in Asking <=> IsModel
    BY TurnKeys DEF DoneKey
  <1>5. StartKey \notin Ended /\ DoneKey \notin Begun /\ ErrorKey \notin Begun
    BY <1>2, CountedKinds
  <1>6. \A k \in {StartKey, DoneKey, ErrorKey} :
          k \notin Entered /\ k \notin Left /\ \A s \in Stages : k \notin Told(s)
    BY <1>2, CountedKinds
  <1>7. StartKey \notin Asking /\ ErrorKey \notin Asking /\ StartKey \notin Reply
    BY <1>2, KindsOfTurns
  <1> QED BY <1>1, <1>2, <1>3, <1>4, <1>5, <1>6, <1>7

LEMMA EnterEmits ==
  ASSUME ReplayTypes, EnterStage
  PROVE  \/ /\ QuietlyEmitted /\ visit = MaxSteps /\ visit' = visit /\ pc' = "ended"
         \/ /\ Emitted(<<EnterKey>>) /\ visit' = visit + 1
            /\ pc' \in {"asking", "policy", "tool"} /\ (pc' = "asking" => IsModel)
  <1>1. CASE visit = MaxSteps /\ Fail(<< >>, {}) /\ UNCHANGED visit
    <2>1. pc' = "ended"
      BY <1>1 DEF Fail
    <2> QED BY <1>1, <2>1, NoPreface, FailsQuietly
  <1>2. CASE /\ Emits(<<Key("stage_started", "")>>, {}) /\ visit' = visit + 1
             /\ \/ IsModel /\ pc' = "asking"
                \/ ~IsModel /\ pc' = ToolPoint(Executes[stage])
    <2>1. pc' \in {"asking", "policy", "tool"} /\ (pc' = "asking" <=> IsModel) /\ pc = "loop"
      BY <1>2 DEF ToolPoint, EnterStage
    <2>2. EnterKey \in Milestones /\ (EnterKey \in Asking <=> IsModel)
      BY TypesUnfolded, CountedKeys, TurnKeys DEF EnterKey
    <2>3. Chain(<<EnterKey>>)
      BY <2>1, <2>2, ChainOne
    <2>4. Emits(<<EnterKey>>, {})
      BY <1>2 DEF EnterKey
    <2> QED BY <1>2, <2>1, <2>3, <2>4 DEF Emitted
  <1>3. \/ visit = MaxSteps /\ Fail(<< >>, {}) /\ UNCHANGED visit
        \/ /\ Emits(<<Key("stage_started", "")>>, {}) /\ visit' = visit + 1
           /\ \/ IsModel /\ pc' = "asking"
              \/ ~IsModel /\ pc' = ToolPoint(Executes[stage])
    BY DEF EnterStage
  <1> QED BY <1>1, <1>2, <1>3

LEMMA TakeEmits ==
  ASSUME ReplayTypes, pc = "asking", NEW a, NEW more, Take(a, more)
  PROVE  Emitted(<<TakeKey>>) /\ pc' \in {"dispatch", "returned"}
  <1>1. Emits(<<TakeKey>>, more) /\ pc' \in {"dispatch", "returned"}
    BY DEF Take, TakeKey
  <1>2. /\ TakeKey \in Milestones /\ TakeKey \in Reply /\ TakeKey[1] = "model_completed"
    BY TypesUnfolded, CountedKeys, TurnKeys DEF TakeKey, Key
  <1>3. Chain(<<TakeKey>>)
    BY <1>1, <1>2, KindsOfTurns, ChainOne
  <1> QED BY <1>1, <1>3 DEF Emitted

LEMMA LeaveEmits ==
  ASSUME ReplayTypes, Leave
  PROVE  \/ QuietlyEmitted /\ pc' = "ended"
         \/ \E to \in Stages : /\ Emitted(<<Key("transition_selected", to)>>)
                             /\ pc' = "loop" /\ stage' = to
  <1> DEFINE to == Goto[stage][output.value]
  <1>0. pc = "after"
    BY DEF Leave
  <1>1. CASE Emits(<< <<"run_completed">> >>, {}) /\ pc' = "ended"
    <2> DEFINE k == <<"run_completed">>
    <2>1. k \in Quiet /\ k[1] = "run_completed"
      BY TypesUnfolded, QuietKeys DEF Details
    <2>2. Emits(<<k>>, {})
      BY <1>1
    <2> HIDE DEF k
    <2>3. k \in Milestones /\ k \notin Asking
      BY <2>1, KindsOfTurns DEF Quiet
    <2>4. Chain(<<k>>)
      BY <1>0, <1>1, <2>3, ChainOne
    <2> QED BY <1>1, <2>1, <2>2, <2>4, OneQuietly
  <1>2. CASE Fail(<< >>, {})
    <2>1. pc' = "ended"
      BY <1>2 DEF Fail
    <2> QED BY <1>2, <2>1, NoPreface, FailsQuietly
  <1>3. CASE /\ to # "none" /\ Emits(<<Key("transition_selected", to)>>, {})
             /\ stage' = to /\ pc' = "loop"
    <2>1. to \in Stages
      <3>1. output.value \in {"x", "y", Hidden}
        BY <1>0, TypesUnfolded, PointUnfolded DEF PointTyped, Outputs, Values
      <3>2. to \in Stages \union {"none"}
        BY <3>1, TypesUnfolded, WorkflowAssumption
      <3> QED BY <3>2, <1>3
    <2> DEFINE k == Key("transition_selected", to)
    <2>2. k \in Milestones /\ k[1] = "transition_selected"
      <3>1. k \in Milestones
        BY <2>1, TypesUnfolded, CountedKeys
      <3> QED BY <3>1 DEF Key
    <2>3. Emits(<<k>>, {})
      BY <1>3
    <2> HIDE DEF k, to
    <2>4. Chain(<<k>>)
      BY <1>0, <1>3, <2>2, KindsOfTurns, ChainOne
    <2>5. Emitted(<<k>>)
      BY <2>3, <2>4 DEF Emitted
    <2> QED BY <1>3, <2>1, <2>5 DEF k
  <1> QED BY <1>1, <1>2, <1>3 DEF Leave

\* The end of a call, and what may come after it.
LEMMA EndsEmit ==
  ASSUME ReplayTypes, pc = "tool", NEW result, NEW masked, NEW more,
         ToolEnds(result, masked, more)
  PROVE  \/ Emitted(<<StartKey, DoneKey>>)
         \/ \E k \in Quiet : Emitted(<<StartKey, ErrorKey, k>>)
  <1>0. stage \in Stages /\ answer.tool \in Tools
    BY TypesUnfolded, PointUnfolded DEF PointTyped
  <1> DEFINE fails == <<StartKey, ErrorKey>>
  <1>1. /\ fails \in Seq(Milestones) /\ fails # << >> /\ fails[1] = StartKey
        /\ \A i \in 1 .. Len(fails) : fails[i] \in {StartKey, ErrorKey}
    BY <1>0, CallKeys
  <1>2. \A k \in Milestones : Append(fails, k) = <<StartKey, ErrorKey, k>>
    BY <1>0, CallKeys, AppendPair
  <1>3. /\ <<Key("tool_call_started", answer.tool), Key("tool_call_failed", answer.tool)>> = fails
        /\ <<Key("tool_call_started", answer.tool), Key("tool_call_completed", answer.tool)>>
             = <<StartKey, DoneKey>>
    BY DEF StartKey, ErrorKey, DoneKey
  <1> HIDE DEF fails
  <1>4. Preface(fails)
    BY <1>0, <1>1, CallKeys DEF Preface
  <1>5. Retry \in Quiet /\ <<"run_failed">> \in Quiet
    BY RetryTyped, FailedTyped
  <1>6. Quiet \subseteq Milestones
    BY DEF Quiet
  <1>7. CASE ToolError(fails, more)
    <2>1. PICK k \in {Retry, <<"run_failed">>} :
            \E late : Emits(Append(fails, k), late) /\ Chain(Append(fails, k))
      BY <1>4, <1>7, ToolErrorEmits
    <2>2. k \in Quiet /\ Append(fails, k) = <<StartKey, ErrorKey, k>>
      BY <1>2, <1>5, <1>6
    <2> QED BY <2>1, <2>2 DEF Emitted
  <1>8. CASE Fail(fails, more)
    <2> DEFINE k == <<"run_failed">>
    <2>1. PICK late : Emits(Append(fails, k), late) /\ Chain(Append(fails, k))
      BY <1>4, <1>8, FailEmits
    <2>2. k \in Quiet
      BY <1>5
    <2> HIDE DEF k
    <2>3. Append(fails, k) = <<StartKey, ErrorKey, k>>
      BY <1>2, <1>6, <2>2
    <2> QED BY <2>1, <2>2, <2>3 DEF Emitted
  <1>9. CASE Emits(<<StartKey, DoneKey>>, more) /\ pc' = (IF IsModel THEN "asking" ELSE "returned")
    <2> DEFINE ok == <<StartKey>>
    <2>0. ok \in Seq(Milestones) /\ ok # << >> /\ ok[1] = StartKey
          /\ \A i \in 1 .. Len(ok) : ok[i] = StartKey
      BY <1>0, CallKeys
    <2>1. ok \in Seq(Milestones) /\ ok # << >> /\ ok[1] = StartKey
          /\ (\A i \in 1 .. Len(ok) : ok[i] = StartKey) /\ Append(ok, DoneKey) = <<StartKey, DoneKey>>
      BY <2>0, <1>0, CallKeys, AppendPair
    <2> HIDE DEF ok
    <2>2. Chain(Append(ok, DoneKey))
      BY <2>1, <1>0, <1>9, CallKeys, ChainMore
    <2> QED BY <2>1, <2>2, <1>9 DEF Emitted
  <1> QED BY <1>3, <1>7, <1>8, <1>9 DEF ToolEnds

-----------------------------------------------------------------------------
(* The milestones of a call.                                               *)

\* t is old and then, so far, db beginnings and de ends of one call of tool.
Grown(old, t, tool, db, de) ==
  /\ t \in Seq(Milestones) /\ Extends(old, t)
  /\ Among(Begun, t) = Among(Begun, old) + db
  /\ Among(Ended, t) = Among(Ended, old) + de
  /\ Among(Entered, t) = Among(Entered, old)
  /\ Among(Left, t) = Among(Left, old)
  /\ \A s \in Stages : Among(Told(s), t) = Among(Told(s), old)
  /\ \A i \in Len(old) + 1 .. Len(t) : t[i] \in Ended =>
       /\ t[i][3] = tool
       /\ Up(Ended, t, i) = Among(Ended, old) + 1
       /\ Up(Entered, t, i) = Among(Entered, old)

LEMMA AmongTyped ==
  ASSUME NEW s \in Seq(Milestones), NEW S
  PROVE  Among(S, s) \in Nat
  <1>1. Len(s) \in Nat
    OBVIOUS
  <1> QED BY <1>1, UpTyped DEF Among

LEMMA GrownFromNothing ==
  ASSUME NEW old \in Seq(Milestones), NEW tool
  PROVE  Grown(old, old, tool, 0, 0)
  <1>1. Extends(old, old)
    BY DEF Extends
  <1>2. \A S : Among(S, old) = Among(S, old) + 0
    BY AmongTyped
  <1> QED BY <1>1, <1>2 DEF Grown

\* One more milestone that is counted as db and de say.
LEMMA Grows ==
  ASSUME NEW old \in Seq(Milestones), NEW t, NEW tool, NEW db \in Nat, NEW de \in Nat,
         Grown(old, t, tool, db, de), NEW k \in Milestones, NEW eb \in {0, 1}, NEW ee \in {0, 1},
         k \in Begun <=> eb = 1, k \in Ended <=> ee = 1,
         k \notin Entered, k \notin Left, \A s \in Stages : k \notin Told(s),
         ee = 1 => de = 0 /\ k[3] = tool
  PROVE  Grown(old, Append(t, k), tool, db + eb, de + ee)
  <1> DEFINE u == Append(t, k)
  <1>1. t \in Seq(Milestones) /\ Extends(old, t)
    BY DEF Grown
  <1>2. /\ u \in Seq(Milestones) /\ Len(u) = Len(t) + 1 /\ u[Len(t) + 1] = k /\ Extends(t, u)
        /\ \A S : Among(S, u) = Among(S, t) + (IF k \in S THEN 1 ELSE 0)
    BY <1>1, AppendCounts
  <1> HIDE DEF u
  <1>3. Extends(old, u)
    BY <1>1, <1>2, ExtendsTrans
  <1>4. \A S : Among(S, old) \in Nat /\ Among(S, t) \in Nat /\ Among(S, u) \in Nat
    BY <1>1, <1>2, AmongTyped
  <1>5. /\ Among(Begun, u) = Among(Begun, old) + (db + eb)
        /\ Among(Ended, u) = Among(Ended, old) + (de + ee)
    <2>1. Among(Begun, t) = Among(Begun, old) + db /\ Among(Ended, t) = Among(Ended, old) + de
      BY DEF Grown
    <2>2. Among(Begun, u) = Among(Begun, t) + eb /\ Among(Ended, u) = Among(Ended, t) + ee
      BY <1>2
    <2> QED BY <2>1, <2>2, <1>4
  <1>6. /\ Among(Entered, u) = Among(Entered, old) /\ Among(Left, u) = Among(Left, old)
        /\ \A s \in Stages : Among(Told(s), u) = Among(Told(s), old)
    <2>1. /\ Among(Entered, t) = Among(Entered, old) /\ Among(Left, t) = Among(Left, old)
          /\ \A s \in Stages : Among(Told(s), t) = Among(Told(s), old)
      BY DEF Grown
    <2>2. \A S : k \notin S => Among(S, u) = Among(S, t)
      BY <1>2, <1>4
    <2> QED BY <2>1, <2>2
  <1>7. ASSUME NEW i \in Len(old) + 1 .. Len(u), u[i] \in Ended
        PROVE  /\ u[i][3] = tool
               /\ Up(Ended, u, i) = Among(Ended, old) + 1
               /\ Up(Entered, u, i) = Among(Entered, old)
    <2>1. CASE i <= Len(t)
      <3>1. i \in Len(old) + 1 .. Len(t) /\ i \in 1 .. Len(t) /\ i \in 0 .. Len(t)
        BY <2>1, <1>1
      <3>2. u[i] = t[i]
        BY <3>1, <1>2 DEF Extends
      <3>3. Up(Ended, u, i) = Up(Ended, t, i) /\ Up(Entered, u, i) = Up(Entered, t, i)
        BY <3>1, <1>1, <1>2, ExtendsCounts
      <3> QED BY <3>1, <3>2, <3>3, <1>7 DEF Grown
    <2>2. CASE i > Len(t)
      <3>1. i = Len(t) + 1 /\ i = Len(u)
        BY <2>2, <1>1, <1>2
      <3>2. k \in Ended
        BY <3>1, <1>2, <1>7
      <3>3. ee = 1 /\ de = 0
        BY <3>2
      <3>4. Up(Ended, u, i) = Among(Ended, old) + (de + ee)
        BY <3>1, <1>5 DEF Among
      <3>5. Up(Entered, u, i) = Among(Entered, old)
        BY <3>1, <1>6 DEF Among
      <3> QED BY <3>1, <3>3, <3>4, <3>5, <1>2
    <2> QED BY <2>1, <2>2, <1>1
  <1>8. Grown(old, u, tool, db + eb, de + ee)
    BY <1>2, <1>3, <1>5, <1>6, <1>7 DEF Grown
  <1> QED BY <1>8 DEF u

\* An end that is counted is to be found.
LEMMA GrownEnds ==
  ASSUME NEW old \in Seq(Milestones), NEW t, NEW tool, NEW db \in Nat, Grown(old, t, tool, db, 1)
  PROVE  \E i \in Len(old) + 1 .. Len(t) : t[i] \in Ended
  <1> SUFFICES ASSUME \A i \in Len(old) + 1 .. Len(t) : t[i] \notin Ended
               PROVE  FALSE
    OBVIOUS
  <1>1. t \in Seq(Milestones) /\ Extends(old, t) /\ Among(Ended, t) = Among(Ended, old) + 1
    BY DEF Grown
  <1>2. Len(old) \in Nat /\ Len(t) \in Nat /\ Len(old) <= Len(t)
    BY <1>1 DEF Extends
  <1>3. Up(Ended, t, Len(t)) = Up(Ended, t, Len(old))
    BY <1>2, UpSkips
  <1>4. Up(Ended, t, Len(old)) = Up(Ended, old, Len(old))
    BY <1>1, <1>2, ExtendsCounts
  <1>5. Among(Ended, old) \in Nat
    BY AmongTyped
  <1> QED BY <1>1, <1>3, <1>4, <1>5 DEF Among

\* The four ways a call can be told, and what is left of them.
LEMMA GrowsByCall ==
  ASSUME stage \in Stages, answer.tool \in Tools, NEW old \in Seq(Milestones),
         NEW k \in Quiet, NEW e \in {DoneKey, ErrorKey}
  PROVE  LET g(t, db, de) == Grown(old, t, answer.tool, db, de)
         IN /\ g(Append(old, StartKey), 1, 0) /\ g(Append(old, e), 0, 1)
            /\ g(Append(Append(old, StartKey), e), 1, 1)
            /\ g(Append(Append(Append(old, StartKey), e), k), 1, 1)
            /\ g(Append(Append(old, StartKey), k), 1, 0)
            /\ g(Append(Append(old, e), k), 0, 1)
  <1> DEFINE With(t, x) == Append(t, x)
  <1>1. /\ StartKey \in Milestones /\ e \in Milestones /\ k \in Milestones
        /\ StartKey \in Begun /\ StartKey \notin Ended /\ e \in Ended /\ e \notin Begun
        /\ k \notin Begun /\ k \notin Ended /\ e[3] = answer.tool
        /\ \A x \in {StartKey, e, k} :
             x \notin Entered /\ x \notin Left /\ \A s \in Stages : x \notin Told(s)
    BY CallKeys DEF Quiet, Counts
  <1>2. Grown(old, old, answer.tool, 0, 0)
    BY GrownFromNothing
  <1>3. \A t : \A db, de \in Nat :
          /\ Grown(old, t, answer.tool, db, de) => Grown(old, With(t, StartKey), answer.tool, db + 1, de + 0)
          /\ Grown(old, t, answer.tool, db, de) => Grown(old, With(t, k), answer.tool, db + 0, de + 0)
          /\ Grown(old, t, answer.tool, db, de) /\ de = 0 => Grown(old, With(t, e), answer.tool, db + 0, de + 1)
    <2> TAKE t
    <2> TAKE db, de \in Nat
    <2>1. ASSUME Grown(old, t, answer.tool, db, de) PROVE Grown(old, With(t, StartKey), answer.tool, db + 1, de + 0)
      <3>1. Grown(old, t, answer.tool, db, de)
        BY <2>1
      <3>2. (StartKey \in Begun <=> 1 = 1) /\ (StartKey \in Ended <=> 0 = 1)
            /\ (0 = 1 => de = 0 /\ StartKey[3] = answer.tool)
        BY <1>1, <2>1
      <3>3. \A eb, ee \in {0, 1} :
              /\ (StartKey \in Begun <=> eb = 1) /\ (StartKey \in Ended <=> ee = 1)
              /\ (ee = 1 => de = 0 /\ StartKey[3] = answer.tool)
              => Grown(old, Append(t, StartKey), answer.tool, db + eb, de + ee)
        BY <1>1, <3>1, Grows
      <3> QED BY <3>2, <3>3
    <2>2. ASSUME Grown(old, t, answer.tool, db, de) PROVE Grown(old, With(t, k), answer.tool, db + 0, de + 0)
      <3>1. Grown(old, t, answer.tool, db, de)
        BY <2>2
      <3>2. (k \in Begun <=> 0 = 1) /\ (k \in Ended <=> 0 = 1)
            /\ (0 = 1 => de = 0 /\ k[3] = answer.tool)
        BY <1>1, <2>2
      <3>3. \A eb, ee \in {0, 1} :
              /\ (k \in Begun <=> eb = 1) /\ (k \in Ended <=> ee = 1)
              /\ (ee = 1 => de = 0 /\ k[3] = answer.tool)
              => Grown(old, Append(t, k), answer.tool, db + eb, de + ee)
        BY <1>1, <3>1, Grows
      <3> QED BY <3>2, <3>3
    <2>3. ASSUME Grown(old, t, answer.tool, db, de), de = 0 PROVE Grown(old, With(t, e), answer.tool, db + 0, de + 1)
      <3>1. Grown(old, t, answer.tool, db, de)
        BY <2>3
      <3>2. (e \in Begun <=> 0 = 1) /\ (e \in Ended <=> 1 = 1)
            /\ (1 = 1 => de = 0 /\ e[3] = answer.tool)
        BY <1>1, <2>3
      <3>3. \A eb, ee \in {0, 1} :
              /\ (e \in Begun <=> eb = 1) /\ (e \in Ended <=> ee = 1)
              /\ (ee = 1 => de = 0 /\ e[3] = answer.tool)
              => Grown(old, Append(t, e), answer.tool, db + eb, de + ee)
        BY <1>1, <3>1, Grows
      <3> QED BY <3>2, <3>3
    <2> QED BY <2>1, <2>2, <2>3
  <1>4. \A t : /\ Grown(old, t, answer.tool, 0, 0) => Grown(old, With(t, StartKey), answer.tool, 1, 0)
               /\ Grown(old, t, answer.tool, 0, 0) => Grown(old, With(t, e), answer.tool, 0, 1)
               /\ Grown(old, t, answer.tool, 1, 0) => Grown(old, With(t, e), answer.tool, 1, 1)
               /\ Grown(old, t, answer.tool, 1, 0) => Grown(old, With(t, k), answer.tool, 1, 0)
               /\ Grown(old, t, answer.tool, 0, 1) => Grown(old, With(t, k), answer.tool, 0, 1)
               /\ Grown(old, t, answer.tool, 1, 1) => Grown(old, With(t, k), answer.tool, 1, 1)
    <2>1. 0 + 0 = 0 /\ 0 + 1 = 1 /\ 1 + 0 = 1 /\ 0 \in Nat /\ 1 \in Nat
      OBVIOUS
    <2> HIDE DEF With
    <2> QED BY <1>3, <2>1
  <1> HIDE DEF With
  <1>5. /\ Grown(old, With(old, StartKey), answer.tool, 1, 0) /\ Grown(old, With(old, e), answer.tool, 0, 1)
        /\ Grown(old, With(With(old, StartKey), e), answer.tool, 1, 1)
        /\ Grown(old, With(With(With(old, StartKey), e), k), answer.tool, 1, 1)
        /\ Grown(old, With(With(old, StartKey), k), answer.tool, 1, 0)
        /\ Grown(old, With(With(old, e), k), answer.tool, 0, 1)
    <2>1. Grown(old, With(old, StartKey), answer.tool, 1, 0) /\ Grown(old, With(old, e), answer.tool, 0, 1)
      BY <1>2, <1>4
    <2>2. /\ Grown(old, With(With(old, StartKey), e), answer.tool, 1, 1)
          /\ Grown(old, With(With(old, StartKey), k), answer.tool, 1, 0)
          /\ Grown(old, With(With(old, e), k), answer.tool, 0, 1)
      BY <2>1, <1>4
    <2>3. Grown(old, With(With(With(old, StartKey), e), k), answer.tool, 1, 1)
      BY <2>2, <1>4
    <2> QED BY <2>1, <2>2, <2>3
  <1> QED BY <1>5 DEF With

-----------------------------------------------------------------------------
(* The steps, as the counts see them.                                      *)

Here == UNCHANGED <<mode, visit, stage>>
TakesKept == tape'.responses = tape.responses /\ head'.asked = head.asked
CallsSame == tape'.fixtures = tape.fixtures /\ head'.served = head.served
VisitsSame == tape'.snapshots = tape.snapshots
VisitRecorded ==
  /\ Live /\ pc' = "after"
  /\ \E r \in Snapshots : r.visit = visit /\ tape'.snapshots = Append(tape.snapshots, r)

\* Nothing is counted, a visit neither begins nor ends.
QuietStep ==
  /\ Here /\ TakesKept /\ CallsSame
  /\ QuietlyEmitted
  /\ pc \notin {"ended", "tool"} /\ (pc' # "ended" => pc \notin {"loop", "after"} /\ pc' # "loop")
  /\ pc = "loop" => visit = MaxSteps
  /\ VisitsSame \/ VisitRecorded

\* Nothing is emitted.
SilentStep ==
  /\ Here /\ TakesKept /\ CallsSame /\ VisitsSame
  /\ UNCHANGED <<ledger, replayed>> /\ flaws \subseteq flaws'
  /\ pc = "dispatch" /\ pc' \in {"policy", "tool"}

EnterStep ==
  /\ UNCHANGED <<mode, stage>> /\ TakesKept /\ CallsSame /\ VisitsSame
  /\ Emitted(<<EnterKey>>)
  /\ pc = "loop" /\ pc' \in {"asking", "policy", "tool"}
  /\ visit' = visit + 1

LeaveStep ==
  /\ UNCHANGED <<mode, visit>> /\ TakesKept /\ CallsSame /\ VisitsSame
  /\ \E to \in Stages : Emitted(<<Key("transition_selected", to)>>)
  /\ pc = "after" /\ pc' = "loop"

TakeStep ==
  /\ Here /\ CallsSame /\ VisitsSame
  /\ Emitted(<<TakeKey>>)
  /\ pc = "asking" /\ pc' \in {"dispatch", "returned"}
  /\ Live => /\ head'.asked = head.asked
             /\ \E r \in Responses : /\ tape'.responses = Append(tape.responses, r)
                                    /\ r.visit = visit /\ r.stage = stage
  /\ ~Live => /\ tape' = tape
              /\ \E i \in Waiting(stage) :
                   head'.asked = [head.asked EXCEPT ![stage] = @ \union {i}]

CallStep ==
  /\ Here /\ TakesKept /\ VisitsSame
  /\ \/ Emitted(<<StartKey, DoneKey>>)
     \/ \E k \in Quiet : Emitted(<<StartKey, ErrorKey, k>>)
  /\ pc = "tool" /\ pc' # "loop"
  /\ Live => /\ head'.served = head.served
             /\ \E f \in Fixtures : /\ tape'.fixtures = Append(tape.fixtures, f)
                                   /\ f.visit = visit /\ f.tool = answer.tool
  /\ ~Live => /\ tape' = tape
              /\ IF FixturesLeft
                 THEN head'.served = Append(head.served, [visit |-> visit, tool |-> answer.tool,
                                                          fixture |-> NextFixture])
                 ELSE head'.served = head.served

CountedStep == QuietStep \/ SilentStep \/ EnterStep \/ LeaveStep \/ TakeStep \/ CallStep

LEMMA RaisesCounted ==
  ASSUME ReplayTypes, AsksModel, ModelRaises
  PROVE  CountedStep
  <1>1. QuietlyEmitted
    BY QuietRaises
  <1>2. pc = "asking" /\ pc' \in {"asking", "ended"}
    BY DEF ModelRaises, RetryOrFail, Fail
  <1>3. Here /\ TakesKept /\ CallsSame /\ VisitsSame
    BY DEF ModelRaises, Here, TakesKept, CallsSame, VisitsSame
  <1> QED BY <1>1, <1>2, <1>3 DEF CountedStep, QuietStep

LEMMA MissCounted ==
  ASSUME ReplayTypes, MissResponse \/ RefuseStubs
  PROVE  CountedStep
  <1>1. QuietlyEmitted
    BY QuietMiss
  <1>2. pc = "asking" /\ pc' = "ended"
    BY DEF MissResponse, RefuseStubs, Fail
  <1>3. Here /\ TakesKept /\ CallsSame /\ VisitsSame
    BY DEF MissResponse, RefuseStubs, Here, TakesKept, CallsSame, VisitsSame
  <1> QED BY <1>1, <1>2, <1>3 DEF CountedStep, QuietStep

LEMMA DispatchCounted ==
  ASSUME ReplayTypes, Dispatch
  PROVE  CountedStep
  <1>1. pc = "dispatch" /\ pc' # "loop"
    BY DEF Dispatch, Fail, ToolError, ToolPoint
  <1>2. Here /\ TakesKept /\ CallsSame /\ VisitsSame
    BY DEF Dispatch, Here, TakesKept, CallsSame, VisitsSame
  <1> QED BY <1>1, <1>2, QuietDispatch DEF CountedStep, QuietStep, SilentStep

LEMMA PolicyCounted ==
  ASSUME ReplayTypes, CheckPolicy
  PROVE  CountedStep
  <1>1. QuietlyEmitted
    BY QuietPolicy
  <1>2. pc = "policy" /\ pc' # "loop"
    BY DEF CheckPolicy, Fail, ToolError
  <1>3. TakesKept /\ CallsSame /\ VisitsSame
    <2>1. tape \in Tapes /\ head \in Heads
      BY TypesUnfolded
    <2>2. \/ head' = head /\ \E q : tape' = [tape EXCEPT !.policies = q]
          \/ tape' = tape /\ (head' = head \/ \E c : head' = [head EXCEPT !.checked = c])
      BY DEF CheckPolicy
    <2> QED BY <2>1, <2>2 DEF TakesKept, CallsSame, VisitsSame, Tapes, Heads
  <1>4. Here
    BY DEF CheckPolicy, Here
  <1> QED BY <1>1, <1>2, <1>3, <1>4 DEF CountedStep, QuietStep

LEMMA InvalidCounted ==
  ASSUME ReplayTypes, OutputInvalid
  PROVE  CountedStep
  <1>1. QuietlyEmitted
    BY QuietInvalid
  <1>2. pc = "returned" /\ pc' \in {"asking", "ended"}
    BY DEF OutputInvalid, RetryOrFail, Fail
  <1>3. Here /\ TakesKept /\ CallsSame /\ VisitsSame
    BY DEF OutputInvalid, Here, TakesKept, CallsSame, VisitsSame
  <1> QED BY <1>1, <1>2, <1>3 DEF CountedStep, QuietStep

LEMMA CompleteCounted ==
  ASSUME ReplayTypes, CompleteStage
  PROVE  CountedStep
  <1>1. QuietlyEmitted
    BY QuietComplete
  <1>2. pc = "returned" /\ output.value # "invalid" /\ pc' = "after" /\ Here
    <2>1. pc = "returned" /\ output.value # "invalid" /\ pc' = "after"
          /\ UNCHANGED <<mode, stage, visit, stageVars, output, outcome, missed>>
      BY Zenon DEF CompleteStage
    <2> QED BY <2>1 DEF Here
  <1>3. TakesKept /\ CallsSame /\ (VisitsSame \/ VisitRecorded)
    <2>1. tape \in Tapes /\ head \in Heads
      BY TypesUnfolded
    <2>2. CASE UNCHANGED head /\ tape' = tape
      BY <2>2 DEF TakesKept, CallsSame, VisitsSame
    <2>3. CASE /\ Live /\ UNCHANGED head
               /\ tape' = [tape EXCEPT !.snapshots = Append(@, [visit |-> visit, output |-> output])]
      <3> DEFINE r == [visit |-> visit, output |-> output]
      <3>1. r \in Snapshots /\ r.visit = visit
        BY <1>2, TypesUnfolded, Bounds DEF Snapshots, Outputs, Values
      <3> HIDE DEF r
      <3>2. tape'.snapshots = Append(tape.snapshots, r)
        BY <2>1, <2>3 DEF Tapes, r
      <3> QED BY <2>1, <2>3, <3>1, <3>2, <1>2 DEF TakesKept, CallsSame, VisitRecorded, Tapes
    <2>4. CASE /\ UNCHANGED tape
               /\ head' = [head EXCEPT !.outputs = Append(@, [visit |-> visit, value |-> output.value])]
      BY <2>1, <2>4 DEF TakesKept, CallsSame, VisitsSame, Heads
    <2> QED BY Zenon, <2>2, <2>3, <2>4 DEF CompleteStage
  <1> QED BY <1>1, <1>2, <1>3 DEF CountedStep, QuietStep

LEMMA EnterCounted ==
  ASSUME ReplayTypes, EnterStage
  PROVE  CountedStep
  <1>1. TakesKept /\ CallsSame /\ VisitsSame /\ UNCHANGED <<mode, stage>> /\ pc = "loop"
    <2>1. UNCHANGED <<mode, stage, output, tape, head, missed>> /\ pc = "loop"
      BY Zenon DEF EnterStage
    <2> QED BY <2>1 DEF TakesKept, CallsSame, VisitsSame
  <1>2. CASE QuietlyEmitted /\ visit = MaxSteps /\ visit' = visit /\ pc' = "ended"
    BY <1>1, <1>2 DEF CountedStep, QuietStep, Here
  <1>3. CASE /\ Emitted(<<EnterKey>>) /\ visit' = visit + 1
             /\ pc' \in {"asking", "policy", "tool"}
    BY <1>1, <1>3 DEF CountedStep, EnterStep
  <1> QED BY <1>2, <1>3, EnterEmits

LEMMA LeaveCounted ==
  ASSUME ReplayTypes, Leave
  PROVE  CountedStep
  <1>1. TakesKept /\ CallsSame /\ VisitsSame /\ UNCHANGED <<mode, visit>> /\ pc = "after"
    BY DEF Leave, TakesKept, CallsSame, VisitsSame
  <1>2. pc' = "ended" => stage' = stage
    BY DEF Leave
  <1> QED BY <1>1, <1>2, LeaveEmits DEF CountedStep, QuietStep, LeaveStep, Here

LEMMA AnswersCounted ==
  ASSUME ReplayTypes, NEW a \in Offered, ModelAnswers(a)
  PROVE  CountedStep
  <1> DEFINE r == [visit |-> visit, stage |-> stage, answer |-> a]
             more == IF a.kind = "output" /\ a.secret THEN {"secret"} ELSE {}
  <1>1. Live /\ pc = "asking" /\ Here /\ head' = head /\ Take(a, more)
        /\ tape' = [tape EXCEPT !.responses = Append(@, r)]
    BY DEF ModelAnswers, Here
  <1>2. r \in Responses /\ r.visit = visit /\ r.stage = stage
    BY TypesUnfolded, Bounds DEF Responses, Offered
  <1> HIDE DEF r, more
  <1>3. Emitted(<<TakeKey>>) /\ pc' \in {"dispatch", "returned"}
    BY <1>1, TakeEmits
  <1>4. /\ tape'.responses = Append(tape.responses, r) /\ tape'.fixtures = tape.fixtures
        /\ tape'.snapshots = tape.snapshots
    BY <1>1, TypesUnfolded DEF Tapes
  <1> QED BY <1>1, <1>2, <1>3, <1>4 DEF CountedStep, TakeStep, CallsSame, VisitsSame

LEMMA ServeCounted ==
  ASSUME ReplayTypes, ServeResponse
  PROVE  CountedStep
  <1>1. ~Live /\ pc = "asking" /\ Here /\ tape' = tape
    BY DEF ServeResponse, Here
  <1>2. PICK i \in Waiting(stage) :
          /\ head' = [head EXCEPT !.asked[stage] = @ \union {i}]
          /\ Take(Taped(tape.responses[i].answer), {})
    BY DEF ServeResponse
  <1>3. Emitted(<<TakeKey>>) /\ pc' \in {"dispatch", "returned"}
    BY <1>1, <1>2, TakeEmits
  <1>4. /\ head'.asked = [head.asked EXCEPT ![stage] = @ \union {i}]
        /\ head'.served = head.served
    BY <1>2, TypesUnfolded DEF Heads
  <1> QED BY <1>1, <1>2, <1>3, <1>4 DEF CountedStep, TakeStep, CallsSame, VisitsSame

LEMMA CallCounted ==
  ASSUME ReplayTypes, CallTool
  PROVE  CountedStep
  <1>1. Live /\ pc = "tool" /\ Here /\ head' = head
    BY DEF CallTool, Here
  <1>0. ArgShapes \subseteq Shapes
    BY <1>1, ArgsShaped
  <1>2. PICK result \in Results, mask \in {"clear", "nested", "whole"}, h \in Shapes :
          /\ tape' = [tape EXCEPT !.fixtures =
                        Append(@, [visit |-> visit, tool |-> answer.tool, shape |-> h,
                                  result |-> result, mask |-> mask])]
          /\ \E more : ToolEnds(result, mask # "clear", more)
    BY <1>0 DEF CallTool, Masks
  <1> DEFINE f == [visit |-> visit, tool |-> answer.tool, shape |-> h,
                    result |-> result, mask |-> mask]
  <1>3. f \in Fixtures /\ f.visit = visit /\ f.tool = answer.tool
    <2>1. visit \in Nat /\ answer.tool \in Tools
      BY <1>1, TypesUnfolded, PointUnfolded, Bounds DEF PointTyped
    <2>2. result \in Values \union {"error", "fatal"}
      BY DEF Results, Values
    <2> QED BY <2>1, <2>2 DEF Fixtures
  <1>4. tape' = [tape EXCEPT !.fixtures = Append(@, f)]
    BY <1>2
  <1> HIDE DEF f
  <1>5. /\ tape'.fixtures = Append(tape.fixtures, f) /\ tape'.responses = tape.responses
        /\ tape'.snapshots = tape.snapshots
    BY <1>4, TypesUnfolded DEF Tapes
  <1>6. \/ Emitted(<<StartKey, DoneKey>>)
        \/ \E k \in Quiet : Emitted(<<StartKey, ErrorKey, k>>)
    BY <1>1, <1>2, EndsEmit
  <1>7. pc' # "loop"
    BY <1>2 DEF ToolEnds, ToolError, Fail
  <1> QED BY <1>1, <1>3, <1>5, <1>6, <1>7 DEF CountedStep, CallStep, TakesKept, VisitsSame

LEMMA FixtureCounted ==
  ASSUME ReplayTypes, ServeFixture
  PROVE  CountedStep
  <1>1. ~Live /\ pc = "tool" /\ Here /\ tape' = tape
    BY DEF ServeFixture, Here
  <1>2. \E result, masked, more : ToolEnds(result, masked, more)
    BY DEF ServeFixture
  <1>3. \/ Emitted(<<StartKey, DoneKey>>)
        \/ \E k \in Quiet : Emitted(<<StartKey, ErrorKey, k>>)
    BY <1>1, <1>2, EndsEmit
  <1>4. pc' # "loop"
    BY <1>2 DEF ToolEnds, ToolError, Fail
  <1> DEFINE x == [visit |-> visit, tool |-> answer.tool, fixture |-> NextFixture]
  <1>5. \/ FixturesLeft /\ head' = [head EXCEPT !.served = Append(@, x)]
        \/ ~FixturesLeft /\ head' = head
    BY DEF ServeFixture
  <1> HIDE DEF x
  <1>6. /\ head'.asked = head.asked
        /\ FixturesLeft => head'.served = Append(head.served, x)
        /\ ~FixturesLeft => head'.served = head.served
    BY <1>5, TypesUnfolded DEF Heads
  <1> QED BY <1>1, <1>3, <1>4, <1>6 DEF CountedStep, CallStep, TakesKept, VisitsSame, x

\* Every step is one of these, the beginning of the replay, or none.
LEMMA StepsCounted ==
  ASSUME ReplayTypes, AsksModel, ReplayNext
  PROVE  CountedStep \/ Unlock \/ UNCHANGED replayVars
  BY RaisesCounted, MissCounted, DispatchCounted, PolicyCounted, InvalidCounted, CompleteCounted,
     EnterCounted, LeaveCounted, AnswersCounted, ServeCounted, CallCounted, FixtureCounted
  DEF ReplayNext, ReplayStep

-----------------------------------------------------------------------------
(* The ledger and the tapes: visits and calls.                             *)

Omitted == "omitted" \in flaws

\* Of the two milestones of a call at most one is lost, once.
CallsKept ==
  LET b == Among(Begun, ledger)
      e == Among(Ended, ledger)
      f == Len(tape.fixtures)
  IN \/ b = f /\ e = f
     \/ Omitted /\ b = f /\ e = f - 1
     \/ Omitted /\ b = f - 1 /\ e = f

\* Of v visits at most one beginning is lost, and then nothing else is.
VisitsKept(v) ==
  LET n == Among(Entered, ledger)
      t == Among(Left, ledger)
  IN /\ n = v \/ (Omitted /\ n = v - 1)
     /\ ~Omitted \/ n = v - 1 => t \in {v - 1, v}

\* How far the run is.
VisitsExact ==
  LET n == Among(Entered, ledger)
      t == Among(Left, ledger)
  IN (~Omitted \/ n = visit - 1) /\ pc # "ended" => t = IF pc = "loop" THEN visit ELSE visit - 1

\* The j-th fixture is of the call that ended j-th.
CallsInOrder(v) ==
  Among(Ended, ledger) = Len(tape.fixtures) /\ Among(Entered, ledger) = v =>
    \A j \in DOMAIN tape.fixtures :
      \E i \in DOMAIN ledger :
        /\ ledger[i] \in Ended /\ Up(Ended, ledger, i) = j
        /\ ledger[i][3] = tape.fixtures[j].tool
        /\ Up(Entered, ledger, i) = tape.fixtures[j].visit

LiveCalls == CallsKept /\ VisitsKept(visit) /\ VisitsExact /\ CallsInOrder(visit)
SealedCalls == CallsKept /\ \E v \in 0 .. MaxSteps : VisitsKept(v) /\ CallsInOrder(v)
CallsInv == IF Live THEN LiveCalls ELSE SealedCalls

LedgerTyped == ledger \in Seq(Milestones) /\ tape \in Tapes

\* No visit and no call is told.
Uncounted ==
  /\ Extends(ledger, ledger')
  /\ \A S \in {Entered, Left, Begun, Ended} : Among(S, ledger') = Among(S, ledger)

\* What told the calls still tells them.
LEMMA OrderKept ==
  ASSUME LedgerTyped, LedgerTyped', NEW v, CallsInOrder(v), Extends(ledger, ledger'),
         Among(Ended, ledger) = Len(tape.fixtures), Among(Entered, ledger) = v
  PROVE  \A j \in DOMAIN tape.fixtures :
           \E i \in DOMAIN ledger' :
             /\ ledger'[i] \in Ended /\ Up(Ended, ledger', i) = j
             /\ ledger'[i][3] = tape.fixtures[j].tool
             /\ Up(Entered, ledger', i) = tape.fixtures[j].visit
  <1> TAKE j \in DOMAIN tape.fixtures
  <1>1. PICK i \in DOMAIN ledger :
          /\ ledger[i] \in Ended /\ Up(Ended, ledger, i) = j
          /\ ledger[i][3] = tape.fixtures[j].tool
          /\ Up(Entered, ledger, i) = tape.fixtures[j].visit
    BY DEF CallsInOrder
  <1>2. ledger \in Seq(Milestones) /\ ledger' \in Seq(Milestones)
    BY DEF LedgerTyped
  <1>3. i \in 1 .. Len(ledger) /\ i \in 0 .. Len(ledger) /\ i \in DOMAIN ledger'
        /\ ledger'[i] = ledger[i]
    BY <1>2 DEF Extends
  <1>4. Up(Ended, ledger', i) = Up(Ended, ledger, i) /\ Up(Entered, ledger', i) = Up(Entered, ledger, i)
    BY <1>2, <1>3, ExtendsCounts
  <1> QED BY <1>1, <1>3, <1>4

LEMMA UncountedKeeps ==
  ASSUME LedgerTyped, LedgerTyped', LiveCalls, Uncounted, visit' = visit, flaws \subseteq flaws',
         tape'.fixtures = tape.fixtures, pc # "ended",
         pc' # "ended" => pc # "loop" /\ pc' # "loop"
  PROVE  LiveCalls'
  <1>1. /\ Among(Begun, ledger') = Among(Begun, ledger) /\ Among(Ended, ledger') = Among(Ended, ledger)
        /\ Among(Entered, ledger') = Among(Entered, ledger)
        /\ Among(Left, ledger') = Among(Left, ledger)
    BY DEF Uncounted
  <1>2. Omitted => Omitted'
    BY DEF Omitted
  <1>3. CallsKept'
    BY <1>1, <1>2 DEF LiveCalls, CallsKept
  <1>4. VisitsKept(visit)'
    BY <1>1, <1>2 DEF LiveCalls, VisitsKept
  <1>5. VisitsExact'
    BY <1>1, <1>2 DEF LiveCalls, VisitsExact, VisitsKept
  <1>6. CallsInOrder(visit)'
    BY <1>1, OrderKept DEF LiveCalls, CallsInOrder, Uncounted
  <1> QED BY <1>3, <1>4, <1>5, <1>6 DEF LiveCalls

LEMMA SameExtends ==
  ASSUME NEW s \in Seq(Milestones)
  PROVE  Extends(s, s)
  BY DEF Extends

LEMMA Typed ==
  ASSUME ReplayTypes
  PROVE  /\ LedgerTyped /\ replayed \in Seq(Milestones) /\ stage \in Stages /\ visit \in Nat
         /\ mode \in {"live", "replay"}
  BY TypesUnfolded, Bounds DEF LedgerTyped, RecordsTyped

LEMMA TypedNext ==
  ASSUME ReplayTypes'
  PROVE  LedgerTyped'
  BY DEF ReplayTypes, LedgerTyped

\* A live step that counts nothing, or only a response.
LEMMA QuietCalls ==
  ASSUME ReplayTypes, ReplayTypes', Live, LiveCalls, QuietStep \/ SilentStep
  PROVE  LiveCalls'
  <1>1. LedgerTyped /\ LedgerTyped' /\ ledger \in Seq(Milestones)
    BY Typed, TypedNext DEF LedgerTyped
  <1>2. Uncounted /\ flaws \subseteq flaws'
    <2>1. CASE QuietStep
      <3>1. PICK keys \in Seq(Quiet) : Emitted(keys)
        BY <2>1 DEF QuietStep, QuietlyEmitted
      <3>2. Quietly(ledger, ledger') /\ flaws \subseteq flaws'
        BY <3>1, EmitQuiet DEF Emitted
      <3> QED BY <3>2 DEF Quietly, Uncounted, Counts
    <2>2. CASE SilentStep
      <3>1. ledger' = ledger /\ flaws \subseteq flaws'
        BY <2>2 DEF SilentStep
      <3>2. Extends(ledger, ledger)
        BY <1>1, SameExtends
      <3> QED BY <3>1, <3>2 DEF Uncounted
    <2> QED BY <2>1, <2>2
  <1>3. /\ visit' = visit /\ tape'.fixtures = tape.fixtures /\ pc # "ended"
        /\ pc' # "ended" => pc # "loop" /\ pc' # "loop"
    BY DEF QuietStep, SilentStep, Here, CallsSame
  <1> QED BY <1>1, <1>2, <1>3, UncountedKeeps

LEMMA TakeCalls ==
  ASSUME ReplayTypes, ReplayTypes', Live, LiveCalls, TakeStep
  PROVE  LiveCalls'
  <1>1. LedgerTyped /\ LedgerTyped' /\ ledger \in Seq(Milestones) /\ stage \in Stages
    BY Typed, TypedNext DEF LedgerTyped
  <1>2. PICK more : Emits(<<TakeKey>>, more)
    BY DEF TakeStep, Emitted
  <1>3. TakeKey \in Milestones /\ \A S \in {Entered, Left, Begun, Ended} : TakeKey \notin S
    BY <1>1, CountedKeys
  <1>4. \/ Wrote(Append(ledger, TakeKey), more)
        \/ Omits(more) /\ ledger' = ledger
    BY <1>1, <1>2, <1>3, EmitOne
  <1>5. flaws \subseteq flaws'
    BY <1>4 DEF Wrote, Omits
  <1>6. Uncounted
    <2>1. CASE ledger' = ledger
      BY <2>1, <1>1, SameExtends DEF Uncounted
    <2>2. CASE ledger' = Append(ledger, TakeKey)
      <3>1. /\ Extends(ledger, ledger')
            /\ \A S : Among(S, ledger') = Among(S, ledger) + (IF TakeKey \in S THEN 1 ELSE 0)
        BY <2>2, <1>1, <1>3, AppendCounts
      <3>2. \A S : Among(S, ledger) \in Nat
        BY <1>1, AmongTyped
      <3> QED BY <3>1, <3>2, <1>3 DEF Uncounted
    <2> QED BY <2>1, <2>2, <1>4 DEF Wrote
  <1>7. /\ visit' = visit /\ tape'.fixtures = tape.fixtures /\ pc = "asking"
        /\ pc' \in {"dispatch", "returned"}
    BY DEF TakeStep, Here, CallsSame
  <1> QED BY <1>1, <1>5, <1>6, <1>7, UncountedKeeps

\* A visit begins.
LEMMA EnterCalls ==
  ASSUME ReplayTypes, ReplayTypes', Live, LiveCalls, EnterStep
  PROVE  LiveCalls'
  <1>1. LedgerTyped /\ LedgerTyped' /\ ledger \in Seq(Milestones) /\ stage \in Stages
        /\ visit \in Nat
    BY Typed, TypedNext DEF LedgerTyped
  <1>2. PICK more : Emits(<<EnterKey>>, more)
    BY DEF EnterStep, Emitted
  <1>3. EnterKey \in Milestones /\ EnterKey \in Entered
        /\ EnterKey \notin Left /\ EnterKey \notin Begun /\ EnterKey \notin Ended
    BY <1>1, CountedKeys
  <1>4. \/ ledger' = Append(ledger, EnterKey) /\ flaws \subseteq flaws'
        \/ Omitted' /\ ~Omitted /\ ledger' = ledger
    BY <1>1, <1>2, <1>3, EmitOne DEF Wrote, Omits, Omitted
  <1>5. /\ visit' = visit + 1 /\ tape'.fixtures = tape.fixtures /\ pc = "loop"
        /\ pc' \in {"asking", "policy", "tool"}
    BY DEF EnterStep, CallsSame
  <1>6. \A S : Among(S, ledger) \in Nat
    BY <1>1, AmongTyped
  <1>7. CASE ledger' = Append(ledger, EnterKey) /\ flaws \subseteq flaws'
    <2>1. /\ Extends(ledger, ledger')
          /\ \A S : Among(S, ledger') = Among(S, ledger) + (IF EnterKey \in S THEN 1 ELSE 0)
      BY <1>7, <1>1, <1>3, AppendCounts
    <2>2. /\ Among(Entered, ledger') = Among(Entered, ledger) + 1
          /\ Among(Left, ledger') = Among(Left, ledger)
          /\ Among(Begun, ledger') = Among(Begun, ledger)
          /\ Among(Ended, ledger') = Among(Ended, ledger)
      BY <2>1, <1>3, <1>6
    <2>3. Omitted => Omitted'
      BY <1>7 DEF Omitted
    <2>4. CallsKept'
      BY <2>2, <2>3, <1>5 DEF LiveCalls, CallsKept
    <2>5. VisitsKept(visit)' /\ VisitsExact'
      BY <2>2, <2>3, <1>1, <1>5, <1>6 DEF LiveCalls, VisitsKept, VisitsExact
    <2>6. CallsInOrder(visit)'
      <3> SUFFICES ASSUME Among(Ended, ledger') = Len(tape'.fixtures),
                          Among(Entered, ledger') = visit'
                   PROVE  \A j \in DOMAIN tape'.fixtures :
                            \E i \in DOMAIN ledger' :
                              /\ ledger'[i] \in Ended /\ Up(Ended, ledger', i) = j
                              /\ ledger'[i][3] = tape'.fixtures[j].tool
                              /\ Up(Entered, ledger', i) = tape'.fixtures[j].visit
        BY DEF CallsInOrder
      <3>1. Among(Ended, ledger) = Len(tape.fixtures) /\ Among(Entered, ledger) = visit
        <4>1. Among(Entered, ledger) \in Nat
          BY <1>6
        <4>2. Among(Ended, ledger) = Len(tape.fixtures)
          BY <2>2, <1>5
        <4>3. Among(Entered, ledger) + 1 = visit + 1
          BY <2>2, <1>5
        <4>4. Among(Entered, ledger) = visit
          BY <4>1, <4>3, <1>1
        <4> QED BY <4>2, <4>4
      <3>2. CallsInOrder(visit)
        BY DEF LiveCalls
      <3> QED BY <3>1, <3>2, <2>1, <1>1, <1>5, OrderKept
    <2> QED BY <2>4, <2>5, <2>6 DEF LiveCalls
  <1>8. CASE Omitted' /\ ~Omitted /\ ledger' = ledger
    <2>1. CallsKept'
      BY <1>8, <1>5 DEF LiveCalls, CallsKept
    <2>2. VisitsKept(visit)' /\ VisitsExact'
      BY <1>8, <1>1, <1>5, <1>6 DEF LiveCalls, VisitsKept, VisitsExact
    <2>3. CallsInOrder(visit)'
      BY <1>8, <1>1, <1>5, <1>6 DEF LiveCalls, VisitsKept, CallsInOrder
    <2> QED BY <2>1, <2>2, <2>3 DEF LiveCalls
  <1> QED BY <1>4, <1>7, <1>8

\* A visit ends.
LEMMA LeaveCalls ==
  ASSUME ReplayTypes, ReplayTypes', Live, LiveCalls, LeaveStep
  PROVE  LiveCalls'
  <1>1. LedgerTyped /\ LedgerTyped' /\ ledger \in Seq(Milestones) /\ stage \in Stages
        /\ visit \in Nat
    BY Typed, TypedNext DEF LedgerTyped
  <1>2. PICK to \in Stages : Emitted(<<Key("transition_selected", to)>>)
    BY DEF LeaveStep
  <1> DEFINE k == Key("transition_selected", to)
  <1>3. k \in Milestones /\ k \in Left /\ k \notin Entered /\ k \notin Begun /\ k \notin Ended
    BY <1>1, CountedKeys
  <1>4. PICK more : Emits(<<k>>, more)
    BY <1>2 DEF Emitted
  <1> HIDE DEF k
  <1>5. \/ ledger' = Append(ledger, k) /\ flaws \subseteq flaws'
        \/ Omitted' /\ ~Omitted /\ ledger' = ledger
    BY <1>1, <1>3, <1>4, EmitOne DEF Wrote, Omits, Omitted
  <1>6. visit' = visit /\ tape'.fixtures = tape.fixtures /\ pc = "after" /\ pc' = "loop"
    BY DEF LeaveStep, CallsSame
  <1>7. \A S : Among(S, ledger) \in Nat
    BY <1>1, AmongTyped
  <1>8. Extends(ledger, ledger')
    <2>1. Extends(ledger, ledger) /\ Extends(ledger, Append(ledger, k))
      BY <1>1, <1>3, AppendCounts, SameExtends
    <2> QED BY <2>1, <1>5
  <1>9. /\ Among(Entered, ledger') = Among(Entered, ledger)
        /\ Among(Begun, ledger') = Among(Begun, ledger)
        /\ Among(Ended, ledger') = Among(Ended, ledger)
        /\ \/ Among(Left, ledger') = Among(Left, ledger) + 1 /\ flaws \subseteq flaws'
           \/ Among(Left, ledger') = Among(Left, ledger) /\ Omitted' /\ ~Omitted
    <2>1. CASE ledger' = Append(ledger, k) /\ flaws \subseteq flaws'
      <3>1. \A S : Among(S, ledger') = Among(S, ledger) + (IF k \in S THEN 1 ELSE 0)
        BY <2>1, <1>1, <1>3, AppendCounts
      <3> QED BY <3>1, <2>1, <1>3, <1>7
    <2>2. CASE Omitted' /\ ~Omitted /\ ledger' = ledger
      BY <2>2
    <2> QED BY <2>1, <2>2, <1>5
  <1>10. Omitted => Omitted'
    BY <1>9 DEF Omitted
  <1>11. CallsKept'
    BY <1>6, <1>9, <1>10 DEF LiveCalls, CallsKept
  <1>12. VisitsKept(visit)' /\ VisitsExact'
    BY <1>1, <1>6, <1>7, <1>9, <1>10 DEF LiveCalls, VisitsKept, VisitsExact
  <1>13. CallsInOrder(visit)'
    BY <1>1, <1>6, <1>8, <1>9, OrderKept DEF LiveCalls, CallsInOrder
  <1> QED BY <1>11, <1>12, <1>13 DEF LiveCalls

\* How the ledger grows by a call.
LEMMA CallTold ==
  ASSUME ReplayTypes, Live, CallStep
  PROVE  \E db \in {0, 1} : \E de \in {0, 1} :
           /\ Grown(ledger, ledger', answer.tool, db, de)
           /\ flaws \subseteq flaws'
           /\ (db = 1 /\ de = 1) \/ (Omitted' /\ ~Omitted /\ db + de = 1)
  <1> DEFINE g(t, db, de) == Grown(ledger, t, answer.tool, db, de)
             goal == \E db \in {0, 1} : \E de \in {0, 1} :
                       /\ g(ledger', db, de)
                       /\ flaws \subseteq flaws'
                       /\ (db = 1 /\ de = 1) \/ (Omitted' /\ ~Omitted /\ db + de = 1)
  <1>1. ledger \in Seq(Milestones) /\ stage \in Stages /\ answer.tool \in Tools
    BY Typed, PointUnfolded DEF LedgerTyped, CallStep, PointTyped
  <1>2. {StartKey, DoneKey, ErrorKey} \subseteq Milestones
    BY <1>1, CallKeys
  <1>3. \E k : k \in Quiet
    BY FailedTyped
  <1>4. \A k \in Quiet : \A e \in {DoneKey, ErrorKey} :
          /\ g(Append(ledger, StartKey), 1, 0) /\ g(Append(ledger, e), 0, 1)
          /\ g(Append(Append(ledger, StartKey), e), 1, 1)
          /\ g(Append(Append(Append(ledger, StartKey), e), k), 1, 1)
          /\ g(Append(Append(ledger, StartKey), k), 1, 0)
          /\ g(Append(Append(ledger, e), k), 0, 1)
    BY <1>1, GrowsByCall
  <1> HIDE DEF g
  <1>5. ASSUME g(ledger', 1, 1), flaws \subseteq flaws'
        PROVE  goal
    BY <1>5
  <1>6. ASSUME NEW db \in {0, 1}, NEW de \in {0, 1}, g(ledger', db, de), db + de = 1,
               Omitted', ~Omitted, flaws \subseteq flaws'
        PROVE  goal
    BY <1>6
  <1> HIDE DEF goal
  <1>7. ASSUME Emitted(<<StartKey, DoneKey>>)
        PROVE  goal
    <2>1. PICK more : Emits(<<StartKey, DoneKey>>, more)
      BY <1>7 DEF Emitted
    <2>2. \/ Wrote(Append(Append(ledger, StartKey), DoneKey), more)
          \/ Omits(more) /\ ledger' \in {Append(ledger, StartKey), Append(ledger, DoneKey)}
      BY <2>1, <1>1, <1>2, EmitTwo
    <2>3. /\ g(Append(Append(ledger, StartKey), DoneKey), 1, 1)
          /\ g(Append(ledger, StartKey), 1, 0) /\ g(Append(ledger, DoneKey), 0, 1)
      BY <1>3, <1>4
    <2>4. CASE Wrote(Append(Append(ledger, StartKey), DoneKey), more)
      BY <2>3, <2>4, <1>5 DEF Wrote
    <2>5. CASE Omits(more) /\ ledger' = Append(ledger, StartKey)
      BY <2>3, <2>5, <1>6 DEF Omits, Omitted
    <2>6. CASE Omits(more) /\ ledger' = Append(ledger, DoneKey)
      BY <2>3, <2>6, <1>6 DEF Omits, Omitted
    <2> QED BY <2>2, <2>4, <2>5, <2>6
  <1>8. ASSUME NEW k \in Quiet, Emitted(<<StartKey, ErrorKey, k>>)
        PROVE  goal
    <2>1. PICK more : Emits(<<StartKey, ErrorKey, k>>, more)
      BY <1>8 DEF Emitted
    <2>2. k \in Milestones
      BY DEF Quiet
    <2>3. \/ Wrote(Append(Append(Append(ledger, StartKey), ErrorKey), k), more)
          \/ /\ Omits(more)
             /\ ledger' \in {Append(Append(ledger, StartKey), ErrorKey),
                             Append(Append(ledger, StartKey), k),
                             Append(Append(ledger, ErrorKey), k)}
      BY <2>1, <2>2, <1>1, <1>2, EmitThree
    <2>4. /\ g(Append(Append(Append(ledger, StartKey), ErrorKey), k), 1, 1)
          /\ g(Append(Append(ledger, StartKey), ErrorKey), 1, 1)
          /\ g(Append(Append(ledger, StartKey), k), 1, 0)
          /\ g(Append(Append(ledger, ErrorKey), k), 0, 1)
      BY <1>4
    <2>5. CASE Wrote(Append(Append(Append(ledger, StartKey), ErrorKey), k), more)
      BY <2>4, <2>5, <1>5 DEF Wrote
    <2>6. CASE Omits(more) /\ ledger' = Append(Append(ledger, StartKey), ErrorKey)
      BY <2>4, <2>6, <1>5 DEF Omits
    <2>7. CASE Omits(more) /\ ledger' = Append(Append(ledger, StartKey), k)
      BY <2>4, <2>7, <1>6 DEF Omits, Omitted
    <2>8. CASE Omits(more) /\ ledger' = Append(Append(ledger, ErrorKey), k)
      BY <2>4, <2>8, <1>6 DEF Omits, Omitted
    <2> QED BY <2>3, <2>5, <2>6, <2>7, <2>8
  <1>9. goal
    BY <1>7, <1>8 DEF CallStep
  <1> QED BY <1>9 DEF goal, g

\* A call ends.
LEMMA CallCalls ==
  ASSUME ReplayTypes, ReplayTypes', Live, LiveCalls, CallStep
  PROVE  LiveCalls'
  <1>1. LedgerTyped /\ LedgerTyped' /\ ledger \in Seq(Milestones) /\ stage \in Stages
        /\ visit \in Nat
    BY Typed, TypedNext DEF LedgerTyped
  <1>2. PICK db \in {0, 1}, de \in {0, 1} :
          /\ Grown(ledger, ledger', answer.tool, db, de)
          /\ flaws \subseteq flaws'
          /\ (db = 1 /\ de = 1) \/ (Omitted' /\ ~Omitted /\ db + de = 1)
    BY CallTold
  <1>3. PICK f \in Fixtures : /\ tape'.fixtures = Append(tape.fixtures, f)
                              /\ f.visit = visit /\ f.tool = answer.tool
    BY DEF CallStep
  <1>4. visit' = visit /\ pc = "tool" /\ pc' # "loop"
    BY DEF CallStep, Here
  <1>5. /\ tape.fixtures \in Seq(Fixtures) /\ Len(tape.fixtures) \in Nat
        /\ Len(tape'.fixtures) = Len(tape.fixtures) + 1
        /\ \A j \in DOMAIN tape'.fixtures :
             tape'.fixtures[j] = IF j = Len(tape.fixtures) + 1 THEN f ELSE tape.fixtures[j]
        /\ DOMAIN tape'.fixtures = 1 .. Len(tape.fixtures) + 1
        /\ DOMAIN tape.fixtures = 1 .. Len(tape.fixtures)
    <2>1. tape.fixtures \in Seq(Fixtures)
      BY <1>1 DEF LedgerTyped, Tapes
    <2> QED BY <2>1, <1>3
  <1>6. /\ Among(Begun, ledger') = Among(Begun, ledger) + db
        /\ Among(Ended, ledger') = Among(Ended, ledger) + de
        /\ Among(Entered, ledger') = Among(Entered, ledger)
        /\ Among(Left, ledger') = Among(Left, ledger)
        /\ Extends(ledger, ledger')
    BY <1>2 DEF Grown
  <1>7. /\ Among(Begun, ledger) \in Nat /\ Among(Ended, ledger) \in Nat
        /\ Among(Entered, ledger) \in Nat /\ Among(Left, ledger) \in Nat
    BY <1>1, AmongTyped
  <1>8. Omitted => Omitted'
    BY <1>2 DEF Omitted
  <1>9. CallsKept'
    <2> DEFINE b == Among(Begun, ledger)
               e == Among(Ended, ledger)
               n == Len(tape.fixtures)
               c == Among(Begun, ledger')
               d == Among(Ended, ledger')
               m == Len(tape'.fixtures)
    <2>1. \/ b = n /\ e = n
          \/ Omitted /\ b = n /\ e = n - 1
          \/ Omitted /\ b = n - 1 /\ e = n
      BY DEF LiveCalls, CallsKept
    <2>2. c = b + db /\ d = e + de /\ m = n + 1 /\ b \in Nat /\ e \in Nat /\ n \in Nat
      BY <1>5, <1>6, <1>7
    <2>3. /\ ~(c = m /\ d = m) => Omitted'
          /\ \/ c = m /\ d = m
             \/ c = m /\ d = m - 1
             \/ c = m - 1 /\ d = m
      <3> HIDE DEF b, e, n, c, d, m
      <3>1. CASE db = 1 /\ de = 1
        BY <3>1, <2>1, <2>2, <1>8
      <3>2. CASE Omitted' /\ ~Omitted /\ db + de = 1
        BY <3>2, <2>1, <2>2
      <3> QED BY <3>1, <3>2, <1>2
    <2> QED BY <2>3 DEF CallsKept
  <1>10. VisitsKept(visit)' /\ VisitsExact'
    BY <1>1, <1>4, <1>6, <1>7, <1>8 DEF LiveCalls, VisitsKept, VisitsExact
  <1>11. CallsInOrder(visit)'
    <2> SUFFICES ASSUME Among(Ended, ledger') = Len(tape'.fixtures),
                        Among(Entered, ledger') = visit',
                        NEW j \in DOMAIN tape'.fixtures
                 PROVE  \E i \in DOMAIN ledger' :
                          /\ ledger'[i] \in Ended /\ Up(Ended, ledger', i) = j
                          /\ ledger'[i][3] = tape'.fixtures[j].tool
                          /\ Up(Entered, ledger', i) = tape'.fixtures[j].visit
      BY DEF CallsInOrder
    <2>1. Among(Entered, ledger) = visit
      BY <1>4, <1>6
    <2>2. Among(Ended, ledger) + de = Len(tape.fixtures) + 1
      BY <1>5, <1>6
    <2>3. de = 1 /\ Among(Ended, ledger) = Len(tape.fixtures)
      <3>1. \/ Among(Ended, ledger) = Len(tape.fixtures)
            \/ Omitted /\ Among(Ended, ledger) = Len(tape.fixtures) - 1
        BY DEF LiveCalls, CallsKept
      <3> QED BY <2>2, <3>1, <1>2, <1>5, <1>7
    <2>4. CASE j \in DOMAIN tape.fixtures
      <3>1. CallsInOrder(visit)
        BY DEF LiveCalls
      <3>2. PICK i \in DOMAIN ledger' :
              /\ ledger'[i] \in Ended /\ Up(Ended, ledger', i) = j
              /\ ledger'[i][3] = tape.fixtures[j].tool
              /\ Up(Entered, ledger', i) = tape.fixtures[j].visit
        BY <3>1, <2>1, <2>3, <2>4, <1>1, <1>6, OrderKept
      <3>3. tape'.fixtures[j] = tape.fixtures[j]
        BY <2>4, <1>5
      <3> QED BY <3>2, <3>3
    <2>5. CASE j = Len(tape.fixtures) + 1
      <3>1. Grown(ledger, ledger', answer.tool, db, 1)
        BY <2>3, <1>2
      <3>2. db \in Nat
        BY <1>2
      <3>3. PICK i \in Len(ledger) + 1 .. Len(ledger') : ledger'[i] \in Ended
        BY <3>1, <3>2, <1>1, GrownEnds
      <3>4. /\ ledger'[i][3] = answer.tool
            /\ Up(Ended, ledger', i) = Among(Ended, ledger) + 1
            /\ Up(Entered, ledger', i) = Among(Entered, ledger)
        BY <3>1, <3>3 DEF Grown
      <3>5. tape'.fixtures[j] = f
        BY <2>5, <1>5
      <3>6. i \in DOMAIN ledger'
        <4>1. ledger' \in Seq(Milestones)
          BY <1>1 DEF LedgerTyped
        <4> QED BY <4>1, <3>3, <1>1
      <3> QED BY <3>3, <3>4, <3>5, <3>6, <2>1, <2>3, <2>5, <1>3
    <2> QED BY <2>4, <2>5, <1>5
  <1> QED BY <1>9, <1>10, <1>11 DEF LiveCalls

\* The replay leaves what the live run recorded alone.
LEMMA ReplayReads ==
  ASSUME ~Live, ReplayNext
  PROVE  tape' = tape /\ ledger' = ledger /\ flaws' = flaws /\ mode' = mode
  <1>1. \A keys, more : Emits(keys, more) => ledger' = ledger /\ flaws' = flaws
    BY DEF Emits
  <1>2. \A keys, more : Fail(keys, more) => ledger' = ledger /\ flaws' = flaws
    BY <1>1 DEF Fail
  <1>3. \A keys, more : ToolError(keys, more) => ledger' = ledger /\ flaws' = flaws
    BY <1>1, <1>2 DEF ToolError
  <1>4. \A more : RetryOrFail(more) => ledger' = ledger /\ flaws' = flaws
    BY <1>1, <1>2 DEF RetryOrFail
  <1>5. \A a, more : Take(a, more) => ledger' = ledger /\ flaws' = flaws
    BY <1>1 DEF Take
  <1>6. \A result, masked, more :
          ToolEnds(result, masked, more) => ledger' = ledger /\ flaws' = flaws
    BY <1>1, <1>2, <1>3 DEF ToolEnds
  <1>7. CASE EnterStage
    <2>1. /\ UNCHANGED <<mode, stage, output, tape, head, missed>>
          /\ \/ Fail(<< >>, {})
             \/ Emits(<<Key("stage_started", "")>>, {})
      BY <1>7, Zenon DEF EnterStage
    <2> QED BY <2>1, <1>1, <1>2
  <1>8. CASE ServeResponse
    <2>1. UNCHANGED <<mode, stage, visit, retries, rounds, tape, outcome, missed>>
          /\ \E a : Take(a, {})
      BY <1>8 DEF ServeResponse
    <2> QED BY <2>1, <1>5
  <1>9. CASE MissResponse \/ RefuseStubs
    BY <1>9, <1>2 DEF MissResponse, RefuseStubs
  <1>10. CASE Dispatch
    <2>1. /\ UNCHANGED <<mode, stage, visit, retries, answer, output, tape, head, missed>>
          /\ \/ Fail(<< >>, {})
             \/ \E more : ToolError(<< >>, more)
             \/ UNCHANGED <<ledger, replayed, flaws, outcome>>
      BY <1>10 DEF Dispatch, Live
    <2> QED BY <2>1, <1>2, <1>3
  <1>11. CASE CheckPolicy
    <2>1. /\ UNCHANGED <<mode, stage, visit, stageVars, output, missed>>
          /\ Live \/ UNCHANGED tape
          /\ \E keys, more : Emits(keys, more) \/ ToolError(keys, more) \/ Fail(keys, more)
      BY <1>11, Zenon DEF CheckPolicy
    <2> QED BY <2>1, <1>1, <1>2, <1>3
  <1>12. CASE ServeFixture
    <2>1. /\ UNCHANGED <<mode, stage, visit, stageVars, tape>>
          /\ \E result, masked, more : ToolEnds(result, masked, more)
      BY <1>12 DEF ServeFixture
    <2> QED BY <2>1, <1>6
  <1>13. CASE OutputInvalid
    <2>1. /\ UNCHANGED <<mode, stage, visit, rounds, answer, output, tape, head, missed>>
          /\ RetryOrFail({}) \/ Fail(<< >>, {})
      BY <1>13 DEF OutputInvalid
    <2> QED BY <2>1, <1>2, <1>4
  <1>14. CASE CompleteStage
    <2>1. /\ UNCHANGED <<mode, stage, visit, stageVars, output, outcome, missed>>
          /\ Live \/ UNCHANGED tape
          /\ Emits(<<Key("stage_completed", "")>>, {})
      BY <1>14, Zenon DEF CompleteStage
    <2> QED BY <2>1, <1>1
  <1>15. CASE Leave
    <2>1. /\ UNCHANGED <<mode, visit, stageVars, output, tape, head, missed>>
          /\ \E keys, more : Emits(keys, more) \/ Fail(keys, more)
      BY <1>15, Zenon DEF Leave
    <2> QED BY <2>1, <1>1, <1>2
  <1>16. CASE UNCHANGED replayVars
    BY <1>16 DEF replayVars
  <1>17. ~ModelRaises /\ ~CallTool /\ ~Unlock /\ \A a \in Offered : ~ModelAnswers(a)
    BY DEF ModelRaises, CallTool, Unlock, ModelAnswers
  <1> QED BY <1>7, <1>8, <1>9, <1>10, <1>11, <1>12, <1>13, <1>14, <1>15, <1>16, <1>17
          DEF ReplayNext, ReplayStep

LEMMA CountedKeepsMode ==
  ASSUME CountedStep
  PROVE  mode' = mode
  BY DEF CountedStep, QuietStep, SilentStep, EnterStep, LeaveStep, TakeStep, CallStep, Here

LEMMA CallsBegin ==
  ASSUME ReplayInit
  PROVE  CallsInv
  <1> DEFINE k == <<"run_started">>
  <1>1. /\ mode = "live" /\ pc = "loop" /\ visit = 0 /\ ledger = <<k>>
        /\ tape.fixtures = << >>
    BY DEF ReplayInit
  <1>2. k[1] = "run_started" /\ k \in Milestones
    BY DEF Milestones
  <1> HIDE DEF k
  <1>3. \A S : k \notin S => Among(S, ledger) = 0
    <2> TAKE S
    <2> HAVE k \notin S
    <2>1. {i \in 1 .. 1 : ledger[i] \in S} = {}
      BY <1>1
    <2>2. Len(ledger) = 1
      BY <1>1
    <2> QED BY <2>1, <2>2, FS_EmptySet DEF Among, Up
  <1>4. k \notin Entered /\ k \notin Left /\ k \notin Begun /\ k \notin Ended
    BY <1>2, CountedKinds
  <1>5. /\ Among(Entered, ledger) = 0 /\ Among(Left, ledger) = 0
        /\ Among(Begun, ledger) = 0 /\ Among(Ended, ledger) = 0
    BY <1>3, <1>4
  <1>6. Len(tape.fixtures) = 0 /\ DOMAIN tape.fixtures = {}
    BY <1>1
  <1>7. CallsKept
    BY <1>5, <1>6 DEF CallsKept
  <1>8. VisitsKept(visit) /\ VisitsExact
    BY <1>1, <1>5 DEF VisitsKept, VisitsExact
  <1>9. CallsInOrder(visit)
    BY <1>6 DEF CallsInOrder
  <1> QED BY <1>1, <1>7, <1>8, <1>9 DEF CallsInv, LiveCalls, Live

\* What the ledger and the tapes say of visits and calls stays in step.
LEMMA CallsStep ==
  ASSUME ReplayTypes, ReplayTypes', AsksModel, CallsInv, [ReplayNext]_replayVars
  PROVE  CallsInv'
  <1>1. CASE UNCHANGED replayVars
    BY <1>1 DEF replayVars, CallsInv, LiveCalls, SealedCalls, CallsKept, VisitsKept, VisitsExact,
                CallsInOrder, Omitted, Live
  <1>2. CASE Live /\ CountedStep
    <2>1. LiveCalls /\ Live'
      BY <1>2, CountedKeepsMode DEF CallsInv, Live
    <2>2. LiveCalls'
      BY <1>2, <2>1, QuietCalls, TakeCalls, EnterCalls, LeaveCalls, CallCalls DEF CountedStep
    <2> QED BY <2>1, <2>2 DEF CallsInv
  <1>3. CASE ~Live /\ ReplayNext
    <2>1. tape' = tape /\ ledger' = ledger /\ flaws' = flaws /\ mode' = mode
      BY <1>3, ReplayReads
    <2> QED BY <1>3, <2>1 DEF CallsInv, SealedCalls, CallsKept, VisitsKept, CallsInOrder, Omitted, Live
  <1>4. CASE Unlock
    <2>1. /\ Live /\ ~Live' /\ tape' = tape /\ ledger' = ledger /\ flaws' = flaws
      BY <1>4 DEF Unlock, Live
    <2>2. visit \in 0 .. MaxSteps
      BY TypesUnfolded
    <2>3. CallsKept' /\ VisitsKept(visit)
      BY <2>1 DEF CallsInv, LiveCalls, CallsKept, Omitted
    <2>4. CallsInOrder(visit)
      BY <2>1 DEF CallsInv, LiveCalls
    <2>5. \E v \in 0 .. MaxSteps : VisitsKept(v) /\ CallsInOrder(v)
      BY <2>2, <2>3, <2>4
    <2>6. \E v \in 0 .. MaxSteps : VisitsKept(v)' /\ CallsInOrder(v)'
      BY <2>1, <2>5 DEF VisitsKept, CallsInOrder, Omitted
    <2> QED BY <2>1, <2>3, <2>6 DEF CallsInv, SealedCalls
  <1> QED BY <1>1, <1>2, <1>3, <1>4, StepsCounted DEF ReplayNext

-----------------------------------------------------------------------------
(* The replay: visits and calls.                                           *)

ReplayVisits ==
  LET n == Among(Entered, replayed)
      t == Among(Left, replayed)
  IN /\ n = visit
     /\ t \in {visit - 1, visit}
     /\ pc \notin {"loop", "ended"} => t = visit - 1
     /\ pc = "loop" => t = visit
     /\ pc = "ended" /\ t = visit => visit = MaxSteps

\* Every call takes the next fixture, as long as there is one.
ServedInOrder ==
  \A i \in DOMAIN replayed :
    replayed[i] \in Ended /\ Up(Ended, replayed, i) <= Len(head.served) =>
      head.served[Up(Ended, replayed, i)] =
        [visit |-> Up(Entered, replayed, i), tool |-> replayed[i][3],
         fixture |-> Up(Ended, replayed, i)]

ReplayCalls ==
  LET e == Among(Ended, replayed)
      f == Len(tape.fixtures)
      d == Len(head.served)
  IN /\ Among(Begun, replayed) = e
     /\ d <= f /\ d <= e
     /\ d < e => d = f
     /\ ServedInOrder

\* Where nothing more of S is counted, nothing more of S is.
LEMMA NoneBeyond ==
  ASSUME NEW s \in Seq(Milestones), NEW t \in Seq(Milestones), Extends(s, t), NEW S,
         Among(S, t) = Among(S, s)
  PROVE  \A i \in Len(s) + 1 .. Len(t) : t[i] \notin S
  <1> SUFFICES ASSUME NEW i \in Len(s) + 1 .. Len(t), t[i] \in S
               PROVE  FALSE
    OBVIOUS
  <1> DEFINE few == {k \in 1 .. Len(s) : s[k] \in S}
             all == {k \in 1 .. Len(t) : t[k] \in S}
  <1>1. Len(s) \in Nat /\ Len(t) \in Nat
    OBVIOUS
  <1>2. few \subseteq all /\ i \in all /\ i \notin few
    BY <1>1 DEF Extends
  <1>3. IsFiniteSet(all) /\ Cardinality(all) = Cardinality(few)
    BY <1>1, UpTyped DEF Among, Up
  <1> HIDE DEF few, all
  <1>4. few = all
    BY <1>2, <1>3, FS_Subset
  <1> QED BY <1>2, <1>4

LEMMA UpBelow ==
  ASSUME NEW s \in Seq(Milestones), NEW S, NEW i \in 1 .. Len(s), s[i] \in S
  PROVE  Up(S, s, i) \in 1 .. Among(S, s)
  <1> DEFINE few == {k \in 1 .. i : s[k] \in S}
             all == {k \in 1 .. Len(s) : s[k] \in S}
  <1>1. i \in Nat /\ Len(s) \in Nat /\ i >= 1
    OBVIOUS
  <1>2. few \subseteq all /\ i \in few
    BY <1>1
  <1>3. IsFiniteSet(all)
    BY <1>1, UpTyped
  <1> HIDE DEF few, all
  <1>4. IsFiniteSet(few) /\ Cardinality(few) <= Cardinality(all) /\ Cardinality(few) \in Nat
        /\ Cardinality(all) \in Nat
    BY <1>2, <1>3, FS_Subset, FS_CardinalityType
  <1>5. Cardinality(few) # 0
    BY <1>2, <1>4, FS_EmptySet
  <1>6. Cardinality(few) \in 1 .. Cardinality(all)
    BY <1>4, <1>5
  <1> QED BY <1>6 DEF few, all, Up, Among

\* What the replay emits.
LEMMA ReplayEmits ==
  ASSUME ReplayTypes, ~Live, NEW keys, Emitted(keys)
  PROVE  /\ replayed' = replayed \o keys
         /\ \A a \in Milestones : keys = <<a>> => replayed' = Append(replayed, a)
         /\ \A a, b \in Milestones : keys = <<a, b>> => replayed' = Append(Append(replayed, a), b)
         /\ \A a, b, c \in Milestones :
              keys = <<a, b, c>> => replayed' = Append(Append(Append(replayed, a), b), c)
  <1>1. PICK more : Emits(keys, more)
    BY DEF Emitted
  <1>2. replayed \in Seq(Milestones)
    BY Typed
  <1> QED BY <1>1, <1>2, EmitReplayed

\* The replay goes on, and of S it emits d more.
Emitting(S, d) == Among(S, replayed') = Among(S, replayed) + d

\* By how much each step of the replay counts visits and calls.
LEMMA ReplayGrows ==
  ASSUME ReplayTypes, ~Live, CountedStep
  PROVE  /\ Extends(replayed, replayed')
         /\ Emitting(Entered, IF EnterStep THEN 1 ELSE 0)
         /\ Emitting(Left, IF LeaveStep THEN 1 ELSE 0)
         /\ CallStep => Grown(replayed, replayed', answer.tool, 1, 1)
         /\ ~CallStep => Emitting(Begun, 0) /\ Emitting(Ended, 0)
  <1>1. replayed \in Seq(Milestones) /\ stage \in Stages
    BY Typed
  <1>2. \A S : Among(S, replayed) \in Nat
    BY <1>1, AmongTyped
  <1>3. \A k \in Milestones :
          replayed' = Append(replayed, k) =>
            /\ Extends(replayed, replayed')
            /\ \A S : Emitting(S, IF k \in S THEN 1 ELSE 0)
    BY <1>1, AppendCounts DEF Emitting
  <1>4. CASE QuietStep
    <2>1. PICK keys \in Seq(Quiet) : Emitted(keys)
      BY <1>4 DEF QuietStep, QuietlyEmitted
    <2>2. Quietly(replayed, replayed')
      BY <2>1, EmitQuiet DEF Emitted
    <2>3. /\ Extends(replayed, replayed')
          /\ \A S \in {Entered, Left, Begun, Ended} : Among(S, replayed') = Among(S, replayed) + 0
      BY <2>2, <1>2 DEF Quietly, Counts
    <2>4. ~EnterStep /\ ~LeaveStep /\ ~CallStep
      BY <1>4, Typed DEF QuietStep, EnterStep, LeaveStep, CallStep, Here
    <2> QED BY <2>3, <2>4 DEF Emitting
  <1>5. CASE SilentStep
    <2>1. replayed' = replayed /\ ~EnterStep /\ ~LeaveStep /\ ~CallStep
      BY <1>5 DEF SilentStep, EnterStep, LeaveStep, CallStep
    <2> QED BY <2>1, <1>1, <1>2, SameExtends DEF Emitting
  <1>6. CASE TakeStep
    <2>1. TakeKey \in Milestones /\ \A S \in {Entered, Left, Begun, Ended} : TakeKey \notin S
      BY <1>1, CountedKeys
    <2>2. replayed' = Append(replayed, TakeKey)
      BY <1>6, <2>1, ReplayEmits DEF TakeStep
    <2>3. ~EnterStep /\ ~LeaveStep /\ ~CallStep
      BY <1>6 DEF TakeStep, EnterStep, LeaveStep, CallStep
    <2> QED BY <2>1, <2>2, <2>3, <1>3
  <1>7. CASE EnterStep
    <2>1. EnterKey \in Milestones /\ EnterKey \in Entered
          /\ \A S \in {Left, Begun, Ended} : EnterKey \notin S
      BY <1>1, CountedKeys
    <2>2. replayed' = Append(replayed, EnterKey)
      BY <1>7, <2>1, ReplayEmits DEF EnterStep
    <2>3. ~LeaveStep /\ ~CallStep
      BY <1>7 DEF TakeStep, EnterStep, LeaveStep, CallStep
    <2> QED BY <2>1, <2>2, <2>3, <1>3, <1>7
  <1>8. CASE LeaveStep
    <2>1. PICK to \in Stages : Emitted(<<Key("transition_selected", to)>>)
      BY <1>8 DEF LeaveStep
    <2> DEFINE k == Key("transition_selected", to)
    <2>2. k \in Milestones /\ k \in Left /\ \A S \in {Entered, Begun, Ended} : k \notin S
      BY <1>1, CountedKeys
    <2>3. Emitted(<<k>>)
      BY <2>1
    <2> HIDE DEF k
    <2>4. replayed' = Append(replayed, k)
      BY <2>2, <2>3, ReplayEmits
    <2>5. ~EnterStep /\ ~CallStep
      BY <1>8 DEF TakeStep, EnterStep, LeaveStep, CallStep
    <2> QED BY <2>2, <2>4, <2>5, <1>3, <1>8
  <1>9. CASE CallStep
    <2>0. answer.tool \in Tools
      BY <1>9, PointUnfolded DEF PointTyped, CallStep
    <2>1. {StartKey, DoneKey, ErrorKey} \subseteq Milestones
      BY <2>0, <1>1, CallKeys
    <2>2. \A k \in Quiet : \A e \in {DoneKey, ErrorKey} :
            /\ Grown(replayed, Append(Append(replayed, StartKey), e), answer.tool, 1, 1)
            /\ Grown(replayed, Append(Append(Append(replayed, StartKey), e), k), answer.tool, 1, 1)
      BY <2>0, <1>1, GrowsByCall
    <2>3. ASSUME Emitted(<<StartKey, DoneKey>>)
          PROVE  Grown(replayed, replayed', answer.tool, 1, 1)
      <3>1. replayed' = Append(Append(replayed, StartKey), DoneKey)
        BY <2>1, <2>3, ReplayEmits
      <3>2. Grown(replayed, Append(Append(replayed, StartKey), DoneKey), answer.tool, 1, 1)
        BY <2>2, FailedTyped
      <3> QED BY <3>1, <3>2
    <2>4. ASSUME NEW k \in Quiet, Emitted(<<StartKey, ErrorKey, k>>)
          PROVE  Grown(replayed, replayed', answer.tool, 1, 1)
      <3>1. k \in Milestones
        BY DEF Quiet
      <3>2. replayed' = Append(Append(Append(replayed, StartKey), ErrorKey), k)
        BY <3>1, <2>1, <2>4, ReplayEmits
      <3> QED BY <3>2, <2>2
    <2>5. Grown(replayed, replayed', answer.tool, 1, 1)
      BY <2>3, <2>4, <1>9 DEF CallStep
    <2>6. ~EnterStep /\ ~LeaveStep
      BY <1>9 DEF EnterStep, LeaveStep, CallStep
    <2>7. /\ Extends(replayed, replayed') /\ Among(Entered, replayed') = Among(Entered, replayed) + 0
          /\ Among(Left, replayed') = Among(Left, replayed) + 0
      BY <2>5, <1>2 DEF Grown
    <2> QED BY <2>5, <2>6, <2>7, <1>9 DEF Emitting
  <1> QED BY <1>4, <1>5, <1>6, <1>7, <1>8, <1>9 DEF CountedStep

LEMMA VisitsStep ==
  ASSUME ReplayTypes, ~Live, ReplayVisits, CountedStep
  PROVE  ReplayVisits'
  <1>1. /\ Emitting(Entered, IF EnterStep THEN 1 ELSE 0)
        /\ Emitting(Left, IF LeaveStep THEN 1 ELSE 0)
    BY ReplayGrows
  <1>2. /\ Among(Entered, replayed) \in Nat /\ Among(Left, replayed) \in Nat /\ visit \in Nat
    BY Typed, AmongTyped
  <1>3. CASE EnterStep
    <2>1. ~LeaveStep /\ pc = "loop" /\ pc' \in {"asking", "policy", "tool"} /\ visit' = visit + 1
      BY <1>3 DEF EnterStep, LeaveStep
    <2>2. Among(Entered, replayed') = visit + 1 /\ Among(Left, replayed') = visit
      BY <1>1, <1>2, <1>3, <2>1 DEF Emitting, ReplayVisits
    <2> QED BY <2>1, <2>2, <1>2 DEF ReplayVisits
  <1>4. CASE LeaveStep
    <2>1. ~EnterStep /\ pc = "after" /\ pc' = "loop" /\ visit' = visit
      BY <1>4 DEF EnterStep, LeaveStep
    <2>2. Among(Entered, replayed') = visit /\ Among(Left, replayed') = visit
      BY <1>1, <1>2, <1>4, <2>1 DEF Emitting, ReplayVisits
    <2> QED BY <2>1, <2>2, <1>2 DEF ReplayVisits
  <1>5. CASE ~EnterStep /\ ~LeaveStep
    <2>1. /\ Among(Entered, replayed') = Among(Entered, replayed)
          /\ Among(Left, replayed') = Among(Left, replayed)
      BY <1>1, <1>2, <1>5 DEF Emitting
    <2>2. /\ visit' = visit /\ pc # "ended"
          /\ pc = "loop" => visit = MaxSteps /\ pc' = "ended"
          /\ pc' # "loop"
      BY <1>5 DEF CountedStep, QuietStep, SilentStep, TakeStep, CallStep, Here
    <2> QED BY <2>1, <2>2, <1>2 DEF ReplayVisits
  <1> QED BY <1>3, <1>4, <1>5

\* What was served is still what the milestones tell.
LEMMA ServedKept ==
  ASSUME ReplayTypes, ReplayTypes', ServedInOrder, Extends(replayed, replayed'),
         NEW i \in 1 .. Len(replayed), replayed'[i] \in Ended,
         Up(Ended, replayed', i) <= Len(head.served)
  PROVE  head.served[Up(Ended, replayed', i)] =
           [visit |-> Up(Entered, replayed', i), tool |-> replayed'[i][3],
            fixture |-> Up(Ended, replayed', i)]
  <1>1. replayed \in Seq(Milestones) /\ replayed' \in Seq(Milestones)
    BY DEF ReplayTypes
  <1>2. replayed'[i] = replayed[i] /\ i \in DOMAIN replayed /\ i \in 0 .. Len(replayed)
    BY <1>1 DEF Extends
  <1>3. /\ Up(Ended, replayed', i) = Up(Ended, replayed, i)
        /\ Up(Entered, replayed', i) = Up(Entered, replayed, i)
    BY <1>1, <1>2, ExtendsCounts
  <1> QED BY <1>2, <1>3 DEF ServedInOrder

LEMMA ServesStep ==
  ASSUME ReplayTypes, ReplayTypes', ~Live, ReplayVisits, ReplayCalls, CountedStep
  PROVE  ReplayCalls'
  <1>1. replayed \in Seq(Milestones) /\ replayed' \in Seq(Milestones)
        /\ head.served \in Seq([visit : Nat, tool : Tools, fixture : Nat])
    BY DEF ReplayTypes, Heads
  <1>2. Extends(replayed, replayed') /\ ServedInOrder
    BY ReplayGrows DEF ReplayCalls
  <1>3. /\ Among(Ended, replayed) \in Nat /\ Among(Begun, replayed) \in Nat
        /\ Among(Entered, replayed) \in Nat
        /\ Len(head.served) \in Nat /\ Len(tape.fixtures) \in Nat
    <2>1. tape.fixtures \in Seq(Fixtures)
      BY TypesUnfolded DEF Tapes
    <2> QED BY <2>1, <1>1, AmongTyped
  <1>4. DOMAIN replayed' = 1 .. Len(replayed') /\ Len(replayed) \in Nat /\ Len(replayed') \in Nat
    BY <1>1
  <1>5. CASE ~CallStep
    <2>1. Emitting(Begun, 0) /\ Emitting(Ended, 0)
      BY <1>5, ReplayGrows
    <2>2. Among(Begun, replayed') = Among(Begun, replayed) /\ Among(Ended, replayed') = Among(Ended, replayed)
      BY <2>1, <1>3 DEF Emitting
    <2>3. tape'.fixtures = tape.fixtures /\ head'.served = head.served
      BY <1>5 DEF CountedStep, QuietStep, SilentStep, EnterStep, LeaveStep, TakeStep, CallsSame
    <2>4. \A i \in Len(replayed) + 1 .. Len(replayed') : replayed'[i] \notin Ended
      BY <2>2, <1>1, <1>2, NoneBeyond
    <2>5. ServedInOrder'
      <3> SUFFICES ASSUME NEW i \in DOMAIN replayed', replayed'[i] \in Ended,
                          Up(Ended, replayed', i) <= Len(head'.served)
                   PROVE  head'.served[Up(Ended, replayed', i)] =
                            [visit |-> Up(Entered, replayed', i), tool |-> replayed'[i][3],
                             fixture |-> Up(Ended, replayed', i)]
        BY DEF ServedInOrder
      <3>1. i \in 1 .. Len(replayed)
        BY <2>4, <1>4
      <3> QED BY <3>1, <2>3, <1>2, ServedKept
    <2> QED BY <2>2, <2>3, <2>5 DEF ReplayCalls
  <1>6. CASE CallStep
    <2>1. Grown(replayed, replayed', answer.tool, 1, 1)
      BY <1>6, ReplayGrows
    <2>2. /\ Among(Begun, replayed') = Among(Begun, replayed) + 1
          /\ Among(Ended, replayed') = Among(Ended, replayed) + 1
          /\ \A i \in Len(replayed) + 1 .. Len(replayed') : replayed'[i] \in Ended =>
               /\ replayed'[i][3] = answer.tool
               /\ Up(Ended, replayed', i) = Among(Ended, replayed) + 1
               /\ Up(Entered, replayed', i) = Among(Entered, replayed)
      BY <2>1 DEF Grown
    <2>3. tape' = tape
      BY <1>6 DEF CallStep
    <2>4. /\ Among(Begun, replayed) = Among(Ended, replayed)
          /\ Len(head.served) <= Len(tape.fixtures) /\ Len(head.served) <= Among(Ended, replayed)
          /\ Len(head.served) < Among(Ended, replayed) => Len(head.served) = Len(tape.fixtures)
      BY DEF ReplayCalls
    <2>5. CASE FixturesLeft
      <3> DEFINE x == [visit |-> visit, tool |-> answer.tool, fixture |-> NextFixture]
      <3>1. head'.served = Append(head.served, x)
        BY <1>6, <2>5 DEF CallStep
      <3>2. Len(head.served) < Len(tape.fixtures) /\ Len(head.served) = Among(Ended, replayed)
        BY <2>4, <2>5, <1>3 DEF FixturesLeft
      <3>3. x = [visit |-> Among(Entered, replayed), tool |-> answer.tool,
                 fixture |-> Among(Ended, replayed) + 1]
        BY <3>2 DEF NextFixture, ReplayVisits
      <3> HIDE DEF x
      <3>4. /\ Len(head'.served) = Len(head.served) + 1
            /\ head'.served[Len(head.served) + 1] = x
            /\ \A n \in 1 .. Len(head.served) : head'.served[n] = head.served[n]
        BY <3>1, <1>1
      <3>5. ServedInOrder'
        <4> SUFFICES ASSUME NEW i \in DOMAIN replayed', replayed'[i] \in Ended,
                            Up(Ended, replayed', i) <= Len(head'.served)
                     PROVE  head'.served[Up(Ended, replayed', i)] =
                              [visit |-> Up(Entered, replayed', i), tool |-> replayed'[i][3],
                               fixture |-> Up(Ended, replayed', i)]
          BY DEF ServedInOrder
        <4>1. CASE i \in 1 .. Len(replayed)
          <5>1. replayed[i] \in Ended /\ Up(Ended, replayed', i) = Up(Ended, replayed, i)
            <6>1. replayed'[i] = replayed[i] /\ i \in 0 .. Len(replayed)
              BY <4>1, <1>2 DEF Extends
            <6> QED BY <6>1, <1>1, <1>2, ExtendsCounts
          <5>2. Up(Ended, replayed', i) \in 1 .. Len(head.served)
            BY <5>1, <4>1, <1>1, <3>2, UpBelow
          <5>3. head.served[Up(Ended, replayed', i)] =
                  [visit |-> Up(Entered, replayed', i), tool |-> replayed'[i][3],
                   fixture |-> Up(Ended, replayed', i)]
            <6>1. Up(Ended, replayed', i) <= Len(head.served)
              BY <5>2, <1>3
            <6> QED BY <6>1, <4>1, <1>2, ServedKept
          <5> QED BY <5>2, <5>3, <3>4
        <4>2. CASE i \in Len(replayed) + 1 .. Len(replayed')
          <5>1. /\ replayed'[i][3] = answer.tool
                /\ Up(Ended, replayed', i) = Len(head.served) + 1
                /\ Up(Entered, replayed', i) = Among(Entered, replayed)
            BY <4>2, <2>2, <3>2
          <5> QED BY <5>1, <3>2, <3>3, <3>4
        <4> QED BY <4>1, <4>2, <1>4
      <3>6. Len(head'.served) = Among(Ended, replayed') /\ Len(head'.served) <= Len(tape'.fixtures)
        BY <3>2, <3>4, <2>2, <2>3, <1>3
      <3> QED BY <3>5, <3>6, <2>2, <2>4, <1>3 DEF ReplayCalls
    <2>6. CASE ~FixturesLeft
      <3>1. head'.served = head.served
        BY <1>6, <2>6 DEF CallStep
      <3>2. Len(head.served) = Len(tape.fixtures)
        BY <2>4, <2>6, <1>3 DEF FixturesLeft
      <3>3. ServedInOrder'
        <4> SUFFICES ASSUME NEW i \in DOMAIN replayed', replayed'[i] \in Ended,
                            Up(Ended, replayed', i) <= Len(head'.served)
                     PROVE  head'.served[Up(Ended, replayed', i)] =
                              [visit |-> Up(Entered, replayed', i), tool |-> replayed'[i][3],
                               fixture |-> Up(Ended, replayed', i)]
          BY DEF ServedInOrder
        <4>1. i \in 1 .. Len(replayed)
          <5> SUFFICES ASSUME i \in Len(replayed) + 1 .. Len(replayed')
                       PROVE  FALSE
            BY <1>4
          <5>1. Up(Ended, replayed', i) = Among(Ended, replayed) + 1
            BY <2>2
          <5> QED BY <5>1, <3>1, <2>4, <1>3
        <4> QED BY <4>1, <3>1, <1>2, ServedKept
      <3> QED BY <3>1, <3>2, <3>3, <2>2, <2>3, <2>4, <1>3 DEF ReplayCalls
    <2> QED BY <2>5, <2>6
  <1> QED BY <1>5, <1>6

-----------------------------------------------------------------------------
(* Who asks, and what is recorded of a visit.                              *)

LEMMA AsksKept ==
  ASSUME AsksModel, [ReplayNext]_replayVars
  PROVE  AsksModel'
  <1>1. \A keys, more : Fail(keys, more) => pc' = "ended"
    BY DEF Fail
  <1>2. \A keys, more : ToolError(keys, more) => pc' = "ended" \/ IsModel
    BY <1>1 DEF ToolError
  <1>3. \A more : RetryOrFail(more) => pc' \in {"asking", "ended"}
    BY <1>1 DEF RetryOrFail
  <1>4. \A result, masked, more :
          ToolEnds(result, masked, more) => pc' \in {"returned", "ended"} \/ IsModel
    BY <1>1, <1>2 DEF ToolEnds
  <1>5. CASE EnterStage
    <2>1. /\ UNCHANGED <<mode, stage, output, tape, head, missed>>
          /\ \/ Fail(<< >>, {})
             \/ IsModel
             \/ pc' = ToolPoint(Executes[stage])
      BY <1>5, Zenon DEF EnterStage
    <2>2. stage' = stage /\ (pc' \in {"ended", "policy", "tool"} \/ IsModel)
      BY <2>1, <1>1 DEF ToolPoint
    <2> QED BY <2>2 DEF AsksModel, IsModel
  <1>6. CASE ModelRaises
    <2>1. stage' = stage /\ IsModel
      BY <1>6 DEF ModelRaises, AsksModel
    <2> QED BY <2>1 DEF AsksModel, IsModel
  <1>7. ASSUME NEW a \in Offered, ModelAnswers(a)
        PROVE  AsksModel'
    <2>1. stage' = stage /\ IsModel
      BY <1>7 DEF ModelAnswers, AsksModel
    <2> QED BY <2>1 DEF AsksModel, IsModel
  <1>8. CASE ServeResponse
    <2>1. stage' = stage /\ IsModel
      BY <1>8 DEF ServeResponse, AsksModel
    <2> QED BY <2>1 DEF AsksModel, IsModel
  <1>9. CASE MissResponse \/ RefuseStubs
    BY <1>9, <1>1 DEF MissResponse, RefuseStubs, AsksModel
  <1>10. CASE Dispatch
    <2>1. stage' = stage /\ IsModel
      BY <1>10 DEF Dispatch, AsksModel
    <2> QED BY <2>1 DEF AsksModel, IsModel
  <1>11. CASE CheckPolicy
    <2>1. /\ UNCHANGED <<mode, stage, visit, stageVars, output, missed>>
          /\ \E keys, more : pc' = "tool" \/ ToolError(keys, more) \/ Fail(keys, more)
      BY <1>11, Zenon DEF CheckPolicy
    <2>2. stage' = stage /\ (pc' \in {"ended", "tool"} \/ IsModel)
      BY <2>1, <1>1, <1>2
    <2> QED BY <2>2 DEF AsksModel, IsModel
  <1>12. CASE CallTool
    <2>1. /\ stage' = stage
          /\ \E result, masked, more : ToolEnds(result, masked, more)
      BY <1>12 DEF CallTool
    <2>2. pc' \in {"returned", "ended"} \/ IsModel
      BY <2>1, <1>4
    <2> QED BY <2>1, <2>2 DEF AsksModel, IsModel
  <1>13. CASE ServeFixture
    <2>1. /\ stage' = stage
          /\ \E result, masked, more : ToolEnds(result, masked, more)
      BY <1>13 DEF ServeFixture
    <2>2. pc' \in {"returned", "ended"} \/ IsModel
      BY <2>1, <1>4
    <2> QED BY <2>1, <2>2 DEF AsksModel, IsModel
  <1>14. CASE OutputInvalid
    <2>1. stage' = stage /\ (IsModel \/ Fail(<< >>, {}))
      BY <1>14 DEF OutputInvalid
    <2>2. pc' = "ended" \/ IsModel
      BY <2>1, <1>1
    <2> QED BY <2>1, <2>2 DEF AsksModel, IsModel
  <1>15. CASE CompleteStage
    <2>1. pc' = "after"
      BY <1>15, Zenon DEF CompleteStage
    <2> QED BY <2>1 DEF AsksModel
  <1>16. CASE Leave
    <2>1. pc' \in {"ended", "loop"}
      BY <1>16, <1>1 DEF Leave
    <2> QED BY <2>1 DEF AsksModel
  <1>17. CASE Unlock
    BY <1>17 DEF Unlock, AsksModel
  <1>18. CASE UNCHANGED replayVars
    BY <1>18 DEF replayVars, AsksModel, IsModel
  <1> QED BY <1>5, <1>6, <1>7, <1>8, <1>9, <1>10, <1>11, <1>12, <1>13, <1>14, <1>15, <1>16,
             <1>17, <1>18 DEF ReplayNext, ReplayStep

\* A visit is recorded when it ends, and not before.
VisitOpen ==
  Live => \A i \in DOMAIN tape.snapshots :
            /\ tape.snapshots[i].visit <= visit
            /\ pc \in {"asking", "dispatch", "policy", "tool", "returned"} =>
                 tape.snapshots[i].visit # visit

LEMMA OpenKept ==
  ASSUME ReplayTypes, Live, VisitOpen, CountedStep
  PROVE  VisitOpen'
  <1>1. tape.snapshots \in Seq(Snapshots) /\ visit \in Nat
    BY TypesUnfolded, Typed DEF Tapes
  <1>2. \A i \in DOMAIN tape.snapshots : tape.snapshots[i].visit \in Nat
    <2> TAKE i \in DOMAIN tape.snapshots
    <2>1. tape.snapshots[i] \in Snapshots
      BY <1>1
    <2> QED BY <2>1 DEF Snapshots
  <1>3. \A i \in DOMAIN tape.snapshots :
          /\ tape.snapshots[i].visit <= visit
          /\ pc \in {"asking", "dispatch", "policy", "tool", "returned"} =>
               tape.snapshots[i].visit # visit
    BY DEF VisitOpen
  <1>4. CASE VisitsSame /\ visit' = visit /\ (pc' \in {"loop", "ended", "after"} \/
                                              pc \in {"asking", "dispatch", "policy", "tool", "returned"})
    BY <1>3, <1>4 DEF VisitOpen, VisitsSame
  <1>5. CASE VisitsSame /\ visit' = visit + 1
    <2>1. \A i \in DOMAIN tape.snapshots :
            tape.snapshots[i].visit <= visit + 1 /\ tape.snapshots[i].visit # visit + 1
      BY <1>1, <1>2, <1>3
    <2> QED BY <1>5, <2>1 DEF VisitOpen, VisitsSame
  <1>6. CASE VisitRecorded /\ visit' = visit
    <2>1. PICK r \in Snapshots : r.visit = visit /\ tape'.snapshots = Append(tape.snapshots, r)
      BY <1>6 DEF VisitRecorded
    <2>2. pc' = "after"
      BY <1>6 DEF VisitRecorded
    <2>3. \A i \in DOMAIN tape'.snapshots : tape'.snapshots[i].visit <= visit
      BY <2>1, <1>1, <1>3
    <2> QED BY <2>2, <2>3, <1>6 DEF VisitOpen
  <1>7. CASE QuietStep
    <2>1. /\ visit' = visit /\ (VisitsSame \/ VisitRecorded)
          /\ pc \in Points /\ pc \notin {"ended", "tool"} /\ (pc' # "ended" => pc \notin {"loop", "after"})
      BY <1>7, PointUnfolded DEF QuietStep, Here, PointTyped
    <2>2. pc' \in {"loop", "ended", "after"} \/
            pc \in {"asking", "dispatch", "policy", "tool", "returned"}
      BY <2>1 DEF Points
    <2> QED BY <2>1, <2>2, <1>4, <1>6
  <1>8. CASE SilentStep
    BY <1>8, <1>4 DEF SilentStep, Here
  <1>9. CASE EnterStep
    BY <1>9, <1>5 DEF EnterStep
  <1>10. CASE LeaveStep
    BY <1>10, <1>4 DEF LeaveStep
  <1>11. CASE TakeStep
    BY <1>11, <1>4 DEF TakeStep, Here
  <1>12. CASE CallStep
    BY <1>12, <1>4 DEF CallStep, Here
  <1> QED BY <1>7, <1>8, <1>9, <1>10, <1>11, <1>12 DEF CountedStep

-----------------------------------------------------------------------------
(* Turns: what follows what.                                               *)

\* Two sequences joined, seen from the seam.
LEMMA Seam ==
  ASSUME NEW s \in Seq(Milestones), NEW keys \in Seq(Milestones), keys # << >>
  PROVE  /\ s \o keys \in Seq(Milestones) /\ Len(s \o keys) = Len(s) + Len(keys)
         /\ Extends(s, s \o keys)
         /\ s \o keys # << >>
         /\ (s \o keys)[Len(s) + 1] = keys[1]
         /\ (s \o keys)[Len(s \o keys)] = keys[Len(keys)]
         /\ \A i \in 1 .. Len(keys) : (s \o keys)[Len(s) + i] = keys[i]
  <1>0. Len(s) \in Nat /\ Len(keys) \in Nat /\ Len(keys) >= 1
    OBVIOUS
  <1>1. /\ s \o keys \in Seq(Milestones) /\ Len(s \o keys) = Len(s) + Len(keys)
        /\ \A i \in 1 .. Len(s) + Len(keys) :
             (s \o keys)[i] = IF i <= Len(s) THEN s[i] ELSE keys[i - Len(s)]
    BY Joins
  <1> DEFINE t == s \o keys
  <1> HIDE DEF t
  <1>2. \A i \in 1 .. Len(keys) : t[Len(s) + i] = keys[i]
    <2> TAKE i \in 1 .. Len(keys)
    <2>1. Len(s) + i \in 1 .. Len(s) + Len(keys) /\ ~(Len(s) + i <= Len(s))
          /\ (Len(s) + i) - Len(s) = i
      BY <1>0
    <2> QED BY <2>1, <1>1 DEF t
  <1>3. Len(t) = Len(s) + Len(keys) /\ t \in Seq(Milestones)
    BY <1>1 DEF t
  <1>4. t[Len(s) + 1] = keys[1] /\ t[Len(t)] = keys[Len(keys)]
    <2>1. 1 \in 1 .. Len(keys) /\ Len(keys) \in 1 .. Len(keys)
      BY <1>0
    <2> QED BY <2>1, <1>2, <1>3
  <1>5. Extends(s, t)
    <2>1. \A i \in 1 .. Len(s) : t[i] = s[i]
      <3> TAKE i \in 1 .. Len(s)
      <3>1. i \in 1 .. Len(s) + Len(keys) /\ i <= Len(s)
        BY <1>0
      <3> QED BY <3>1, <1>1 DEF t
    <2> QED BY <2>1, <1>0, <1>3 DEF Extends
  <1>6. t # << >>
    BY <1>0, <1>3
  <1> QED BY <1>2, <1>3, <1>4, <1>5, <1>6 DEF t

LEMMA EmitsAll ==
  ASSUME Live, NEW keys, NEW more, Emits(keys, more), Omitted \/ ~Omitted'
  PROVE  ledger' = ledger \o keys
  BY DEF Emits, Omitted

LEMMA EmitsMore ==
  ASSUME NEW keys, NEW more, Emits(keys, more)
  PROVE  flaws \subseteq flaws'
  BY DEF Emits

\* Every step but a silent one emits a chain.
LEMMA CountedEmits ==
  ASSUME CountedStep, ~SilentStep
  PROVE  \E keys : Emitted(keys)
  BY DEF CountedStep, QuietStep, QuietlyEmitted, EnterStep, LeaveStep, TakeStep, CallStep

\* A milestone that asks comes right before the asking.
AskingLast ==
  Live /\ pc = "asking" /\ ~Omitted => ledger # << >> /\ ledger[Len(ledger)] \in Asking

LEMMA LastKept ==
  ASSUME ReplayTypes, Live, CountedStep
  PROVE  AskingLast'
  <1> SUFFICES ASSUME pc' = "asking", ~Omitted'
               PROVE  ledger' # << >> /\ ledger'[Len(ledger')] \in Asking
    BY DEF AskingLast
  <1>1. ~SilentStep
    BY DEF SilentStep
  <1>2. PICK keys : Emitted(keys)
    BY <1>1, CountedEmits
  <1>3. keys \in Seq(Milestones) /\ keys # << >> /\ keys[Len(keys)] \in Asking
    BY <1>2 DEF Emitted, Chain
  <1>4. ledger' = ledger \o keys
    BY <1>2, EmitsAll DEF Emitted
  <1>5. ledger \in Seq(Milestones)
    BY Typed DEF LedgerTyped
  <1> QED BY <1>3, <1>4, <1>5, Seam

-----------------------------------------------------------------------------
(* The ledger and the tapes: responses.                                    *)

Given(s) == {i \in DOMAIN tape.responses : tape.responses[i].stage = s}

\* The model has answered stage s in this visit, and the next milestone will
\* tell, by not being that answer.
Pending(s) ==
  /\ Live /\ pc \in {"dispatch", "policy", "tool", "returned"} /\ stage = s
  /\ ledger # << >> /\ ledger[Len(ledger)] \in Asking
  /\ \E i \in Given(s) : tape.responses[i].visit = visit

\* The answer is missing where the ledger says that it was asked for.
Broken ==
  \E i \in 1 .. Len(ledger) - 1 : ledger[i] \in Asking /\ ledger[i + 1] \notin Reply

\* The run ended in the visit, so that no stage gets the response back.
Lost(s) ==
  /\ Live => pc = "ended"
  /\ \E i \in Given(s) : ~Recorded(tape.responses[i].visit)

Unsaid(s) == Pending(s) \/ Broken \/ Lost(s)

\* Of the responses at most one is not told, and that one shows.
AnswersKept ==
  \A s \in Stages :
    \/ Among(Told(s), ledger) = Cardinality(Given(s))
    \/ Omitted /\ Among(Told(s), ledger) = Cardinality(Given(s)) - 1 /\ Unsaid(s)

LEMMA GivenTyped ==
  ASSUME ReplayTypes, NEW s
  PROVE  IsFiniteSet(Given(s)) /\ Cardinality(Given(s)) \in Nat
  <1>1. tape.responses \in Seq(Responses)
    BY TypesUnfolded DEF Tapes
  <1>2. Given(s) \subseteq 1 .. Len(tape.responses) /\ Len(tape.responses) \in Nat
    BY <1>1 DEF Given
  <1>3. IsFiniteSet(1 .. Len(tape.responses))
    BY <1>2, FS_Interval
  <1> QED BY <1>2, <1>3, FS_Subset, FS_CardinalityType

\* Only a response is told as one.
LEMMA ToldSame ==
  ASSUME ReplayTypes, CountedStep, ~TakeStep, NEW s \in Stages
  PROVE  /\ Live => Among(Told(s), ledger') = Among(Told(s), ledger) /\ Extends(ledger, ledger')
         /\ ~Live => Among(Told(s), replayed') = Among(Told(s), replayed)
  <1>1. ledger \in Seq(Milestones) /\ replayed \in Seq(Milestones) /\ stage \in Stages
    BY Typed DEF LedgerTyped
  <1>2. /\ Among(Told(s), ledger) \in Nat /\ Among(Told(s), replayed) \in Nat
        /\ Extends(ledger, ledger)
    BY <1>1, AmongTyped, SameExtends
  <1>3. ASSUME NEW k \in Milestones, k \notin Told(s), Emitted(<<k>>)
        PROVE  /\ Live => Among(Told(s), ledger') = Among(Told(s), ledger) /\ Extends(ledger, ledger')
               /\ ~Live => Among(Told(s), replayed') = Among(Told(s), replayed)
    <2>1. \A t \in Seq(Milestones) :
            /\ Extends(t, Append(t, k))
            /\ Among(Told(s), Append(t, k)) = Among(Told(s), t) + 0
      BY <1>3, AppendCounts
    <2>2. CASE Live
      <3>1. \E more : Emits(<<k>>, more)
        BY <1>3 DEF Emitted
      <3>2. ledger' = Append(ledger, k) \/ ledger' = ledger
        BY <3>1, <2>2, <1>1, EmitOne DEF Wrote
      <3>3. Extends(ledger, Append(ledger, k))
            /\ Among(Told(s), Append(ledger, k)) = Among(Told(s), ledger)
        BY <2>1, <1>1, <1>2
      <3> QED BY <2>2, <3>2, <3>3, <1>2
    <2>3. CASE ~Live
      <3>1. replayed' = Append(replayed, k)
        BY <1>3, <2>3, ReplayEmits
      <3> QED BY <2>1, <2>3, <3>1, <1>1, <1>2
    <2> QED BY <2>2, <2>3
  <1>4. CASE QuietStep
    <2>1. PICK keys \in Seq(Quiet) : Emitted(keys)
      BY <1>4 DEF QuietStep, QuietlyEmitted
    <2>2. /\ Live => Quietly(ledger, ledger')
          /\ ~Live => Quietly(replayed, replayed')
      BY <2>1, EmitQuiet DEF Emitted
    <2> QED BY <2>2 DEF Quietly, Counts
  <1>5. CASE SilentStep
    BY <1>5, <1>2 DEF SilentStep
  <1>6. CASE EnterStep
    <2>1. EnterKey \in Milestones /\ EnterKey \notin Told(s) /\ Emitted(<<EnterKey>>)
      BY <1>1, <1>6, CountedKeys DEF EnterStep
    <2> QED BY <2>1, <1>3
  <1>7. CASE LeaveStep
    <2>1. PICK to \in Stages : Emitted(<<Key("transition_selected", to)>>)
      BY <1>7 DEF LeaveStep
    <2>2. Key("transition_selected", to) \in Milestones
          /\ Key("transition_selected", to) \notin Told(s)
      BY <1>1, CountedKeys
    <2> QED BY <2>1, <2>2, <1>3
  <1>8. CASE CallStep
    <2>1. CASE Live
      BY <1>8, <2>1, CallTold DEF Grown
    <2>2. CASE ~Live
      BY <1>8, <2>2, ReplayGrows DEF Grown
    <2> QED BY <2>1, <2>2
  <1> QED BY <1>4, <1>5, <1>6, <1>7, <1>8 DEF CountedStep

LEMMA UnsaidKept ==
  ASSUME ReplayTypes, ReplayTypes', Live, Omitted, VisitOpen, CountedStep, ~TakeStep,
         NEW s \in Stages, Unsaid(s)
  PROVE  Unsaid(s)'
  <1>1. ledger \in Seq(Milestones) /\ ledger' \in Seq(Milestones) /\ Len(ledger) \in Nat
    BY DEF ReplayTypes
  <1>2. tape'.responses = tape.responses /\ Given(s)' = Given(s) /\ Live' /\ pc # "ended"
    BY DEF CountedStep, QuietStep, SilentStep, EnterStep, LeaveStep, CallStep, TakesKept, Given,
           Here, Live
  <1>3. CASE Broken
    <2>1. Extends(ledger, ledger')
      BY ToldSame
    <2>2. PICK i \in 1 .. Len(ledger) - 1 : ledger[i] \in Asking /\ ledger[i + 1] \notin Reply
      BY <1>3 DEF Broken
    <2>3. /\ i \in 1 .. Len(ledger') - 1 /\ ledger'[i] = ledger[i] /\ ledger'[i + 1] = ledger[i + 1]
      BY <2>1, <1>1 DEF Extends
    <2> QED BY <2>2, <2>3 DEF Unsaid, Broken
  <1>4. CASE Pending(s) /\ SilentStep
    <2>1. /\ ledger' = ledger /\ visit' = visit /\ stage' = stage /\ pc' \in {"policy", "tool"}
      BY <1>4 DEF SilentStep, Here
    <2>2. Pending(s)'
      BY <1>2, <1>4, <2>1 DEF Pending
    <2> QED BY <2>2 DEF Unsaid
  <1>5. CASE Pending(s) /\ ~SilentStep
    <2>1. PICK keys : Emitted(keys)
      BY <1>5, CountedEmits
    <2>2. /\ keys \in Seq(Milestones) /\ keys # << >>
          /\ pc' # "ended" => keys[1] \notin Reply
      BY <1>5, <2>1 DEF Emitted, Chain, Pending
    <2>3. ledger' = ledger \o keys
      BY <2>1, EmitsAll DEF Emitted
    <2>4. CASE pc' # "ended"
      <3>1. /\ Len(ledger') = Len(ledger) + Len(keys) /\ Len(keys) \in Nat /\ Len(keys) >= 1
            /\ Extends(ledger, ledger') /\ ledger'[Len(ledger) + 1] = keys[1]
        BY <2>2, <2>3, <1>1, Seam
      <3>2. Len(ledger) >= 1 /\ ledger[Len(ledger)] \in Asking
        BY <1>1, <1>5 DEF Pending
      <3>3. /\ Len(ledger) \in 1 .. Len(ledger') - 1 /\ ledger'[Len(ledger)] = ledger[Len(ledger)]
        BY <3>1, <3>2, <1>1 DEF Extends
      <3> QED BY <2>2, <2>4, <3>1, <3>2, <3>3 DEF Unsaid, Broken
    <2>5. CASE pc' = "ended"
      <3>1. tape'.snapshots = tape.snapshots
        BY <1>5, <2>5 DEF CountedStep, QuietStep, EnterStep, LeaveStep, CallStep, VisitsSame,
                          VisitRecorded
      <3>2. \A v : Recorded(v)' <=> Recorded(v)
        BY <3>1 DEF Recorded
      <3>3. ~Recorded(visit)
        BY <1>5 DEF VisitOpen, Pending, Recorded
      <3>4. \E i \in Given(s) : tape.responses[i].visit = visit
        BY <1>5 DEF Pending
      <3>5. Lost(s)'
        BY <2>5, <3>2, <3>3, <3>4, <1>2 DEF Lost
      <3> QED BY <3>5 DEF Unsaid
    <2> QED BY <2>4, <2>5
  <1>6. ~Lost(s)
    BY <1>2 DEF Lost
  <1> QED BY <1>3, <1>4, <1>5, <1>6 DEF Unsaid

\* A response arrives.
LEMMA TakeAnswers ==
  ASSUME ReplayTypes, ReplayTypes', Live, AskingLast, AnswersKept, TakeStep
  PROVE  AnswersKept'
  <1>1. /\ ledger \in Seq(Milestones) /\ ledger' \in Seq(Milestones) /\ stage \in Stages
        /\ tape.responses \in Seq(Responses)
    BY TypesUnfolded, Typed DEF ReplayTypes, Tapes
  <1>2. PICK r \in Responses : /\ tape'.responses = Append(tape.responses, r)
                               /\ r.visit = visit /\ r.stage = stage
    BY DEF TakeStep
  <1>3. /\ Emitted(<<TakeKey>>) /\ pc = "asking" /\ pc' \in {"dispatch", "returned"}
        /\ visit' = visit /\ stage' = stage /\ Live'
    BY DEF TakeStep, Here, Live
  <1>4. TakeKey \in Milestones /\ \A s \in Stages : TakeKey \in Told(s) <=> s = stage
    BY <1>1, CountedKeys
  <1>5. PICK more : Emits(<<TakeKey>>, more)
    BY <1>3 DEF Emitted
  <1>6. flaws \subseteq flaws'
    BY <1>5, EmitsMore
  <1> DEFINE n == Len(tape.responses) + 1
  <1>7. /\ n \in DOMAIN tape'.responses /\ tape'.responses[n] = r /\ n \notin DOMAIN tape.responses
        /\ DOMAIN tape'.responses = DOMAIN tape.responses \union {n}
        /\ \A i \in DOMAIN tape.responses : tape'.responses[i] = tape.responses[i]
    BY <1>1, <1>2
  <1> HIDE DEF n
  <1>8. Given(stage)' = Given(stage) \union {n} /\ n \notin Given(stage) /\ n \in Given(stage)'
    BY <1>2, <1>3, <1>7 DEF Given
  <1>9. \A s \in Stages : s # stage => Given(s)' = Given(s)
    BY <1>2, <1>7 DEF Given
  <1>10. Cardinality(Given(stage)') = Cardinality(Given(stage)) + 1
    <2>1. IsFiniteSet(Given(stage))
      BY GivenTyped
    <2> QED BY <1>8, <2>1, FS_AddElement
  <1>11. \A s \in Stages : Cardinality(Given(s)) \in Nat /\ Among(Told(s), ledger) \in Nat
    BY <1>1, GivenTyped, AmongTyped
  <1>12. Extends(ledger, ledger')
    <2>1. \/ ledger' = Append(ledger, TakeKey)
          \/ ledger' = ledger
      BY <1>1, <1>4, <1>5, EmitOne DEF Wrote
    <2>2. Extends(ledger, ledger) /\ Extends(ledger, Append(ledger, TakeKey))
      BY <1>1, <1>4, AppendCounts, SameExtends
    <2> QED BY <2>1, <2>2
  <1>13. Broken => Broken'
    <2> HAVE Broken
    <2>1. PICK i \in 1 .. Len(ledger) - 1 : ledger[i] \in Asking /\ ledger[i + 1] \notin Reply
      BY DEF Broken
    <2>2. /\ i \in 1 .. Len(ledger') - 1 /\ ledger'[i] = ledger[i] /\ ledger'[i + 1] = ledger[i + 1]
      BY <1>1, <1>12 DEF Extends
    <2> QED BY <2>1, <2>2 DEF Broken
  <1>14. CASE ledger' = Append(ledger, TakeKey)
    <2>1. \A s \in Stages :
            Among(Told(s), ledger') = Among(Told(s), ledger) + (IF s = stage THEN 1 ELSE 0)
      BY <1>14, <1>1, <1>4, AppendCounts
    <2>2. ASSUME NEW s \in Stages
          PROVE  Among(Told(s), ledger') - Among(Told(s), ledger) =
                   Cardinality(Given(s)') - Cardinality(Given(s))
      <3>1. CASE s = stage
        BY <3>1, <2>1, <1>3, <1>10, <1>11
      <3>2. CASE s # stage
        BY <3>2, <2>1, <1>9, <1>11
      <3> QED BY <3>1, <3>2
    <2>3. ASSUME NEW s \in Stages
          PROVE  Among(Told(s), ledger') \in Nat /\ Cardinality(Given(s)') \in Nat
      <3>1. Among(Told(s), ledger') \in Nat
        BY <1>1, AmongTyped
      <3>2. Cardinality(Given(s)') \in Nat
        <4>1. CASE s = stage
          BY <4>1, <1>3, <1>10, <1>11
        <4>2. CASE s # stage
          BY <4>2, <1>9, <1>11
        <4> QED BY <4>1, <4>2
      <3> QED BY <3>1, <3>2
    <2>4. ASSUME NEW s \in Stages
          PROVE  \/ Among(Told(s), ledger') = Cardinality(Given(s)')
                 \/ Omitted' /\ Among(Told(s), ledger') = Cardinality(Given(s)') - 1 /\ Unsaid(s)'
      <3>1. CASE Among(Told(s), ledger) = Cardinality(Given(s))
        BY <3>1, <2>2, <2>3, <1>11
      <3>2. CASE Omitted /\ Among(Told(s), ledger) = Cardinality(Given(s)) - 1 /\ Unsaid(s)
        <4>1. Broken
          BY <3>2, <1>3 DEF Unsaid, Pending, Lost
        <4>2. Unsaid(s)' /\ Omitted'
          BY <4>1, <3>2, <1>6, <1>13 DEF Unsaid, Omitted
        <4>3. Among(Told(s), ledger') = Cardinality(Given(s)') - 1
          BY <3>2, <2>2, <2>3, <1>11
        <4> QED BY <4>2, <4>3
      <3> QED BY <3>1, <3>2 DEF AnswersKept
    <2> QED BY <2>4 DEF AnswersKept
  <1>15. CASE ~Omitted /\ Omitted' /\ ledger' = ledger
    <2>1. \A s \in Stages : Among(Told(s), ledger') = Cardinality(Given(s))
      BY <1>15 DEF AnswersKept
    <2>2. Pending(stage)'
      <3>1. ledger' # << >> /\ ledger'[Len(ledger')] \in Asking
        BY <1>3, <1>15 DEF AskingLast
      <3>2. tape'.responses[n].visit = visit'
        BY <1>2, <1>3, <1>7
      <3>3. \E i \in Given(stage)' : tape'.responses[i].visit = visit'
        BY <3>2, <1>8
      <3> QED BY <3>1, <3>3, <1>3 DEF Pending
    <2>3. Among(Told(stage), ledger') = Cardinality(Given(stage)') - 1
      BY <2>1, <1>1, <1>10, <1>11
    <2>4. Unsaid(stage)'
      BY <2>2 DEF Unsaid
    <2>5. ASSUME NEW s \in Stages
          PROVE  \/ Among(Told(s), ledger') = Cardinality(Given(s)')
                 \/ Omitted' /\ Among(Told(s), ledger') = Cardinality(Given(s)') - 1 /\ Unsaid(s)'
      <3>1. CASE s = stage
        BY <3>1, <2>3, <2>4, <1>3, <1>15
      <3>2. CASE s # stage
        BY <3>2, <2>1, <1>9
      <3> QED BY <3>1, <3>2
    <2> QED BY <2>5 DEF AnswersKept
  <1>16. \/ ledger' = Append(ledger, TakeKey)
         \/ ~Omitted /\ Omitted' /\ ledger' = ledger
    BY <1>1, <1>4, <1>5, EmitOne DEF Wrote, Omits, Omitted
  <1> QED BY <1>14, <1>15, <1>16

LEMMA AnswersStep ==
  ASSUME ReplayTypes, ReplayTypes', AsksModel, VisitOpen, AskingLast, AnswersKept,
         [ReplayNext]_replayVars
  PROVE  AnswersKept' /\ VisitOpen' /\ AskingLast'
  <1>1. CASE UNCHANGED replayVars
    BY <1>1 DEF replayVars, AnswersKept, VisitOpen, AskingLast, Unsaid, Pending, Broken, Lost,
                Given, Recorded, Omitted, Live
  <1>2. CASE Live /\ CountedStep
    <2>1. AnswersKept'
      <3>1. CASE TakeStep
        BY <1>2, <3>1, TakeAnswers
      <3>2. CASE ~TakeStep
        <4> SUFFICES ASSUME NEW s \in Stages
                     PROVE  \/ Among(Told(s), ledger') = Cardinality(Given(s)')
                            \/ /\ Omitted' /\ Among(Told(s), ledger') = Cardinality(Given(s)') - 1
                               /\ Unsaid(s)'
          BY DEF AnswersKept
        <4>1. Among(Told(s), ledger') = Among(Told(s), ledger)
          BY <1>2, <3>2, ToldSame
        <4>2. Given(s)' = Given(s)
          BY <1>2, <3>2 DEF CountedStep, QuietStep, SilentStep, EnterStep, LeaveStep, CallStep,
                            TakesKept, Given
        <4>3. Omitted => Omitted'
          <5>1. CASE SilentStep
            BY <5>1 DEF SilentStep, Omitted
          <5>2. CASE ~SilentStep
            BY <5>2, <1>2, CountedEmits, EmitsMore DEF Emitted, Omitted
          <5> QED BY <5>1, <5>2
        <4>4. Omitted /\ Unsaid(s) => Unsaid(s)'
          BY <1>2, <3>2, UnsaidKept
        <4> QED BY <4>1, <4>2, <4>3, <4>4 DEF AnswersKept
      <3> QED BY <3>1, <3>2
    <2> QED BY <2>1, <1>2, OpenKept, LastKept
  <1>3. CASE ~Live /\ ReplayNext
    <2>1. tape' = tape /\ ledger' = ledger /\ flaws' = flaws /\ mode' = mode
      BY <1>3, ReplayReads
    <2>2. \A s \in Stages : Unsaid(s) => Unsaid(s)'
      BY <1>3, <2>1 DEF Unsaid, Pending, Broken, Lost, Given, Recorded, Live
    <2>3. \A s \in Stages : Given(s)' = Given(s)
      BY <2>1 DEF Given
    <2> QED BY <1>3, <2>1, <2>2, <2>3 DEF AnswersKept, Omitted, VisitOpen, AskingLast, Live
  <1>4. CASE Unlock
    <2>1. /\ Live /\ ~Live' /\ pc = "ended" /\ tape' = tape /\ ledger' = ledger /\ flaws' = flaws
      BY <1>4 DEF Unlock, Live
    <2>2. \A s \in Stages : Unsaid(s) => Unsaid(s)'
      BY <2>1 DEF Unsaid, Pending, Broken, Lost, Given, Recorded
    <2>3. \A s \in Stages : Given(s)' = Given(s)
      BY <2>1 DEF Given
    <2> QED BY <2>1, <2>2, <2>3 DEF AnswersKept, Omitted, VisitOpen, AskingLast
  <1> QED BY <1>1, <1>2, <1>3, <1>4, StepsCounted DEF ReplayNext

LEMMA AnswersBegin ==
  ASSUME ReplayInit
  PROVE  AnswersKept /\ VisitOpen /\ AskingLast /\ AsksModel
  <1> DEFINE k == <<"run_started">>
  <1>1. /\ pc = "loop" /\ ledger = <<k>> /\ tape.responses = << >> /\ tape.snapshots = << >>
    BY DEF ReplayInit
  <1>2. k[1] = "run_started"
    OBVIOUS
  <1> HIDE DEF k
  <1>3. \A s \in Stages : Among(Told(s), ledger) = 0
    <2> TAKE s \in Stages
    <2>1. k \notin Told(s)
      BY <1>2, CountedKinds
    <2>2. {i \in 1 .. 1 : ledger[i] \in Told(s)} = {} /\ Len(ledger) = 1
      BY <1>1, <2>1
    <2> QED BY <2>2, FS_EmptySet DEF Among, Up
  <1>4. \A s \in Stages : Cardinality(Given(s)) = 0
    <2> TAKE s \in Stages
    <2>1. Given(s) = {}
      BY <1>1 DEF Given
    <2> QED BY <2>1, FS_EmptySet
  <1> QED BY <1>1, <1>3, <1>4 DEF AnswersKept, VisitOpen, AskingLast, AsksModel

-----------------------------------------------------------------------------
(* The replay: responses.                                                  *)

\* What asks the model is answered at once.
Answered == \A i \in 1 .. Len(replayed) - 1 : replayed[i] \in Asking => replayed[i + 1] \in Reply

ReplayAnswers ==
  /\ \A s \in Stages : /\ head.asked[s] \subseteq Queue(s)
                       /\ Cardinality(head.asked[s]) = Among(Told(s), replayed)
  /\ Answered
  /\ replayed # << >> /\ (replayed[Len(replayed)] \in Asking => pc = "asking")

LEMMA QueueFinite ==
  ASSUME ReplayTypes, NEW s
  PROVE  Queue(s) \subseteq Given(s) /\ IsFiniteSet(Queue(s))
  <1>1. Queue(s) \subseteq Given(s)
    BY DEF Queue, Given
  <1> QED BY <1>1, GivenTyped, FS_Subset

LEMMA AnsweredStep ==
  ASSUME ReplayTypes, ~Live, ReplayAnswers, CountedStep
  PROVE  Answered' /\ replayed' # << >> /\ (replayed'[Len(replayed')] \in Asking => pc' = "asking")
  <1>1. replayed \in Seq(Milestones) /\ Len(replayed) \in Nat /\ Len(replayed) >= 1
    BY Typed DEF ReplayAnswers
  <1>2. CASE SilentStep
    BY <1>2 DEF SilentStep, ReplayAnswers, Answered
  <1>3. CASE ~SilentStep
    <2>1. PICK keys : Emitted(keys)
      BY <1>3, CountedEmits
    <2>2. /\ keys \in Seq(Milestones) /\ keys # << >>
          /\ \A i \in 1 .. Len(keys) - 1 : keys[i] \notin Asking
          /\ pc = "asking" => keys[1] \in Reply
          /\ keys[Len(keys)] \in Asking => pc' = "asking"
      BY <2>1 DEF Emitted, Chain
    <2>3. replayed' = replayed \o keys
      BY <2>1, ReplayEmits
    <2>4. /\ Len(replayed') = Len(replayed) + Len(keys) /\ Extends(replayed, replayed')
          /\ replayed' # << >> /\ replayed'[Len(replayed) + 1] = keys[1]
          /\ replayed'[Len(replayed')] = keys[Len(keys)]
          /\ \A i \in 1 .. Len(keys) : replayed'[Len(replayed) + i] = keys[i]
          /\ Len(keys) \in Nat /\ Len(keys) >= 1
      BY <2>2, <2>3, <1>1, Seam
    <2>5. ASSUME NEW i \in 1 .. Len(replayed') - 1, replayed'[i] \in Asking
          PROVE  replayed'[i + 1] \in Reply
      <3>1. CASE i <= Len(replayed) - 1
        <4>1. i \in 1 .. Len(replayed) - 1 /\ i \in 1 .. Len(replayed) /\ i + 1 \in 1 .. Len(replayed)
          BY <3>1, <1>1
        <4>2. replayed'[i] = replayed[i] /\ replayed'[i + 1] = replayed[i + 1]
          BY <4>1, <2>4 DEF Extends
        <4> QED BY <4>1, <4>2, <2>5 DEF ReplayAnswers, Answered
      <3>2. CASE i = Len(replayed)
        <4>1. i \in 1 .. Len(replayed) /\ replayed'[i] = replayed[i]
          BY <3>2, <1>1, <2>4 DEF Extends
        <4>2. pc = "asking"
          BY <4>1, <3>2, <2>5 DEF ReplayAnswers
        <4> QED BY <4>2, <3>2, <2>2, <2>4
      <3>3. CASE i > Len(replayed)
        <4>1. i - Len(replayed) \in 1 .. Len(keys) - 1 /\ i - Len(replayed) \in 1 .. Len(keys)
              /\ Len(replayed) + (i - Len(replayed)) = i
          BY <3>3, <1>1, <2>4
        <4>2. replayed'[i] = keys[i - Len(replayed)]
          BY <4>1, <2>4
        <4> QED BY <4>1, <4>2, <2>2, <2>5
      <3> QED BY <3>1, <3>2, <3>3, <1>1
    <2> QED BY <2>2, <2>4, <2>5 DEF Answered
  <1> QED BY <1>2, <1>3

LEMMA AskedStep ==
  ASSUME ReplayTypes, ~Live, ReplayAnswers, CountedStep, tape' = tape
  PROVE  ReplayAnswers'
  <1>1. Answered' /\ replayed' # << >> /\ (replayed'[Len(replayed')] \in Asking => pc' = "asking")
    BY AnsweredStep
  <1>2. \A s \in Stages : Queue(s)' = Queue(s)
    BY DEF Queue, Recorded
  <1>3. \A s \in Stages : /\ head.asked[s] \subseteq Queue(s)
                          /\ Cardinality(head.asked[s]) = Among(Told(s), replayed)
    BY DEF ReplayAnswers
  <1>4. CASE ~TakeStep
    <2>1. \A s \in Stages : Among(Told(s), replayed') = Among(Told(s), replayed)
      BY <1>4, ToldSame
    <2>2. head'.asked = head.asked
      BY <1>4 DEF CountedStep, QuietStep, SilentStep, EnterStep, LeaveStep, CallStep, TakesKept
    <2> QED BY <1>1, <1>2, <1>3, <2>1, <2>2 DEF ReplayAnswers
  <1>5. CASE TakeStep
    <2>1. replayed \in Seq(Milestones) /\ stage \in Stages /\ head.asked \in [Stages -> SUBSET Nat]
      BY Typed, TypesUnfolded DEF Heads
    <2>2. PICK i \in Waiting(stage) : head'.asked = [head.asked EXCEPT ![stage] = @ \union {i}]
      BY <1>5 DEF TakeStep
    <2>3. TakeKey \in Milestones /\ \A s \in Stages : TakeKey \in Told(s) <=> s = stage
      BY <2>1, CountedKeys
    <2>4. replayed' = Append(replayed, TakeKey)
      BY <1>5, <2>3, ReplayEmits DEF TakeStep
    <2>5. \A s \in Stages :
            Among(Told(s), replayed') = Among(Told(s), replayed) + (IF s = stage THEN 1 ELSE 0)
      BY <2>1, <2>3, <2>4, AppendCounts
    <2>6. i \in Queue(stage) /\ i \notin head.asked[stage]
      BY <2>2 DEF Waiting
    <2>7. IsFiniteSet(head.asked[stage])
      BY <2>1, <1>3, QueueFinite, FS_Subset
    <2>8. Cardinality(head.asked[stage] \union {i}) = Cardinality(head.asked[stage]) + 1
      BY <2>6, <2>7, FS_AddElement
    <2>9. \A s \in Stages : head'.asked[s] = IF s = stage THEN head.asked[stage] \union {i}
                                            ELSE head.asked[s]
      BY <2>1, <2>2
    <2>10. \A s \in Stages : Among(Told(s), replayed) \in Nat
      BY <2>1, AmongTyped
    <2>11. ASSUME NEW s \in Stages
           PROVE  /\ head'.asked[s] \subseteq Queue(s)
                  /\ Cardinality(head'.asked[s]) = Among(Told(s), replayed')
      <3>1. CASE s = stage
        BY <3>1, <1>3, <2>5, <2>6, <2>8, <2>9
      <3>2. CASE s # stage
        BY <3>2, <1>3, <2>5, <2>9, <2>10
      <3> QED BY <3>1, <3>2
    <2> QED BY <1>1, <1>2, <2>11 DEF ReplayAnswers
  <1> QED BY <1>4, <1>5

-----------------------------------------------------------------------------
(* A match.                                                                *)

\* The live run serves and asks nothing.
LiveHead == Live => head.served = << >> /\ \A s \in Stages : head.asked[s] = {}

ReplayInv == ~Live => ReplayVisits /\ ReplayCalls /\ ReplayAnswers

\* The invariant of a run and its replay.
PairInv ==
  /\ ReplayTypes /\ AsksModel /\ VisitOpen /\ AskingLast
  /\ CallsInv /\ AnswersKept
  /\ LiveHead /\ ReplayInv

LEMMA ReplayBegins ==
  ASSUME ReplayTypes, LiveHead, Unlock
  PROVE  ReplayVisits' /\ ReplayCalls' /\ ReplayAnswers'
  <1> DEFINE k == <<"run_started">>
  <1>1. /\ Live /\ pc' = "loop" /\ visit' = 0 /\ replayed' = <<k>>
        /\ tape' = tape /\ head' = head
    BY DEF Unlock
  <1>2. k[1] = "run_started"
    OBVIOUS
  <1> HIDE DEF k
  <1>3. \A S : k \notin S => Among(S, replayed') = 0
    <2> TAKE S
    <2> HAVE k \notin S
    <2>1. {i \in 1 .. 1 : replayed'[i] \in S} = {}
      BY <1>1
    <2>2. Len(replayed') = 1
      BY <1>1
    <2> QED BY <2>1, <2>2, FS_EmptySet DEF Among, Up
  <1>4. k \notin Entered /\ k \notin Left /\ k \notin Begun /\ k \notin Ended /\ k \notin Asking
        /\ \A s \in Stages : k \notin Told(s)
    BY <1>2, CountedKinds, KindsOfTurns
  <1>5. head'.served = << >> /\ \A s \in Stages : head'.asked[s] = {}
    BY <1>1 DEF LiveHead
  <1>6. ReplayVisits'
    BY <1>1, <1>3, <1>4 DEF ReplayVisits
  <1>7. ReplayCalls'
    <2>1. Len(tape'.fixtures) \in Nat
      BY <1>1, TypesUnfolded DEF Tapes
    <2>2. Among(Begun, replayed') = 0 /\ Among(Ended, replayed') = 0
      BY <1>3, <1>4
    <2>3. \A i \in DOMAIN replayed' : replayed'[i] \notin Ended
      BY <1>1, <1>4
    <2>4. Len(head'.served) = 0
      BY <1>5
    <2> QED BY <2>1, <2>2, <2>3, <2>4 DEF ReplayCalls, ServedInOrder
  <1>8. ReplayAnswers'
    <2>1. \A s \in Stages : Among(Told(s), replayed') = 0
      BY <1>3, <1>4
    <2>2. Cardinality({}) = 0
      BY FS_EmptySet
    <2>3. Len(replayed') = 1 /\ replayed' # << >> /\ replayed'[1] = k
      BY <1>1
    <2>4. \A s \in Stages : /\ head'.asked[s] \subseteq Queue(s)'
                            /\ Cardinality(head'.asked[s]) = Among(Told(s), replayed')
      BY <2>1, <2>2, <1>5
    <2>5. Answered' /\ (replayed'[Len(replayed')] \in Asking => pc' = "asking")
      BY <2>3, <1>4 DEF Answered
    <2> QED BY <2>3, <2>4, <2>5 DEF ReplayAnswers
  <1> QED BY <1>6, <1>7, <1>8

LEMMA PairInit ==
  ASSUME ReplayInit
  PROVE  PairInv
  <1>1. LiveHead /\ ReplayInv
    BY DEF ReplayInit, LiveHead, ReplayInv, Live
  <1> QED BY <1>1, InitTypes, AnswersBegin, CallsBegin DEF PairInv

LEMMA PairStep ==
  ASSUME PairInv, [ReplayNext]_replayVars
  PROVE  PairInv'
  <1>1. ReplayTypes' /\ AsksModel'
    BY TypesKept, AsksKept DEF PairInv
  <1>2. CallsInv'
    BY <1>1, CallsStep DEF PairInv
  <1>3. AnswersKept' /\ VisitOpen' /\ AskingLast'
    BY <1>1, AnswersStep DEF PairInv
  <1>4. LiveHead' /\ ReplayInv'
    <2>1. CASE UNCHANGED replayVars
      BY <2>1 DEF PairInv, replayVars, LiveHead, ReplayInv, ReplayVisits, ReplayCalls, ReplayAnswers,
                  ServedInOrder, Answered, Queue, Recorded, Live
    <2>2. CASE Unlock
      <3>1. ~Live'
        BY <2>2 DEF Unlock, Live
      <3> QED BY <2>2, <3>1, ReplayBegins DEF PairInv, LiveHead, ReplayInv
    <2>3. CASE Live /\ CountedStep
      <3>1. head'.served = head.served /\ head'.asked = head.asked /\ Live'
        BY <2>3, CountedKeepsMode DEF CountedStep, QuietStep, SilentStep, EnterStep, LeaveStep,
           TakeStep, CallStep, TakesKept, CallsSame, Live
      <3> QED BY <2>3, <3>1 DEF PairInv, LiveHead, ReplayInv
    <2>4. CASE ~Live /\ ReplayNext /\ CountedStep
      <3>1. tape' = tape /\ ~Live'
        BY <2>4, ReplayReads DEF Live
      <3>2. ReplayVisits' /\ ReplayCalls' /\ ReplayAnswers'
        BY <2>4, <3>1, <1>1, VisitsStep, ServesStep, AskedStep DEF PairInv, ReplayInv
      <3> QED BY <3>1, <3>2 DEF LiveHead, ReplayInv
    <2> QED BY <2>1, <2>2, <2>3, <2>4, StepsCounted DEF ReplayNext, PairInv
  <1> QED BY <1>1, <1>2, <1>3, <1>4 DEF PairInv

\* When all is told the same twice, it was told in full.
LEMMA MatchedInFull ==
  ASSUME PairInv, Over, replayed = ledger
  PROVE  /\ Among(Ended, ledger) = Len(tape.fixtures) /\ Len(head.served) = Len(tape.fixtures)
         /\ VisitsKept(visit) /\ CallsInOrder(visit) /\ Among(Entered, ledger) = visit
  <1>1. ReplayVisits /\ ReplayCalls /\ SealedCalls /\ pc = "ended"
    BY DEF PairInv, ReplayInv, CallsInv, Over, Live
  <1>2. ledger \in Seq(Milestones) /\ visit \in Nat /\ tape.fixtures \in Seq(Fixtures)
        /\ head.served \in Seq([visit : Nat, tool : Tools, fixture : Nat])
    BY Typed, TypesUnfolded DEF LedgerTyped, PairInv, Tapes, Heads
  <1>3. /\ Among(Begun, ledger) \in Nat /\ Among(Ended, ledger) \in Nat
        /\ Len(tape.fixtures) \in Nat /\ Len(head.served) \in Nat /\ MaxSteps \in Nat
    BY <1>2, AmongTyped, Bounds
  <1>4. Among(Begun, ledger) = Among(Ended, ledger) /\ Among(Ended, ledger) = Len(tape.fixtures)
    BY <1>1, <1>3 DEF ReplayCalls, SealedCalls, CallsKept
  <1>5. Len(head.served) = Len(tape.fixtures)
    BY <1>1, <1>3, <1>4 DEF ReplayCalls
  <1>6. PICK v \in 0 .. MaxSteps : VisitsKept(v) /\ CallsInOrder(v)
    BY <1>1 DEF SealedCalls
  <1>7. /\ Among(Entered, ledger) = visit /\ Among(Left, ledger) \in {visit - 1, visit}
        /\ Among(Left, ledger) = visit => visit = MaxSteps
    BY <1>1 DEF ReplayVisits
  <1>8. v = visit
    <2>1. CASE Among(Entered, ledger) = v
      BY <2>1, <1>7
    <2>2. CASE Among(Entered, ledger) = v - 1
      <3>1. Among(Left, ledger) \in {v - 1, v}
        BY <2>2, <1>6 DEF VisitsKept
      <3> QED BY <2>2, <3>1, <1>2, <1>3, <1>7
    <2> QED BY <2>1, <2>2, <1>6 DEF VisitsKept
  <1> QED BY <1>4, <1>5, <1>6, <1>7, <1>8

LEMMA FunctionOfSeq ==
  ASSUME NEW T, NEW q \in Seq(T)
  PROVE  q = [j \in DOMAIN q |-> q[j]]
  <1>1. q \in [1 .. Len(q) -> T]
    OBVIOUS
  <1> QED BY <1>1

LEMMA MatchedFixtures ==
  ASSUME PairInv, Over, replayed = ledger
  PROVE  head.served = [i \in DOMAIN tape.fixtures |->
                          [visit |-> tape.fixtures[i].visit, tool |-> tape.fixtures[i].tool,
                           fixture |-> i]]
  <1>1. ledger \in Seq(Milestones) /\ tape.fixtures \in Seq(Fixtures)
        /\ head.served \in Seq([visit : Nat, tool : Tools, fixture : Nat])
    BY Typed, TypesUnfolded DEF LedgerTyped, PairInv, Tapes, Heads
  <1>2. ServedInOrder
    BY DEF PairInv, ReplayInv, ReplayCalls, Over, Live
  <1>3. /\ Among(Ended, ledger) = Len(tape.fixtures) /\ Len(head.served) = Len(tape.fixtures)
        /\ CallsInOrder(visit) /\ Among(Entered, ledger) = visit
    BY MatchedInFull
  <1>4. DOMAIN head.served = 1 .. Len(tape.fixtures) /\ DOMAIN tape.fixtures = 1 .. Len(tape.fixtures)
    BY <1>1, <1>3
  <1>5. ASSUME NEW j \in DOMAIN tape.fixtures
        PROVE  head.served[j] = [visit |-> tape.fixtures[j].visit, tool |-> tape.fixtures[j].tool,
                                 fixture |-> j]
    <2>1. PICK i \in DOMAIN ledger :
            /\ ledger[i] \in Ended /\ Up(Ended, ledger, i) = j
            /\ ledger[i][3] = tape.fixtures[j].tool
            /\ Up(Entered, ledger, i) = tape.fixtures[j].visit
      BY <1>3 DEF CallsInOrder
    <2>2. j <= Len(head.served)
      BY <1>1, <1>3, <1>4
    <2> QED BY <2>1, <2>2, <1>2 DEF ServedInOrder
  <1>6. head.served = [j \in DOMAIN head.served |-> head.served[j]]
    BY <1>1, FunctionOfSeq
  <1>7. DOMAIN head.served = DOMAIN tape.fixtures
    BY <1>4
  <1> QED BY <1>5, <1>6, <1>7

LEMMA MatchedResponses ==
  ASSUME PairInv, Over, replayed = ledger, NEW s \in Stages
  PROVE  Waiting(s) = {}
  <1>1. ReplayAnswers /\ AnswersKept /\ ~Live /\ ReplayTypes
    BY DEF PairInv, ReplayInv, Over, Live
  <1>2. head.asked[s] \subseteq Queue(s) /\ Queue(s) \subseteq Given(s) /\ IsFiniteSet(Given(s))
        /\ Cardinality(head.asked[s]) = Among(Told(s), ledger)
        /\ Cardinality(Given(s)) \in Nat
    BY <1>1, QueueFinite, GivenTyped DEF ReplayAnswers
  <1>3. CASE Among(Told(s), ledger) = Cardinality(Given(s))
    <2>1. head.asked[s] = Given(s)
      BY <1>2, <1>3, FS_Subset
    <2> QED BY <2>1, <1>2 DEF Waiting
  <1>4. CASE Among(Told(s), ledger) = Cardinality(Given(s)) - 1 /\ Unsaid(s)
    <2>1. ~Pending(s)
      BY <1>1 DEF Pending
    <2>2. ~Broken
      BY <1>1 DEF Broken, ReplayAnswers, Answered
    <2>3. PICK i \in Given(s) : ~Recorded(tape.responses[i].visit)
      BY <1>4, <2>1, <2>2 DEF Unsaid, Lost
    <2>4. i \notin Queue(s)
      BY <2>3 DEF Queue
    <2> DEFINE rest == Given(s) \ {i}
    <2>5. IsFiniteSet(rest) /\ Cardinality(rest) = Cardinality(Given(s)) - 1
      BY <1>2, <2>3, FS_RemoveElement
    <2>6. Queue(s) \subseteq rest /\ head.asked[s] \subseteq rest
      BY <1>2, <2>4
    <2> HIDE DEF rest
    <2>7. head.asked[s] = rest
      BY <1>2, <1>4, <2>5, <2>6, FS_Subset
    <2> QED BY <2>6, <2>7 DEF Waiting
  <1> QED BY <1>1, <1>3, <1>4 DEF AnswersKept

\* A match is no coincidence: every fixture went to the visit and the tool it
\* was recorded for although TapedToolRegistry serves them by order alone, none
\* was left or missing, and every response of a completed visit was used.
THEOREM MatchedTheorem == ReplaySpec => []MatchedIsSameRun
  <1>1. ReplayInit => PairInv
    BY PairInit
  <1>2. PairInv /\ [ReplayNext]_replayVars => PairInv'
    BY PairStep
  <1>3. PairInv => MatchedIsSameRun
    BY MatchedFixtures, MatchedResponses DEF MatchedIsSameRun, Matched
  <1> QED BY <1>1, <1>2, <1>3, PTL DEF ReplaySpec

-----------------------------------------------------------------------------
(* A run with no flaw, moment by moment. A moment is what the live run was  *)
(* at one time, tapes and ledger included; the moments of a run with no     *)
(* flaw follow each other as the tapes alone tell.                          *)

Moments ==
  [pc : Points, stage : Stages, visit : Nat, retries : Nat, rounds : Nat, answer : Answers,
   output : Outputs, tape : Tapes, ledger : Seq(Milestones),
   outcome : {"none", "complete", "failed"}]

Now ==
  [pc |-> pc, stage |-> stage, visit |-> visit, retries |-> retries, rounds |-> rounds,
   answer |-> answer, output |-> output, tape |-> tape, ledger |-> ledger,
   outcome |-> outcome.live]

AsksIn(c) == Executes[c.stage] = "model"
KeyIn(c, kind, detail) == <<kind, c.stage, detail>>
RetryIn(c) == KeyIn(c, "model_retry", "")
CalledIn(c, kind) == KeyIn(c, kind, c.answer.tool)

\* From c to d the run emits keys and goes on, or fails.
GoesOn(c, d, keys, to) ==
  /\ d.ledger = c.ledger \o keys /\ d.pc = to /\ d.outcome = c.outcome
Fails(c, d, keys) ==
  /\ d.ledger = c.ledger \o Append(keys, <<"run_failed">>)
  /\ d.pc = "ended" /\ d.outcome = "failed"
Errs(c, d, keys) ==
  \/ AsksIn(c) /\ GoesOn(c, d, Append(keys, RetryIn(c)), "asking")
  \/ ~AsksIn(c) /\ Fails(c, d, keys)

SameVisit(c, d) == d.stage = c.stage /\ d.visit = c.visit
SameTurn(c, d) ==
  SameVisit(c, d) /\ d.retries = c.retries /\ d.rounds = c.rounds /\ d.answer = c.answer

Enters(c, d) ==
  /\ c.pc = "loop" /\ d.tape = c.tape
  /\ \/ c.visit = MaxSteps /\ Fails(c, d, << >>)
     \/ /\ c.visit < MaxSteps
        /\ d.visit = c.visit + 1 /\ d.stage = c.stage /\ d.output = c.output
        /\ d.retries = 0 /\ d.rounds = 0
        /\ \/ /\ AsksIn(c) /\ GoesOn(c, d, <<KeyIn(c, "stage_started", "")>>, "asking")
              /\ d.answer = NoAnswer
           \/ /\ ~AsksIn(c)
              /\ GoesOn(c, d, <<KeyIn(c, "stage_started", "")>>, ToolPoint(Executes[c.stage]))
              /\ d.answer = Call(Executes[c.stage], TRUE, "plain")

\* The response keeps its place and its content on the tape.
IsAsked(c, d) ==
  /\ c.pc = "asking" /\ SameVisit(c, d) /\ d.retries = c.retries /\ d.rounds = c.rounds
  /\ \E a \in Answers :
       /\ Taped(a) = a
       /\ a.kind = "call" => a.tool \in Allows[c.stage] \/ a.good
       /\ d.tape = [c.tape EXCEPT !.responses =
                      Append(@, [visit |-> c.visit, stage |-> c.stage, answer |-> a])]
       /\ GoesOn(c, d, <<KeyIn(c, "model_completed", "")>>,
                 IF a.kind = "call" THEN "dispatch" ELSE "returned")
       /\ d.answer = a
       /\ d.output = IF a.kind = "call" THEN c.output ELSE [value |-> a.value, masked |-> FALSE]

IsDown(c, d) == c.pc = "asking" /\ d.tape = c.tape /\ Fails(c, d, << >>)

Dispatches(c, d) ==
  /\ c.pc = "dispatch" /\ SameVisit(c, d) /\ d.retries = c.retries /\ d.answer = c.answer
  /\ d.tape = c.tape /\ d.output = c.output
  /\ c.rounds < MaxRounds /\ d.rounds = c.rounds + 1
  /\ \/ /\ c.answer.tool \notin Allows[c.stage] \/ c.answer.shape = "other"
        /\ GoesOn(c, d, <<RetryIn(c)>>, "asking")
     \/ /\ c.answer.tool \in Allows[c.stage] /\ c.answer.good /\ c.answer.shape # "other"
        /\ GoesOn(c, d, << >>, ToolPoint(c.answer.tool))

IsChecked(c, d) ==
  /\ c.pc = "policy" /\ SameTurn(c, d) /\ d.output = c.output
  /\ LET t == c.answer.tool
         checked(denied) == KeyIn(c, "policy_checked", <<t, denied>>)
     IN \E v \in {"allowed", "denied"} :
          /\ d.tape = [c.tape EXCEPT !.policies[t] = Append(@, v)]
          /\ \/ v = "allowed" /\ GoesOn(c, d, <<checked(FALSE)>>, "tool")
             \/ v = "denied" /\ Errs(c, d, <<checked(TRUE), KeyIn(c, "policy_denied", t)>>)

\* Whether a masked value does what the value did.
Passable(s, v) == v # "invalid" /\ (s \in Exits \/ Goto[s][v] = Goto[s][Hidden])

IsCalled(c, d) ==
  /\ c.pc = "tool" /\ SameTurn(c, d)
  /\ \E f \in Fixtures :
       LET milestones(kind) == <<CalledIn(c, "tool_call_started"), CalledIn(c, kind)>>
       IN /\ d.tape = [c.tape EXCEPT !.fixtures = Append(@, f)]
          /\ \/ /\ f.mask = "clear" /\ f.result = "error"
                /\ d.output = c.output /\ Errs(c, d, milestones("tool_call_failed"))
             \/ /\ f.mask = "clear" /\ f.result = "fatal" /\ ~AsksIn(c)
                /\ Fails(c, d, milestones("tool_call_failed"))
             \/ /\ f.result \in Values /\ AsksIn(c) /\ f.mask = "clear"
                /\ d.output = c.output
                /\ GoesOn(c, d, milestones("tool_call_completed"), "asking")
             \/ /\ f.result \in Values /\ ~AsksIn(c)
                /\ f.mask \in {"clear", "nested"}
                /\ f.mask = "nested" => Passable(c.stage, f.result)
                /\ d.output = [value |-> f.result, masked |-> f.mask # "clear"]
                /\ GoesOn(c, d, milestones("tool_call_completed"), "returned")

IsRefused(c, d) ==
  /\ c.pc = "returned" /\ c.output.value = "invalid" /\ d.tape = c.tape
  /\ \/ /\ AsksIn(c) /\ c.retries < MaxRetries /\ d.retries = c.retries + 1
        /\ SameVisit(c, d) /\ d.rounds = c.rounds /\ d.answer = c.answer /\ d.output = c.output
        /\ GoesOn(c, d, <<RetryIn(c)>>, "asking")
     \/ ~AsksIn(c) /\ Fails(c, d, << >>)

IsCompleted(c, d) ==
  /\ c.pc = "returned" /\ c.output.value # "invalid" /\ SameTurn(c, d) /\ d.output = c.output
  /\ d.tape = [c.tape EXCEPT !.snapshots = Append(@, [visit |-> c.visit, output |-> c.output])]
  /\ GoesOn(c, d, <<KeyIn(c, "stage_completed", "")>>, "after")

IsLeft(c, d) ==
  /\ c.pc = "after" /\ d.tape = c.tape
  /\ LET to == Goto[c.stage][c.output.value]
     IN \/ /\ c.stage \in Exits
           /\ d.ledger = c.ledger \o << <<"run_completed">> >>
           /\ d.pc = "ended" /\ d.outcome = "complete"
        \/ c.stage \notin Exits /\ to = "none" /\ Fails(c, d, << >>)
        \/ /\ c.stage \notin Exits /\ to # "none"
           /\ GoesOn(c, d, <<KeyIn(c, "transition_selected", to)>>, "loop")
           /\ d.stage = to /\ d.visit = c.visit
           /\ d.retries = c.retries /\ d.rounds = c.rounds /\ d.answer = c.answer
           /\ d.output = c.output

Follows(c, d) ==
  \/ Enters(c, d) \/ IsAsked(c, d) \/ IsDown(c, d) \/ Dispatches(c, d) \/ IsChecked(c, d)
  \/ IsCalled(c, d) \/ IsRefused(c, d) \/ IsCompleted(c, d) \/ IsLeft(c, d)

\* What the tapes of one moment must explain of it.
Fits(c) ==
  /\ c.pc \in {"asking", "dispatch"} => AsksIn(c)
  /\ c.pc = "dispatch" =>
       /\ c.answer.kind = "call"
       /\ \E i \in DOMAIN c.tape.responses :
            c.tape.responses[i].stage = c.stage /\ c.tape.responses[i].answer = c.answer
  /\ c.pc \in {"policy", "tool"} => c.answer.tool \in Tools
  /\ c.pc = "policy" => c.answer.tool \in Guarded
  /\ c.pc \in {"returned", "after"} /\ c.output.masked => Passable(c.stage, c.output.value)
  /\ c.pc = "after" => c.output.value # "invalid"

\* The tapes U go on where the tapes T end.
Longer(T, U) ==
  /\ Extends(T.responses, U.responses) /\ Extends(T.fixtures, U.fixtures)
  /\ Extends(T.snapshots, U.snapshots)
  /\ \A t \in Guarded : Extends(T.policies[t], U.policies[t])
Held(c) == Longer(c.tape, tape)

Begins(c) ==
  /\ c.pc = "loop" /\ c.stage = Entry /\ c.visit = 0 /\ c.retries = 0 /\ c.rounds = 0
  /\ c.answer = NoAnswer /\ c.output = NoOutput /\ c.outcome = "none"
  /\ c.ledger = << <<"run_started">> >>
  /\ c.tape.responses = << >> /\ c.tape.fixtures = << >> /\ c.tape.snapshots = << >>
  /\ \A t \in Guarded : c.tape.policies[t] = << >>

Story(m, h) ==
  /\ h \in [0 .. m -> Moments] /\ Begins(h[0])
  /\ \A i \in 0 .. m : Fits(h[i]) /\ Held(h[i])
  /\ \A i \in 0 .. m : i < m => Follows(h[i], h[i + 1])

InVisit == {"asking", "dispatch", "policy", "tool", "returned"}
Settled == \A i \in DOMAIN tape.responses : Recorded(tape.responses[i].visit)

\* A live run with no flaw: only the visit in progress has responses that no
\* stage would get back.
RunInv ==
  /\ Fits(Now)
  /\ \A i \in DOMAIN tape.responses :
       Recorded(tape.responses[i].visit) \/ (pc \in InVisit /\ tape.responses[i].visit = visit)
  /\ pc \in InVisit => ~Recorded(visit)
  /\ pc \in {"dispatch", "policy", "tool", "returned"} /\ IsModel =>
       \E i \in DOMAIN tape.responses : tape.responses[i].visit = visit

\* The whole run is on the tapes.
Sealed(c) ==
  /\ c.pc = "ended" /\ c.ledger = ledger /\ c.tape = tape /\ c.outcome = outcome.live

Shown(out) == IF out.masked THEN Hidden ELSE out.value

\* The replay has come to the moment c: it stands there, with these outputs
\* behind it, in the same turn, and has read as much as was recorded.
Stands(c) == pc = c.pc /\ replayed = c.ledger /\ outcome.replay = c.outcome
Returns(c) ==
  /\ Len(head.outputs) = Len(c.tape.snapshots)
  /\ \A i \in 1 .. Len(c.tape.snapshots) :
       /\ head.outputs[i].visit = c.tape.snapshots[i].visit
       /\ head.outputs[i].value = Shown(c.tape.snapshots[i].output)
Turns(c) ==
  /\ stage = c.stage /\ visit = c.visit /\ retries = c.retries /\ rounds = c.rounds
  /\ answer = c.answer /\ output.value = Shown(c.output)
Reads(c) ==
  /\ \A s \in Stages : head.asked[s] = {j \in 1 .. Len(c.tape.responses) :
                                         c.tape.responses[j].stage = s}
  /\ Len(head.served) = Len(c.tape.fixtures)
  /\ \A t \in Guarded : head.checked[t] = Len(c.tape.policies[t])
At(c) == Stands(c) /\ Returns(c) /\ (pc # "ended" => Turns(c) /\ Reads(c))

-----------------------------------------------------------------------------
(* The live run: its moments follow each other.                             *)

LEMMA OutcomeTyped ==
  ASSUME ReplayTypes
  PROVE  outcome \in Outcomes
  BY TypesUnfolded DEF RecordsTyped

LEMMA NowTyped ==
  ASSUME ReplayTypes
  PROVE  Now \in Moments
  <1>1. outcome.live \in {"none", "complete", "failed"}
    BY OutcomeTyped DEF Outcomes
  <1>2. pc \in Points
    BY PointUnfolded DEF PointTyped
  <1> QED BY <1>1, <1>2, TypesUnfolded DEF Now, Moments, RecordsTyped

LEMMA NowTypedNext ==
  ASSUME ReplayTypes'
  PROVE  Now' \in Moments
  <1>1. outcome' \in Outcomes
    BY DEF ReplayTypes, ReplayTypeOK, Outcomes
  <1>2. outcome'.live \in {"none", "complete", "failed"}
    BY <1>1 DEF Outcomes
  <1>3. /\ pc' \in Points /\ stage' \in Stages /\ answer' \in Answers /\ output' \in Outputs
        /\ tape' \in Tapes /\ ledger' \in Seq(Milestones)
        /\ visit' \in Nat /\ retries' \in Nat /\ rounds' \in Nat
    BY Bounds DEF ReplayTypes, ReplayTypeOK, Points, Outputs
  <1> QED BY <1>2, <1>3 DEF Now, Moments

LEMMA CleanEmits ==
  ASSUME Live, NEW keys, NEW more, Emits(keys, more), flaws' = {}
  PROVE  ledger' = ledger \o keys /\ replayed' = replayed /\ more = {} /\ flaws = {}
  <1>1. CASE ledger' = ledger \o keys /\ flaws' = flaws \union more /\ UNCHANGED replayed
    BY <1>1
  <1>2. flaws' # flaws \union more \union {"omitted"}
    OBVIOUS
  <1> QED BY <1>1, <1>2 DEF Emits

LEMMA CleanFails ==
  ASSUME ReplayTypes, Live, NEW keys, NEW more, Fail(keys, more), flaws' = {}
  PROVE  Fails(Now, Now', keys) /\ ~LateFailure /\ more = {} /\ pc' = "ended"
  <1>1. PICK late : /\ late = IF LateFailure THEN {"late_failure"} ELSE {}
                    /\ Emits(Append(keys, <<"run_failed">>), more \union late)
    BY DEF Fail
  <1>2. /\ ledger' = ledger \o Append(keys, <<"run_failed">>)
        /\ more \union late = {}
    BY <1>1, CleanEmits
  <1>3. outcome'.live = "failed" /\ pc' = "ended"
    BY OutcomeTyped DEF Fail, Live, Outcomes
  <1> QED BY <1>1, <1>2, <1>3 DEF Fails, Now

LEMMA CleanGoes ==
  ASSUME Live, NEW keys, NEW more, Emits(keys, more), flaws' = {}, UNCHANGED outcome
  PROVE  GoesOn(Now, Now', keys, pc') /\ more = {}
  BY CleanEmits DEF GoesOn, Now

LEMMA CleanErrs ==
  ASSUME ReplayTypes, Live, NEW keys, NEW more, ToolError(keys, more), flaws' = {},
         UNCHANGED stage
  PROVE  /\ Errs(Now, Now', keys) /\ more = {}
         /\ \/ IsModel /\ pc' = "asking"
            \/ ~IsModel /\ pc' = "ended" /\ ~LateFailure
  <1>1. CASE IsModel /\ Emits(Append(keys, Retry), more) /\ pc' = "asking" /\ UNCHANGED outcome
    BY <1>1, CleanGoes DEF Errs, AsksIn, IsModel, RetryIn, KeyIn, Retry, Key, Now
  <1>2. CASE ~IsModel /\ Fail(keys, more)
    BY <1>2, CleanFails DEF Errs, AsksIn, IsModel, Now
  <1> QED BY <1>1, <1>2 DEF ToolError

LEMMA LiveEnters ==
  ASSUME ReplayTypes, Live, EnterStage, flaws' = {}
  PROVE  Enters(Now, Now')
  <1>1. pc = "loop" /\ UNCHANGED <<mode, stage, output, tape, head, missed>>
    BY DEF EnterStage
  <1>2. CASE visit = MaxSteps /\ Fail(<< >>, {})
    BY <1>1, <1>2, CleanFails DEF Enters, Now
  <1>3. CASE /\ visit < MaxSteps
             /\ visit' = visit + 1
             /\ Emits(<<Key("stage_started", "")>>, {})
             /\ retries' = 0 /\ rounds' = 0
             /\ \/ IsModel /\ pc' = "asking" /\ answer' = NoAnswer
                \/ /\ ~IsModel
                   /\ pc' = ToolPoint(Executes[stage])
                   /\ answer' = Call(Executes[stage], TRUE, "plain")
             /\ UNCHANGED outcome
    <2>1. GoesOn(Now, Now', <<KeyIn(Now, "stage_started", "")>>, pc')
      BY <1>3, CleanGoes DEF Key, KeyIn, Now
    <2> QED BY <1>1, <1>3, <2>1 DEF Enters, AsksIn, IsModel, Now
  <1> QED BY <1>2, <1>3 DEF EnterStage

\* What the recorder keeps as it is, the replay reads as it was.
LEMMA LiveAsks ==
  ASSUME ReplayTypes, Live, NEW a \in Offered, ModelAnswers(a), flaws' = {}, ~Aliased
  PROVE  IsAsked(Now, Now')
  <1>1. /\ pc = "asking" /\ UNCHANGED <<mode, stage, visit, retries, rounds, head, outcome, missed>>
        /\ tape' = [tape EXCEPT !.responses =
                      Append(@, [visit |-> visit, stage |-> stage, answer |-> a])]
    BY DEF ModelAnswers
  <1>2. PICK more : /\ more = IF a.kind = "output" /\ a.secret THEN {"secret"} ELSE {}
                    /\ Take(a, more)
    BY DEF ModelAnswers
  <1>3. GoesOn(Now, Now', <<KeyIn(Now, "model_completed", "")>>, pc') /\ more = {}
    BY <1>1, <1>2, CleanGoes DEF Take, Key, KeyIn, Now
  <1>4. a \in Answers /\ (a.kind = "call" => a.tool \in Allows[stage] \/ a.good)
    BY DEF Offered
  <1>5. a.kind = "call" \/ ~a.secret
    BY <1>2, <1>3, <1>4, AnswerForms
  <1>6. Taped(a) = a
    BY <1>2, <1>3 DEF Taped
  <1>7. a.kind # "call" => a.secret = FALSE
    BY <1>4, <1>5, AnswerForms
  <1>8. /\ Now.pc = "asking" /\ SameVisit(Now, Now') /\ Now'.retries = Now.retries
        /\ Now'.rounds = Now.rounds
        /\ Now'.tape = [Now.tape EXCEPT !.responses =
                          Append(@, [visit |-> Now.visit, stage |-> Now.stage, answer |-> a])]
        /\ pc' = (IF a.kind = "call" THEN "dispatch" ELSE "returned")
        /\ Now'.answer = a
        /\ Now'.output = IF a.kind = "call" THEN Now.output ELSE [value |-> a.value, masked |-> FALSE]
    BY <1>1, <1>2, <1>7 DEF Now, SameVisit, Take
  <1>9. a.kind = "call" => a.tool \in Allows[Now.stage] \/ a.good
    BY <1>4 DEF Now
  <1> QED BY <1>3, <1>4, <1>6, <1>8, <1>9 DEF IsAsked

LEMMA LiveRaises ==
  ASSUME ReplayTypes, Live, ModelRaises, flaws' = {}
  PROVE  IsDown(Now, Now') /\ ~LateFailure /\ pc' = "ended"
  <1>1. pc = "asking" /\ UNCHANGED tape
    BY DEF ModelRaises
  <1>2. ~RetryOrFail({"malformed"})
    <2>1. ~Emits(<<Retry>>, {"malformed"}) /\ ~Fail(<< >>, {"malformed"})
      BY CleanEmits, CleanFails
    <2> QED BY <2>1 DEF RetryOrFail
  <1>3. Fail(<< >>, {})
    BY <1>2 DEF ModelRaises
  <1> QED BY <1>1, <1>3, CleanFails DEF IsDown, Now

\* A failure once there is a response is one of the flaws.
Responded == ~Recorded(visit) /\ \E i \in DOMAIN tape.responses : tape.responses[i].visit = visit

LEMMA NoLateFailure ==
  ASSUME Responded
  PROVE  LateFailure
  BY DEF Responded, LateFailure

LEMMA LiveDispatches ==
  ASSUME ReplayTypes, RunInv, Live, Dispatch, flaws' = {}
  PROVE  Dispatches(Now, Now')
  <1>1. /\ pc = "dispatch"
        /\ UNCHANGED <<mode, stage, visit, retries, answer, output, tape, head, missed>>
    BY DEF Dispatch
  <1>2. IsModel
    BY <1>1 DEF RunInv, Fits, AsksIn, IsModel, Now
  <1>3. Responded
    BY <1>1, <1>2 DEF RunInv, InVisit, Responded
  <1>4. ~Fail(<< >>, {})
    BY <1>3, CleanFails, NoLateFailure
  <1>5. rounds < MaxRounds /\ rounds' = rounds + 1
    BY <1>4 DEF Dispatch
  <1>6. CASE /\ Refused(answer)
             /\ ToolError(<< >>, IF Misjudged(answer) THEN {"arguments"} ELSE {})
    <2>1. PICK more : /\ more = IF Misjudged(answer) THEN {"arguments"} ELSE {}
                      /\ ToolError(<< >>, more)
      BY <1>6
    <2>2. Errs(Now, Now', << >>) /\ more = {} /\ ~Misjudged(answer)
      BY <1>1, <2>1, CleanErrs
    <2>3. answer.tool \notin Allows[stage] \/ answer.shape = "other"
      BY <1>6, <2>2 DEF Refused, Misjudged
    <2>4. GoesOn(Now, Now', <<RetryIn(Now)>>, "asking")
      <3>1. \A x : Append(<< >>, x) = <<x>>
        OBVIOUS
      <3> QED BY <1>2, <2>2, <3>1 DEF Errs, AsksIn, IsModel, Now
    <2> QED BY <1>1, <1>5, <2>3, <2>4 DEF Dispatches, SameVisit, Now
  <1>7. CASE /\ ~Refused(answer) /\ pc' = ToolPoint(answer.tool)
             /\ flaws' = flaws \union (IF Misjudged(answer) THEN {"arguments"} ELSE {})
             /\ UNCHANGED <<ledger, replayed, outcome>>
    <2>1. answer.tool \in Allows[stage] /\ answer.good /\ answer.shape # "other"
      <3>1. answer.tool \in Allows[stage] /\ answer.good /\ ~Misjudged(answer)
        BY <1>7 DEF Refused
      <3> QED BY <3>1 DEF Misjudged
    <2>2. ledger' = ledger \o << >>
      BY <1>7, TypesUnfolded DEF RecordsTyped
    <2> QED BY <1>1, <1>5, <1>7, <2>1, <2>2 DEF Dispatches, GoesOn, SameVisit, Now
  <1> QED BY <1>4, <1>6, <1>7 DEF Dispatch, Live

LEMMA LiveChecks ==
  ASSUME ReplayTypes, Live, CheckPolicy, flaws' = {}
  PROVE  IsChecked(Now, Now') /\ (pc' = "ended" => ~LateFailure)
  <1>1. pc = "policy" /\ UNCHANGED <<mode, stage, visit, stageVars, output, missed>>
    BY DEF CheckPolicy
  <1> DEFINE t == answer.tool
             checked(denied) == Key("policy_checked", <<t, denied>>)
             wasDenied == Key("policy_denied", t)
  <1>2. PICK v \in Verdicts(t) :
          /\ \/ v = "allowed" /\ Emits(<<checked(FALSE)>>, {}) /\ pc' = "tool" /\ UNCHANGED outcome
             \/ v = "denied"  /\ ToolError(<<checked(TRUE), wasDenied>>, {})
             \/ v = "unavailable" /\ Fail(<<checked(TRUE)>>, {"unavailable"})
          /\ tape' = [tape EXCEPT !.policies[t] =
                         Append(@, IF v = "unavailable" THEN "denied" ELSE v)]
    BY DEF CheckPolicy
  <1>3. ~Fail(<<checked(TRUE)>>, {"unavailable"})
    BY CleanFails
  <1>4. v \in {"allowed", "denied"}
    BY <1>2, <1>3
  <1>5. Now'.tape = [Now.tape EXCEPT !.policies[Now.answer.tool] = Append(@, v)]
    BY <1>2, <1>4 DEF Now
  <1>6. /\ Now.pc = "policy" /\ SameTurn(Now, Now') /\ Now'.output = Now.output
    BY <1>1 DEF SameTurn, SameVisit, Now, stageVars
  <1>7. checked(FALSE) = KeyIn(Now, "policy_checked", <<Now.answer.tool, FALSE>>)
        /\ checked(TRUE) = KeyIn(Now, "policy_checked", <<Now.answer.tool, TRUE>>)
        /\ wasDenied = KeyIn(Now, "policy_denied", Now.answer.tool)
    BY DEF Now, KeyIn, Key
  <1>8. \/ v = "allowed" /\ GoesOn(Now, Now', <<checked(FALSE)>>, "tool")
        \/ v = "denied" /\ Errs(Now, Now', <<checked(TRUE), wasDenied>>)
    <2> HIDE DEF checked, wasDenied
    <2> QED BY <1>1, <1>2, <1>3, CleanGoes, CleanErrs
  <1>9. pc' = "ended" => ~LateFailure
    <2> HIDE DEF checked, wasDenied
    <2> QED BY <1>1, <1>2, <1>3, CleanErrs
  <1> HIDE DEF checked, wasDenied
  <1> QED BY <1>4, <1>5, <1>6, <1>7, <1>8, <1>9 DEF IsChecked

LEMMA LiveTools ==
  ASSUME ReplayTypes, RunInv, Live, CallTool, flaws' = {}
  PROVE  IsCalled(Now, Now') /\ (pc' = "ended" => ~LateFailure)
  <1>1. pc = "tool" /\ UNCHANGED <<mode, stage, visit, stageVars, head, missed>>
    BY DEF CallTool
  <1> DEFINE called(result, mask, h, more) ==
               /\ tape' = [tape EXCEPT !.fixtures =
                            Append(@, [visit |-> visit, tool |-> answer.tool, shape |-> h,
                                       result |-> result, mask |-> mask])]
               /\ more = IF mask = "whole" \/ (mask = "nested" /\ ~IsModel /\ Diverts(result))
                         THEN {"secret"} ELSE {}
               /\ ToolEnds(result, mask # "clear", more)
  <1>0. \E result \in Results : \E mask \in Masks(result), h \in ArgShapes : \E more :
          called(result, mask, h, more)
    BY DEF CallTool
  <1>a. PICK result \in Results : \E mask \in Masks(result), h \in ArgShapes : \E more :
          called(result, mask, h, more)
    BY <1>0
  <1>b. PICK mask \in Masks(result), h \in ArgShapes : \E more : called(result, mask, h, more)
    BY <1>a
  <1>2. PICK more : called(result, mask, h, more)
    BY <1>b
  <1> DEFINE f == [visit |-> visit, tool |-> answer.tool, shape |-> h,
                    result |-> result, mask |-> mask]
             started == CalledIn(Now, "tool_call_started")
             failed == CalledIn(Now, "tool_call_failed")
             completed == CalledIn(Now, "tool_call_completed")
  <1>3. /\ f \in Fixtures /\ f.result = result /\ f.mask = mask
        /\ mask \in {"clear", "nested", "whole"} /\ result \in Values \union {"error", "fatal"}
        /\ (result \notin Values => mask = "clear") /\ (IsModel => mask # "nested")
    <2>1. answer.tool \in Tools /\ visit \in Nat
      BY <1>1, PointUnfolded, TypesUnfolded, Bounds DEF PointTyped
    <2>2. result \in Values \union {"error", "fatal"} /\ h \in Shapes
      BY <1>1, ArgsShaped DEF Results, Values
    <2> QED BY <2>1, <2>2 DEF Fixtures, Masks
  <1>4. /\ Now.pc = "tool" /\ SameTurn(Now, Now')
        /\ Now'.tape = [Now.tape EXCEPT !.fixtures = Append(@, f)]
        /\ AsksIn(Now) <=> IsModel
    BY <1>1, <1>2 DEF SameTurn, SameVisit, Now, stageVars, AsksIn, IsModel
  <1>5. /\ Key("tool_call_started", answer.tool) = started
        /\ Key("tool_call_failed", answer.tool) = failed
        /\ Key("tool_call_completed", answer.tool) = completed
    BY DEF CalledIn, KeyIn, Key, Now
  <1> HIDE DEF f, started, failed, completed
  <1>6. CASE result = "error" /\ ToolError(<<started, failed>>, more) /\ UNCHANGED output
    <2>1. /\ Errs(Now, Now', <<started, failed>>) /\ Now'.output = Now.output
          /\ pc' = "ended" => ~LateFailure
      BY <1>1, <1>6, CleanErrs DEF Now
    <2>2. f.result = "error" /\ f.mask = "clear"
      BY <1>3, <1>6 DEF Values
    <2> QED BY <1>3, <1>4, <2>1, <2>2 DEF IsCalled, started, failed
  <1>7. CASE result = "fatal" /\ Fail(<<started, failed>>, more) /\ UNCHANGED output
    <2>1. Fails(Now, Now', <<started, failed>>) /\ ~LateFailure
      BY <1>7, CleanFails
    <2>2. ~IsModel
      <3>1. IsModel => Responded
        BY <1>1 DEF RunInv, InVisit, Responded
      <3> QED BY <2>1, <3>1, NoLateFailure
    <2>3. f.result = "fatal" /\ f.mask = "clear"
      BY <1>3, <1>7 DEF Values
    <2> QED BY <1>3, <1>4, <2>1, <2>2, <2>3 DEF IsCalled, started, failed
  <1>8. CASE /\ result \notin {"error", "fatal"}
             /\ Emits(<<started, completed>>, more)
             /\ pc' = IF IsModel THEN "asking" ELSE "returned"
             /\ output' = IF IsModel THEN output ELSE [value |-> result, masked |-> mask # "clear"]
             /\ UNCHANGED outcome
    <2>1. GoesOn(Now, Now', <<started, completed>>, pc') /\ more = {}
      BY <1>8, CleanGoes
    <2>2. mask # "whole" /\ (mask = "nested" => ~Diverts(result)) /\ result \in Values
      BY <1>2, <1>3, <1>8, <2>1
    <2>3. mask = "nested" => Passable(Now.stage, f.result)
      BY <1>3, <2>2 DEF Diverts, Passable, Now
    <2>4. CASE IsModel
      <3>1. Now'.output = Now.output /\ pc' = "asking" /\ f.mask = "clear" /\ f.result \in Values
        BY <1>3, <1>8, <2>2, <2>4 DEF Now
      <3> QED BY <1>3, <1>4, <2>1, <2>4, <3>1 DEF IsCalled, started, completed
    <2>5. CASE ~IsModel
      <3>1. /\ Now'.output = [value |-> f.result, masked |-> f.mask # "clear"]
            /\ pc' = "returned" /\ f.result \in Values /\ f.mask \in {"clear", "nested"}
            /\ f.mask = "nested" => Passable(Now.stage, f.result)
        BY <1>3, <1>8, <2>2, <2>3, <2>5 DEF Now
      <3> QED BY <1>3, <1>4, <2>1, <2>5, <3>1 DEF IsCalled, started, completed
    <2> QED BY <2>4, <2>5
  <1> QED BY <1>2, <1>5, <1>6, <1>7, <1>8 DEF ToolEnds

LEMMA LiveRefuses ==
  ASSUME ReplayTypes, RunInv, Live, OutputInvalid, flaws' = {}
  PROVE  IsRefused(Now, Now') /\ (pc' = "ended" => ~LateFailure)
  <1>1. /\ pc = "returned" /\ output.value = "invalid"
        /\ UNCHANGED <<mode, stage, visit, rounds, answer, output, tape, head, missed>>
    BY DEF OutputInvalid
  <1>2. CASE IsModel /\ RetryOrFail({})
    <2>1. Responded
      BY <1>1, <1>2 DEF RunInv, InVisit, Responded
    <2>2. ~Fail(<< >>, {})
      BY <2>1, CleanFails, NoLateFailure
    <2>3. /\ retries < MaxRetries /\ retries' = retries + 1 /\ Emits(<<Retry>>, {})
          /\ pc' = "asking" /\ UNCHANGED outcome
      BY <1>2, <2>2 DEF RetryOrFail
    <2>4. GoesOn(Now, Now', <<RetryIn(Now)>>, "asking")
      BY <2>3, CleanGoes DEF Retry, Key, RetryIn, KeyIn, Now
    <2> QED BY <1>1, <1>2, <2>3, <2>4 DEF IsRefused, SameVisit, AsksIn, IsModel, Now
  <1>3. CASE ~IsModel /\ Fail(<< >>, {})
    BY <1>1, <1>3, CleanFails DEF IsRefused, AsksIn, IsModel, Now
  <1> QED BY <1>2, <1>3 DEF OutputInvalid

LEMMA LiveCompletes ==
  ASSUME ReplayTypes, Live, CompleteStage, flaws' = {}
  PROVE  /\ IsCompleted(Now, Now')
         /\ tape' = [tape EXCEPT !.snapshots = Append(@, [visit |-> visit, output |-> output])]
  <1>1. /\ pc = "returned" /\ output.value # "invalid" /\ pc' = "after"
        /\ UNCHANGED <<mode, stage, visit, stageVars, output, outcome, missed>>
        /\ Emits(<<Key("stage_completed", "")>>, {})
        /\ tape' = IF ledger' = ledger THEN tape
                   ELSE [tape EXCEPT !.snapshots = Append(@, [visit |-> visit, output |-> output])]
    BY DEF CompleteStage
  <1>2. GoesOn(Now, Now', <<KeyIn(Now, "stage_completed", "")>>, "after")
    BY <1>1, CleanGoes DEF Key, KeyIn, Now
  <1>3. ledger' # ledger
    <2>1. ledger' = ledger \o <<Key("stage_completed", "")>>
      BY <1>1, CleanEmits
    <2>2. ledger \in Seq(Milestones)
      BY TypesUnfolded DEF RecordsTyped
    <2> DEFINE k == Key("stage_completed", "")
    <2>3. k \in Milestones
      BY KeysTyped, TypesUnfolded DEF Kinds, Details
    <2> HIDE DEF k
    <2>4. ledger \o <<k>> # ledger
      <3>1. Len(ledger \o <<k>>) = Len(ledger) + 1 /\ Len(ledger) \in Nat
        BY <2>2, <2>3
      <3> DEFINE q == ledger \o <<k>>
      <3>2. Len(q) # Len(ledger)
        BY <3>1
      <3> HIDE DEF q
      <3>3. q # ledger
        BY <3>2
      <3> QED BY <3>3 DEF q
    <2>5. ledger' = ledger \o <<k>>
      BY <2>1 DEF k
    <2> QED BY <2>4, <2>5
  <1>4. tape' = [tape EXCEPT !.snapshots = Append(@, [visit |-> visit, output |-> output])]
    BY <1>1, <1>3
  <1> QED BY <1>1, <1>2, <1>4 DEF IsCompleted, SameTurn, SameVisit, Now, stageVars

LEMMA LiveLeaves ==
  ASSUME ReplayTypes, Live, Leave, flaws' = {}
  PROVE  IsLeft(Now, Now')
  <1>1. pc = "after" /\ UNCHANGED <<mode, visit, stageVars, output, tape, head, missed>>
    BY DEF Leave
  <1> DEFINE to == Goto[stage][output.value]
  <1>2. CASE /\ stage \in Exits
             /\ Emits(<< <<"run_completed">> >>, {})
             /\ outcome' = [outcome EXCEPT ![mode] = "complete"]
             /\ pc' = "ended"
             /\ UNCHANGED stage
    <2>1. ledger' = ledger \o << <<"run_completed">> >> /\ outcome'.live = "complete"
      BY <1>2, CleanEmits, OutcomeTyped DEF Live, Outcomes
    <2> QED BY <1>1, <1>2, <2>1 DEF IsLeft, Now
  <1>3. CASE stage \notin Exits /\ to = "none" /\ Fail(<< >>, {})
    BY <1>1, <1>3, CleanFails DEF IsLeft, Now
  <1>4. CASE /\ stage \notin Exits /\ to # "none"
             /\ Emits(<<Key("transition_selected", to)>>, {})
             /\ stage' = to
             /\ pc' = "loop"
             /\ UNCHANGED outcome
    <2>1. GoesOn(Now, Now', <<KeyIn(Now, "transition_selected", to)>>, "loop")
      BY <1>4, CleanGoes DEF Key, KeyIn, Now
    <2> QED BY <1>1, <1>4, <2>1 DEF IsLeft, Now, stageVars
  <1> QED BY <1>2, <1>3, <1>4 DEF Leave

\* The three ways a run goes on, at a glance.
LEMMA PointsReached ==
  ASSUME NEW c, NEW d
  PROVE  /\ \A keys, to : GoesOn(c, d, keys, to) => d.pc = to
         /\ \A keys : Fails(c, d, keys) => d.pc = "ended"
         /\ \A keys : Errs(c, d, keys) =>
              (AsksIn(c) /\ d.pc = "asking") \/ (~AsksIn(c) /\ d.pc = "ended")
  BY DEF GoesOn, Fails, Errs

LEMMA MomentFields ==
  ASSUME NEW c \in Moments
  PROVE  /\ c.stage \in Stages /\ c.answer \in Answers /\ c.output \in Outputs
         /\ c.tape \in Tapes /\ c.ledger \in Seq(Milestones) /\ c.pc \in Points
         /\ c.tape.responses \in Seq(Responses) /\ c.tape.fixtures \in Seq(Fixtures)
         /\ c.tape.snapshots \in Seq(Snapshots)
         /\ c.tape.policies \in [Guarded -> Seq({"allowed", "denied"})]
         /\ c.visit \in Nat /\ c.retries \in Nat /\ c.rounds \in Nat
  BY DEF Moments, Tapes

\* A response is the last on the tape once it is appended.
LEMMA LastOne ==
  ASSUME NEW T, NEW s \in Seq(T), NEW x \in T
  PROVE  /\ Append(s, x) \in Seq(T) /\ Len(Append(s, x)) = Len(s) + 1
         /\ Len(s) \in Nat /\ Append(s, x)[Len(s) + 1] = x
         /\ DOMAIN Append(s, x) = 1 .. Len(s) + 1 /\ DOMAIN s = 1 .. Len(s)
         /\ \A i \in 1 .. Len(s) : Append(s, x)[i] = s[i]
         /\ Extends(s, Append(s, x))
  BY DEF Extends

LEMMA ExtendsItself ==
  ASSUME NEW T, NEW s \in Seq(T)
  PROVE  Extends(s, s)
  BY DEF Extends

LEMMA LongerItself ==
  ASSUME NEW T \in Tapes
  PROVE  Longer(T, T)
  <1>1. /\ Extends(T.responses, T.responses) /\ Extends(T.fixtures, T.fixtures)
        /\ Extends(T.snapshots, T.snapshots)
    BY ExtendsItself DEF Tapes
  <1>2. \A t \in Guarded : Extends(T.policies[t], T.policies[t])
    BY ExtendsItself DEF Tapes
  <1> QED BY <1>1, <1>2 DEF Longer

LEMMA LongerTrans ==
  ASSUME NEW T \in Tapes, NEW U \in Tapes, NEW V \in Tapes, Longer(T, U), Longer(U, V)
  PROVE  Longer(T, V)
  <1>1. \A S : \A s, t, u \in Seq(S) : Extends(s, t) /\ Extends(t, u) => Extends(s, u)
    <2> SUFFICES ASSUME NEW S, NEW s \in Seq(S), NEW t \in Seq(S), NEW u \in Seq(S),
                        Extends(s, t), Extends(t, u)
                 PROVE  Extends(s, u)
      OBVIOUS
    <2> QED BY DEF Extends
  <1>2. Extends(T.responses, V.responses)
    BY <1>1 DEF Tapes, Longer
  <1>3. Extends(T.fixtures, V.fixtures)
    BY <1>1 DEF Tapes, Longer
  <1>4. Extends(T.snapshots, V.snapshots)
    BY <1>1 DEF Tapes, Longer
  <1>5. ASSUME NEW t \in Guarded
        PROVE  Extends(T.policies[t], V.policies[t])
    <2>1. /\ T.policies[t] \in Seq({"allowed", "denied"}) /\ U.policies[t] \in Seq({"allowed", "denied"})
          /\ V.policies[t] \in Seq({"allowed", "denied"})
      BY DEF Tapes
    <2>2. Extends(T.policies[t], U.policies[t]) /\ Extends(U.policies[t], V.policies[t])
      BY DEF Longer
    <2> QED BY <1>1, <2>1, <2>2
  <1> QED BY <1>2, <1>3, <1>4, <1>5 DEF Longer

\* What a step of the run records comes after what there is.
LEMMA TapesGrow ==
  ASSUME NEW c \in Moments, NEW d \in Moments, Follows(c, d)
  PROVE  Longer(c.tape, d.tape)
  <1>0. Longer(c.tape, c.tape)
    BY MomentFields, LongerItself
  <1>1. ASSUME NEW a \in Answers,
               d.tape = [c.tape EXCEPT !.responses =
                           Append(@, [visit |-> c.visit, stage |-> c.stage, answer |-> a])]
        PROVE  Longer(c.tape, d.tape)
    <2> DEFINE x == [visit |-> c.visit, stage |-> c.stage, answer |-> a]
    <2>1. x \in Responses
      BY MomentFields DEF Responses
    <2> HIDE DEF x
    <2>2. Extends(c.tape.responses, Append(c.tape.responses, x))
      BY <2>1, MomentFields, LastOne
    <2>3. d.tape.responses = Append(c.tape.responses, x) /\ d.tape.fixtures = c.tape.fixtures
          /\ d.tape.snapshots = c.tape.snapshots /\ d.tape.policies = c.tape.policies
      BY <1>1, MomentFields DEF Tapes, x
    <2> QED BY <1>0, <2>2, <2>3 DEF Longer
  <1>2. ASSUME NEW f \in Fixtures, d.tape = [c.tape EXCEPT !.fixtures = Append(@, f)]
        PROVE  Longer(c.tape, d.tape)
    <2>2. Extends(c.tape.fixtures, Append(c.tape.fixtures, f))
      BY MomentFields, LastOne
    <2>3. d.tape.fixtures = Append(c.tape.fixtures, f) /\ d.tape.responses = c.tape.responses
          /\ d.tape.snapshots = c.tape.snapshots /\ d.tape.policies = c.tape.policies
      BY <1>2, MomentFields DEF Tapes
    <2> QED BY <1>0, <2>2, <2>3 DEF Longer
  <1>3. ASSUME NEW t, NEW v \in {"allowed", "denied"},
               d.tape = [c.tape EXCEPT !.policies[t] = Append(@, v)]
        PROVE  Longer(c.tape, d.tape)
    <2>1. d.tape.policies = [c.tape.policies EXCEPT ![t] = Append(@, v)]
          /\ d.tape.responses = c.tape.responses
          /\ d.tape.snapshots = c.tape.snapshots /\ d.tape.fixtures = c.tape.fixtures
      BY <1>3, MomentFields DEF Tapes
    <2>2. ASSUME NEW u \in Guarded
          PROVE  Extends(c.tape.policies[u], d.tape.policies[u])
      <3>1. c.tape.policies[u] \in Seq({"allowed", "denied"})
        BY MomentFields
      <3>2. Extends(c.tape.policies[u], c.tape.policies[u])
            /\ Extends(c.tape.policies[u], Append(c.tape.policies[u], v))
        BY <3>1, LastOne, ExtendsItself
      <3>3. d.tape.policies[u] \in {c.tape.policies[u], Append(c.tape.policies[u], v)}
        BY <2>1, MomentFields
      <3> QED BY <3>2, <3>3
    <2> QED BY <1>0, <2>1, <2>2 DEF Longer
  <1>4. ASSUME d.tape = [c.tape EXCEPT !.snapshots =
                           Append(@, [visit |-> c.visit, output |-> c.output])],
               c.output.value # "invalid"
        PROVE  Longer(c.tape, d.tape)
    <2> DEFINE x == [visit |-> c.visit, output |-> c.output]
    <2>1. x \in Snapshots
      BY <1>4, MomentFields DEF Snapshots, Outputs, Values
    <2> HIDE DEF x
    <2>2. Extends(c.tape.snapshots, Append(c.tape.snapshots, x))
      BY <2>1, MomentFields, LastOne
    <2>3. d.tape.snapshots = Append(c.tape.snapshots, x) /\ d.tape.fixtures = c.tape.fixtures
          /\ d.tape.responses = c.tape.responses /\ d.tape.policies = c.tape.policies
      BY <1>4, MomentFields DEF Tapes, x
    <2> QED BY <1>0, <2>2, <2>3 DEF Longer
  <1>5. CASE IsAsked(c, d)
    BY <1>1, <1>5 DEF IsAsked
  <1>6. CASE IsChecked(c, d)
    <2>1. \E t : \E v \in {"allowed", "denied"} : d.tape = [c.tape EXCEPT !.policies[t] = Append(@, v)]
      BY <1>6 DEF IsChecked
    <2> QED BY <1>3, <2>1
  <1>7. CASE IsCalled(c, d)
    <2>1. \E f \in Fixtures : d.tape = [c.tape EXCEPT !.fixtures = Append(@, f)]
      BY <1>7 DEF IsCalled
    <2> QED BY <1>2, <2>1
  <1>8. CASE IsCompleted(c, d)
    BY <1>4, <1>8 DEF IsCompleted
  <1>9. CASE d.tape = c.tape
    BY <1>0, <1>9
  <1> QED BY <1>5, <1>6, <1>7, <1>8, <1>9
          DEF Follows, Enters, IsDown, Dispatches, IsRefused, IsLeft

LEMMA FitsNext ==
  ASSUME NEW c \in Moments, NEW d \in Moments, Follows(c, d), Fits(c)
  PROVE  Fits(d)
  <1> USE PointsReached
  <1>1. CASE Enters(c, d)
    <2>1. CASE d.pc = "ended"
      BY <2>1 DEF Fits
    <2>2. CASE d.pc = "asking" /\ AsksIn(c) /\ d.stage = c.stage
      BY <2>2 DEF Fits, AsksIn
    <2>3. CASE d.pc = ToolPoint(Executes[c.stage]) /\ ~AsksIn(c) /\ d.stage = c.stage
               /\ d.answer = Call(Executes[c.stage], TRUE, "plain")
      <3>1. Executes[c.stage] \in Tools
        BY <2>3, MomentFields, WorkflowAssumption DEF AsksIn
      <3> QED BY <2>3, <3>1 DEF Fits, ToolPoint, Call
    <2> QED BY <1>1, <2>1, <2>2, <2>3 DEF Enters
  <1>2. CASE IsAsked(c, d)
    <2> DEFINE rec(a) == [visit |-> c.visit, stage |-> c.stage, answer |-> a]
    <2>1. PICK a \in Answers :
            /\ d.tape = [c.tape EXCEPT !.responses = Append(@, rec(a))]
            /\ d.pc = IF a.kind = "call" THEN "dispatch" ELSE "returned"
            /\ d.answer = a /\ d.stage = c.stage /\ AsksIn(c)
            /\ d.output = IF a.kind = "call" THEN c.output
                          ELSE [value |-> a.value, masked |-> FALSE]
      BY <1>2 DEF IsAsked, SameVisit, Fits
    <2>2. rec(a) \in Responses
      BY MomentFields DEF Responses
    <2>3. d.tape.responses = Append(c.tape.responses, rec(a))
      BY <2>1, MomentFields DEF Tapes
    <2>4. \E i \in DOMAIN d.tape.responses :
            d.tape.responses[i].stage = d.stage /\ d.tape.responses[i].answer = d.answer
      <3>1. rec(a).stage = d.stage /\ rec(a).answer = d.answer
        BY <2>1
      <3> HIDE DEF rec
      <3>2. /\ Len(c.tape.responses) + 1 \in DOMAIN d.tape.responses
            /\ d.tape.responses[Len(c.tape.responses) + 1] = rec(a)
        BY <2>2, <2>3, LastOne, MomentFields
      <3> QED BY <3>1, <3>2
    <2> QED BY <2>1, <2>4 DEF Fits, AsksIn
  <1>3. CASE Dispatches(c, d)
    <2>1. AsksIn(c) /\ d.stage = c.stage /\ d.answer = c.answer
      BY <1>3 DEF Dispatches, SameVisit, Fits
    <2>2. CASE d.pc = "asking"
      BY <2>1, <2>2 DEF Fits, AsksIn
    <2>3. CASE d.pc = ToolPoint(c.answer.tool) /\ c.answer.tool \in Allows[c.stage]
      <3>1. c.answer.tool \in Tools
        BY <2>3, MomentFields, WorkflowAssumption
      <3> QED BY <2>1, <2>3, <3>1 DEF Fits, ToolPoint
    <2> QED BY <1>3, <2>2, <2>3 DEF Dispatches
  <1>4. CASE IsChecked(c, d)
    <2>1. c.answer.tool \in Tools /\ d.answer = c.answer /\ d.stage = c.stage
      BY <1>4 DEF IsChecked, SameTurn, SameVisit, Fits
    <2>2. d.pc \in {"tool", "ended"} \/ (d.pc = "asking" /\ AsksIn(c))
      BY <1>4 DEF IsChecked
    <2> QED BY <2>1, <2>2 DEF Fits, AsksIn
  <1>5. CASE IsCalled(c, d)
    <2>1. d.stage = c.stage
      BY <1>5 DEF IsCalled, SameTurn, SameVisit
    <2>2. \/ d.pc = "ended"
          \/ d.pc = "asking" /\ AsksIn(c)
          \/ d.pc = "returned" /\ (d.output.masked => Passable(c.stage, d.output.value))
      <3> DEFINE start == CalledIn(c, "tool_call_started")
                 ks(kind) == <<start, CalledIn(c, kind)>>
      <3>1. PICK f \in Fixtures :
              \/ Errs(c, d, ks("tool_call_failed"))
              \/ Fails(c, d, ks("tool_call_failed"))
              \/ AsksIn(c) /\ GoesOn(c, d, ks("tool_call_completed"), "asking")
              \/ /\ f.mask = "nested" => Passable(c.stage, f.result)
                 /\ f.mask \in {"clear", "nested"}
                 /\ d.output = [value |-> f.result, masked |-> f.mask # "clear"]
                 /\ GoesOn(c, d, ks("tool_call_completed"), "returned")
        BY <1>5 DEF IsCalled
      <3> HIDE DEF ks
      <3>2. CASE /\ f.mask = "nested" => Passable(c.stage, f.result)
                 /\ f.mask \in {"clear", "nested"}
                 /\ d.output = [value |-> f.result, masked |-> f.mask # "clear"]
                 /\ GoesOn(c, d, ks("tool_call_completed"), "returned")
        <4>1. d.pc = "returned"
          BY <3>2
        <4>2. d.output.value = f.result /\ d.output.masked = (f.mask # "clear")
          BY <3>2
        <4>3. d.output.masked => f.mask = "nested"
          BY <3>2, <4>2
        <4> QED BY <3>2, <4>1, <4>2, <4>3
      <3> QED BY <3>1, <3>2
    <2> QED BY <2>1, <2>2 DEF Fits, AsksIn
  <1>6. CASE IsRefused(c, d)
    <2>1. d.pc = "ended" \/ (d.pc = "asking" /\ AsksIn(c) /\ d.stage = c.stage)
      BY <1>6 DEF IsRefused, SameVisit
    <2> QED BY <2>1 DEF Fits, AsksIn
  <1>7. CASE IsCompleted(c, d)
    <2>1. /\ c.pc = "returned" /\ d.pc = "after" /\ d.stage = c.stage /\ d.output = c.output
          /\ c.output.value # "invalid"
      BY <1>7 DEF IsCompleted, SameTurn, SameVisit
    <2> QED BY <2>1 DEF Fits
  <1>8. CASE IsLeft(c, d)
    <2>1. d.pc \in {"ended", "loop"}
      BY <1>8 DEF IsLeft
    <2> QED BY <2>1 DEF Fits
  <1>9. CASE IsDown(c, d)
    <2>1. d.pc = "ended"
      BY <1>9 DEF IsDown
    <2> QED BY <2>1 DEF Fits
  <1> QED BY <1>1, <1>2, <1>3, <1>4, <1>5, <1>6, <1>7, <1>8, <1>9 DEF Follows

\* A moment is not followed by another once the run has ended.
LEMMA NothingFollowsEnd ==
  ASSUME NEW c, NEW d, Follows(c, d)
  PROVE  c.pc # "ended"
  BY DEF Follows, Enters, IsAsked, IsDown, Dispatches, IsChecked, IsCalled, IsRefused,
         IsCompleted, IsLeft

LEMMA CheckedPoints ==
  ASSUME IsChecked(Now, Now')
  PROVE  /\ pc' \in {"tool", "asking", "ended"} /\ pc = "policy" /\ SameVisit(Now, Now')
         /\ \E t, v : tape' = [tape EXCEPT !.policies[t] = Append(@, v)]
  <1>1. PICK keys, v :
          /\ tape' = [tape EXCEPT !.policies[answer.tool] = Append(@, v)]
          /\ GoesOn(Now, Now', keys, "tool") \/ Errs(Now, Now', keys)
    BY DEF IsChecked, Now
  <1>2. pc' \in {"tool", "asking", "ended"}
    BY <1>1 DEF GoesOn, Errs, Fails, Now
  <1>3. pc = "policy" /\ SameVisit(Now, Now')
    BY DEF IsChecked, SameTurn, Now
  <1> QED BY <1>1, <1>2, <1>3

LEMMA CalledPoints ==
  ASSUME IsCalled(Now, Now')
  PROVE  /\ pc' \in {"returned", "asking", "ended"} /\ pc = "tool" /\ SameVisit(Now, Now')
         /\ \E f : tape' = [tape EXCEPT !.fixtures = Append(@, f)]
  <1>1. PICK f \in Fixtures : tape' = [tape EXCEPT !.fixtures = Append(@, f)]
    BY DEF IsCalled, Now
  <1>2. PICK keys : \/ GoesOn(Now, Now', keys, "asking") \/ GoesOn(Now, Now', keys, "returned")
                    \/ Errs(Now, Now', keys) \/ Fails(Now, Now', keys)
    BY DEF IsCalled
  <1>3. pc' \in {"returned", "asking", "ended"}
    BY <1>2 DEF GoesOn, Errs, Fails, Now
  <1>4. pc = "tool" /\ SameVisit(Now, Now')
    BY DEF IsCalled, SameTurn, Now
  <1> QED BY <1>1, <1>3, <1>4

\* What a live step records of the visits.
LEMMA VisitsGoOn ==
  ASSUME ReplayTypes, ReplayTypes', Live, RunInv, Follows(Now, Now'), VisitOpen', mode' = mode,
         pc' = "ended" => ~LateFailure \/ Settled
  PROVE  RunInv'
  <1> DEFINE has(T, v) == \E i \in DOMAIN T.snapshots : T.snapshots[i].visit = v
             rec(a) == [visit |-> visit, stage |-> stage, answer |-> a]
             snap == [visit |-> visit, output |-> output]
  <1>0. /\ tape.responses \in Seq(Responses) /\ tape.snapshots \in Seq(Snapshots)
        /\ Now \in Moments /\ Now' \in Moments /\ tape' \in Tapes
    <2>1. Now \in Moments /\ Now' \in Moments
      BY NowTyped, NowTypedNext
    <2>2. tape.responses \in Seq(Responses) /\ tape.snapshots \in Seq(Snapshots)
      BY TypesUnfolded DEF Tapes
    <2>3. tape' \in Tapes
      BY DEF ReplayTypes
    <2> QED BY <2>1, <2>2, <2>3
  <1>1. Fits(Now)'
    BY <1>0, FitsNext DEF RunInv
  <1>2. pc' \in InVisit => ~has(tape', visit')
    <2>1. Live'
      BY DEF Live
    <2> QED BY <2>1 DEF VisitOpen, InVisit
  <1>3. \A v : Recorded(v) => has(tape', v)
    <2>1. Extends(tape.snapshots, tape'.snapshots)
      <3>1. Longer(Now.tape, (Now').tape)
        BY <1>0, TapesGrow
      <3> QED BY <3>1 DEF Longer, Now
    <2>2. DOMAIN tape.snapshots = 1 .. Len(tape.snapshots)
          /\ DOMAIN tape'.snapshots = 1 .. Len(tape'.snapshots)
          /\ Len(tape.snapshots) \in Nat /\ Len(tape'.snapshots) \in Nat
      BY <1>0 DEF Tapes
    <2> QED BY <2>1, <2>2 DEF Recorded, Extends
  <1> DEFINE kept == \A i \in DOMAIN tape'.responses :
                       \/ has(tape', tape'.responses[i].visit)
                       \/ pc' \in InVisit /\ tape'.responses[i].visit = visit'
             there == \E i \in DOMAIN tape'.responses : tape'.responses[i].visit = visit'
             Busy == {"dispatch", "policy", "tool", "returned"}
             goal == kept /\ (pc' \in Busy /\ IsModel' => there)
  <1>4. ASSUME tape'.responses = tape.responses, Settled PROVE kept
    BY <1>3, <1>4 DEF Settled
  <1>5. ASSUME tape'.responses = tape.responses, visit' = visit, pc \in InVisit, pc' \in InVisit
        PROVE  kept
    BY <1>3, <1>5 DEF RunInv
  <1>6. ASSUME pc \notin InVisit PROVE Settled
    BY <1>6 DEF RunInv, Settled
  <1>7. ASSUME ~LateFailure PROVE Settled
    BY <1>7 DEF RunInv, Settled, LateFailure
  <1>8. ASSUME pc \in Busy, IsModel, tape'.responses = tape.responses, visit' = visit PROVE there
    BY <1>8 DEF RunInv
  <1> SUFFICES goal
    BY <1>1, <1>2 DEF RunInv, Recorded
  <1>9. CASE pc' = "ended" /\ tape'.responses = tape.responses
    <2>1. Settled
      BY <1>7, <1>9
    <2>2. kept /\ pc' \notin Busy
      BY <1>4, <1>9, <2>1
    <2> QED BY <2>2
  <1>10. CASE Enters(Now, Now') /\ pc' # "ended"
    <2>1. /\ pc = "loop" /\ tape' = tape /\ stage' = stage
          /\ \/ pc' = "asking"
             \/ ~AsksIn(Now)
      BY <1>10 DEF Enters, GoesOn, Fails, Now
    <2>2. kept
      BY <1>4, <1>6, <2>1 DEF InVisit
    <2>3. pc' \in Busy => ~IsModel'
      BY <2>1 DEF AsksIn, IsModel, Now
    <2> QED BY <2>2, <2>3
  <1>11. CASE IsAsked(Now, Now')
    <2>1. PICK a \in Answers :
            /\ tape' = [tape EXCEPT !.responses = Append(@, rec(a))]
            /\ pc = "asking" /\ pc' \in InVisit /\ visit' = visit
      BY <1>11 DEF IsAsked, GoesOn, SameVisit, Now, InVisit
    <2>2. rec(a) \in Responses /\ rec(a).visit = visit
      BY TypesUnfolded, Bounds DEF Responses
    <2> DEFINE n == Len(tape.responses)
    <2>3. /\ DOMAIN tape'.responses = 1 .. n + 1 /\ DOMAIN tape.responses = 1 .. n /\ n \in Nat
          /\ tape'.responses[n + 1].visit = visit'
          /\ \A i \in 1 .. n : tape'.responses[i] = tape.responses[i]
      <3>1. tape'.responses = Append(tape.responses, rec(a))
        BY <2>1, TypesUnfolded DEF Tapes
      <3> HIDE DEF rec
      <3> QED BY <1>0, <2>1, <2>2, <3>1, LastOne
    <2> HIDE DEF n
    <2>4. kept
      <3> SUFFICES ASSUME NEW i \in 1 .. n + 1
                   PROVE  \/ has(tape', tape'.responses[i].visit)
                          \/ pc' \in InVisit /\ tape'.responses[i].visit = visit'
        BY <2>3
      <3>1. CASE i = n + 1
        BY <3>1, <2>1, <2>3
      <3>2. CASE i \in 1 .. n
        BY <3>2, <2>1, <2>3, <1>3 DEF RunInv
      <3> QED BY <3>1, <3>2, <2>3
    <2>5. there
      BY <2>3
    <2> QED BY <2>4, <2>5
  <1>12. CASE (Dispatches(Now, Now') \/ IsChecked(Now, Now') \/ IsCalled(Now, Now')
               \/ IsRefused(Now, Now')) /\ pc' # "ended"
    <2>1. /\ pc \in Busy /\ visit' = visit /\ stage' = stage
          /\ tape'.responses = tape.responses /\ pc' \in InVisit
      <3>1. CASE Dispatches(Now, Now')
        BY <1>12, <3>1, PointsReached DEF Dispatches, SameVisit, Now, InVisit, ToolPoint, GoesOn
      <3>2. CASE IsChecked(Now, Now')
        <4>1. pc' \in {"tool", "asking", "ended"} /\ pc = "policy" /\ SameVisit(Now, Now')
          BY <3>2, CheckedPoints
        <4>2. \E t, v : tape' = [tape EXCEPT !.policies[t] = Append(@, v)]
          BY <3>2, CheckedPoints
        <4>3. tape'.responses = tape.responses
          BY <4>2, TypesUnfolded DEF Tapes
        <4> QED BY <1>12, <4>1, <4>3 DEF SameVisit, InVisit, Now
      <3>3. CASE IsCalled(Now, Now')
        <4>1. pc' \in {"returned", "asking", "ended"} /\ pc = "tool" /\ SameVisit(Now, Now')
          BY <3>3, CalledPoints
        <4>2. \E f : tape' = [tape EXCEPT !.fixtures = Append(@, f)]
          BY <3>3, CalledPoints
        <4>3. tape'.responses = tape.responses
          BY <4>2, TypesUnfolded DEF Tapes
        <4> QED BY <1>12, <4>1, <4>3 DEF SameVisit, InVisit, Now
      <3>4. CASE IsRefused(Now, Now')
        BY <1>12, <3>4, PointsReached DEF IsRefused, SameVisit, Now, InVisit, GoesOn, Fails
      <3> QED BY <1>12, <3>1, <3>2, <3>3, <3>4
    <2>2. kept
      BY <1>5, <2>1 DEF InVisit
    <2>3. IsModel' => IsModel
      BY <2>1 DEF IsModel
    <2> QED BY <1>8, <2>1, <2>2, <2>3
  <1>13. CASE IsCompleted(Now, Now')
    <2>1. /\ tape' = [tape EXCEPT !.snapshots = Append(@, snap)]
          /\ pc = "returned" /\ pc' = "after" /\ output.value # "invalid"
      BY <1>13 DEF IsCompleted, GoesOn, Now
    <2>2. tape'.responses = tape.responses /\ tape'.snapshots = Append(tape.snapshots, snap)
      BY <2>1, TypesUnfolded DEF Tapes
    <2>3. snap \in Snapshots /\ snap.visit = visit
      BY <2>1, TypesUnfolded, Bounds DEF Snapshots, Outputs, Values
    <2>4. has(tape', visit)
      <3> HIDE DEF snap
      <3>1. /\ Len(tape.snapshots) + 1 \in DOMAIN tape'.snapshots
            /\ tape'.snapshots[Len(tape.snapshots) + 1].visit = visit
        BY <1>0, <2>2, <2>3, LastOne
      <3> QED BY <3>1
    <2>5. visit' = visit
      BY <1>13 DEF IsCompleted, SameTurn, SameVisit, Now
    <2>6. kept
      <3> SUFFICES ASSUME NEW i \in DOMAIN tape.responses
                   PROVE  has(tape', tape.responses[i].visit)
        BY <2>2
      <3>1. Recorded(tape.responses[i].visit) \/ tape.responses[i].visit = visit
        BY DEF RunInv
      <3> HIDE DEF has
      <3> QED BY <1>3, <2>4, <3>1
    <2> QED BY <2>1, <2>6
  <1>14. CASE IsLeft(Now, Now') /\ pc' # "ended"
    <2>1. pc = "after" /\ pc' = "loop" /\ tape' = tape
      BY <1>14 DEF IsLeft, GoesOn, Fails, Now
    <2> QED BY <1>4, <1>6, <2>1 DEF InVisit
  <1>15. CASE IsDown(Now, Now') \/ (pc' = "ended" /\ ~IsAsked(Now, Now') /\ ~IsCompleted(Now, Now'))
    <2>1. pc' = "ended" /\ tape'.responses = tape.responses
      <3>1. CASE IsDown(Now, Now')
        BY <3>1 DEF IsDown, Fails, Now
      <3>2. CASE Enters(Now, Now') \/ Dispatches(Now, Now') \/ IsRefused(Now, Now') \/ IsLeft(Now, Now')
        <4>1. tape' = tape
          BY <3>2 DEF Enters, Dispatches, IsRefused, IsLeft, Now
        <4> QED BY <1>15, <4>1, <3>1
      <3>3. CASE IsChecked(Now, Now')
        <4>1. \E t, v : tape' = [tape EXCEPT !.policies[t] = Append(@, v)]
          BY <3>3, CheckedPoints
        <4> QED BY <1>15, <4>1, <3>1, TypesUnfolded DEF Tapes
      <3>4. CASE IsCalled(Now, Now')
        <4>1. \E f : tape' = [tape EXCEPT !.fixtures = Append(@, f)]
          BY <3>4, CalledPoints
        <4> QED BY <1>15, <4>1, <3>1, TypesUnfolded DEF Tapes
      <3> QED BY <1>15, <3>1, <3>2, <3>3, <3>4 DEF Follows
    <2> QED BY <1>9, <2>1
  <1> HIDE DEF goal, kept, there
  <1> QED BY <1>10, <1>11, <1>12, <1>13, <1>14, <1>15 DEF Follows

-----------------------------------------------------------------------------
(* The replay: what was recorded next happens next.                         *)

\* The replay is at c, and d is what the run did next.
Reading(c, d) ==
  /\ ReplayTypes /\ ~Live /\ ~Aliased /\ Settled /\ CallsNamed /\ StubsUsable
  /\ c \in Moments /\ d \in Moments /\ Fits(c) /\ Follows(c, d) /\ Longer(d.tape, tape)
  /\ d.pc = "ended" => d.tape = tape
  /\ At(c)

LEMMA ReadingTyped ==
  ASSUME NEW c, NEW d, Reading(c, d)
  PROVE  /\ pc = c.pc /\ replayed = c.ledger /\ outcome.replay = c.outcome /\ outcome \in Outcomes
         /\ c.pc # "ended" /\ Turns(c) /\ Reads(c) /\ head \in Heads /\ tape \in Tapes
         /\ (IsModel <=> AsksIn(c)) /\ mode = "replay"
  <1>1. c.pc # "ended"
    BY NothingFollowsEnd DEF Reading
  <1>2. Turns(c) /\ Reads(c) /\ Stands(c)
    BY <1>1 DEF Reading, At, Stands
  <1>3. IsModel <=> AsksIn(c)
    BY <1>2 DEF Turns, IsModel, AsksIn
  <1>4. head \in Heads /\ tape \in Tapes /\ outcome \in Outcomes /\ mode = "replay"
    BY TypesUnfolded, OutcomeTyped, Typed DEF Reading, Live
  <1> QED BY <1>1, <1>2, <1>3, <1>4 DEF Stands

LEMMA ReadFails ==
  ASSUME NEW c, NEW d, Reading(c, d), NEW keys, NEW more, Fail(keys, more), Fails(c, d, keys),
         d.tape.snapshots = c.tape.snapshots, head'.outputs = head.outputs
  PROVE  At(d)'
  <1>1. Emits(Append(keys, <<"run_failed">>), more \union (IF LateFailure THEN {"late_failure"} ELSE {}))
        /\ outcome' = [outcome EXCEPT ![mode] = "failed"] /\ pc' = "ended"
    BY DEF Fail
  <1>2. replayed' = replayed \o Append(keys, <<"run_failed">>)
    BY <1>1 DEF Emits, Reading
  <1>3. outcome'.replay = "failed"
    BY <1>1, ReadingTyped DEF Outcomes
  <1>4. Stands(d)'
    BY <1>1, <1>2, <1>3, ReadingTyped DEF Stands, Fails
  <1>5. Returns(d)'
    BY DEF Returns, Reading, At
  <1> QED BY <1>1, <1>4, <1>5 DEF At

LEMMA ReadGoes ==
  ASSUME NEW c, NEW d, Reading(c, d), NEW keys, NEW more, Emits(keys, more), UNCHANGED outcome,
         GoesOn(c, d, keys, pc')
  PROVE  Stands(d)'
  BY ReadingTyped DEF Stands, GoesOn, Emits, Reading

\* An error of a tool ends both runs, or neither.
LEMMA ReadErrs ==
  ASSUME NEW c, NEW d, Reading(c, d), NEW keys, NEW more, ToolError(keys, more),
         Errs(c, d, keys), d.tape.snapshots = c.tape.snapshots, head'.outputs = head.outputs
  PROVE  At(d)' \/ (Stands(d)' /\ pc' = "asking")
  <1>1. RetryIn(c) = Retry
    BY ReadingTyped DEF RetryIn, KeyIn, Retry, Key, Turns
  <1>2. CASE IsModel /\ Emits(Append(keys, Retry), more) /\ pc' = "asking" /\ UNCHANGED outcome
    BY <1>1, <1>2, ReadingTyped, ReadGoes DEF Errs
  <1>3. CASE ~IsModel /\ Fail(keys, more)
    BY <1>3, ReadingTyped, ReadFails DEF Errs
  <1> QED BY <1>2, <1>3 DEF ToolError

\* What is kept when nothing is read or returned.
LEMMA ReadSame ==
  ASSUME NEW c, NEW d, Reading(c, d), d.tape = c.tape, UNCHANGED head, Stands(d)', Turns(d)'
  PROVE  At(d)'
  <1>1. Returns(d)'
    BY DEF Returns, Reading, At
  <1>2. Reads(d)'
    BY ReadingTyped DEF Reads
  <1> QED BY <1>1, <1>2 DEF At

LEMMA EntersRead ==
  ASSUME NEW c, NEW d, Reading(c, d), EnterStage
  PROVE  At(d)'
  <1>1. pc = "loop" /\ UNCHANGED <<mode, stage, output, tape, head, missed>>
    BY DEF EnterStage
  <1>2. Enters(c, d)
    BY <1>1, ReadingTyped DEF Reading, Follows, Enters, IsAsked, IsDown, Dispatches, IsChecked,
       IsCalled, IsRefused, IsCompleted, IsLeft
  <1>3. visit = c.visit /\ stage = c.stage /\ d.tape = c.tape /\ c.visit \in Nat /\ MaxSteps \in Nat
    BY <1>2, ReadingTyped, MomentFields, Bounds DEF Turns, Enters, Reading
  <1>4. CASE visit = MaxSteps /\ Fail(<< >>, {})
    <2>1. ~(c.visit < MaxSteps)
      BY <1>3, <1>4
    <2>2. Fails(c, d, << >>)
      BY <1>2, <2>1 DEF Enters
    <2>3. d.tape.snapshots = c.tape.snapshots /\ head'.outputs = head.outputs
      BY <1>1, <1>3
    <2> QED BY <1>4, <2>2, <2>3, ReadFails
  <1>5. CASE /\ visit < MaxSteps
             /\ visit' = visit + 1
             /\ Emits(<<Key("stage_started", "")>>, {})
             /\ retries' = 0 /\ rounds' = 0
             /\ \/ IsModel /\ pc' = "asking" /\ answer' = NoAnswer
                \/ /\ ~IsModel
                   /\ pc' = ToolPoint(Executes[stage])
                   /\ answer' = Call(Executes[stage], TRUE, "plain")
             /\ UNCHANGED outcome
    <2>1. /\ GoesOn(c, d, <<Key("stage_started", "")>>, pc')
          /\ d.visit = visit' /\ d.stage = stage' /\ d.output = c.output
          /\ d.retries = 0 /\ d.rounds = 0 /\ d.answer = answer'
      <3>0. visit < MaxSteps
        BY <1>5
      <3>1. c.visit # MaxSteps
        BY <1>3, <3>0
      <3>2. /\ d.visit = c.visit + 1 /\ d.stage = c.stage /\ d.output = c.output
            /\ d.retries = 0 /\ d.rounds = 0
            /\ \/ /\ AsksIn(c) /\ GoesOn(c, d, <<KeyIn(c, "stage_started", "")>>, "asking")
                  /\ d.answer = NoAnswer
               \/ /\ ~AsksIn(c)
                  /\ GoesOn(c, d, <<KeyIn(c, "stage_started", "")>>, ToolPoint(Executes[c.stage]))
                  /\ d.answer = Call(Executes[c.stage], TRUE, "plain")
        BY <1>2, <3>1 DEF Enters
      <3>3. Key("stage_started", "") = KeyIn(c, "stage_started", "")
        BY <1>3 DEF Key, KeyIn
      <3>4. CASE IsModel
        BY <1>1, <1>3, <1>5, <3>2, <3>3, <3>4, ReadingTyped
      <3>5. CASE ~IsModel
        BY <1>1, <1>3, <1>5, <3>2, <3>3, <3>5, ReadingTyped
      <3> QED BY <3>4, <3>5
    <2>2. Stands(d)'
      BY <1>5, <2>1, ReadGoes
    <2>3. Turns(d)'
      BY <1>1, <1>5, <2>1, ReadingTyped DEF Turns
    <2> QED BY <1>1, <1>3, <2>2, <2>3, ReadSame
  <1> QED BY <1>4, <1>5 DEF EnterStage

\* All responses of a stage are read in the order they were recorded, so the
\* next to be read is the first that is not.
LEMMA NextResponse ==
  ASSUME NEW c, NEW d, Reading(c, d), IsAsked(c, d)
  PROVE  LET n == Len(c.tape.responses) IN
         /\ n \in Nat /\ d.tape.responses = Append(c.tape.responses, d.tape.responses[n + 1])
         /\ Len(d.tape.responses) = n + 1
         /\ tape.responses[n + 1] = d.tape.responses[n + 1]
         /\ tape.responses[n + 1].stage = stage /\ tape.responses[n + 1].answer = d.answer
         /\ n + 1 \in Waiting(stage) /\ \A i \in Waiting(stage) : n + 1 <= i
  <1> DEFINE n == Len(c.tape.responses)
             rec(a) == [visit |-> c.visit, stage |-> c.stage, answer |-> a]
  <1>0. c \in Moments /\ d \in Moments /\ Longer(d.tape, tape)
    BY DEF Reading
  <1>1. PICK a \in Answers : d.tape = [c.tape EXCEPT !.responses = Append(@, rec(a))] /\ d.answer = a
    BY DEF IsAsked
  <1>2. rec(a) \in Responses /\ rec(a).stage = stage /\ rec(a).answer = d.answer
    BY <1>0, <1>1, MomentFields, ReadingTyped DEF Responses, Turns
  <1>3. d.tape.responses = Append(c.tape.responses, rec(a))
    BY <1>0, <1>1, MomentFields DEF Tapes
  <1> HIDE DEF rec
  <1>4. /\ Len(d.tape.responses) = n + 1 /\ n \in Nat /\ d.tape.responses[n + 1] = rec(a)
        /\ \A i \in 1 .. n : d.tape.responses[i] = c.tape.responses[i]
    BY <1>0, <1>2, <1>3, LastOne, MomentFields
  <1>5. /\ DOMAIN tape.responses = 1 .. Len(tape.responses) /\ Len(tape.responses) \in Nat
    BY ReadingTyped DEF Tapes
  <1>6. /\ n + 1 <= Len(tape.responses) /\ tape.responses[n + 1] = rec(a)
        /\ \A i \in 1 .. n : tape.responses[i] = c.tape.responses[i]
    <2>1. Extends(d.tape.responses, tape.responses)
      BY <1>0 DEF Longer
    <2> HIDE DEF n
    <2>2. Len(d.tape.responses) <= Len(tape.responses)
          /\ \A i \in 1 .. n + 1 : tape.responses[i] = d.tape.responses[i]
      BY <1>4, <2>1 DEF Extends
    <2> QED BY <1>4, <1>5, <2>2
  <1>7. head.asked[stage] = {j \in 1 .. n : c.tape.responses[j].stage = stage}
    BY ReadingTyped, TypesUnfolded DEF Reads, Reading
  <1>8. n + 1 \in Queue(stage)
    BY <1>2, <1>4, <1>5, <1>6 DEF Queue, Settled, Reading
  <1>9. n + 1 \in Waiting(stage)
    BY <1>4, <1>7, <1>8 DEF Waiting
  <1>10. ASSUME NEW i \in Waiting(stage) PROVE n + 1 <= i
    <2>1. i \in 1 .. Len(tape.responses) /\ tape.responses[i].stage = stage /\ i \notin head.asked[stage]
      BY <1>5 DEF Waiting, Queue
    <2>2. ~(i \in 1 .. n)
      BY <1>6, <1>7, <2>1
    <2> QED BY <1>4, <1>5, <2>1, <2>2
  <1> QED BY <1>2, <1>3, <1>4, <1>6, <1>9, <1>10

LEMMA AskingFollows ==
  ASSUME NEW c, NEW d, Reading(c, d), pc = "asking"
  PROVE  IsAsked(c, d) \/ (IsDown(c, d) /\ Waiting(stage) = {})
  <1>1. IsAsked(c, d) \/ IsDown(c, d)
    BY ReadingTyped DEF Reading, Follows, Enters, IsAsked, IsDown, Dispatches, IsChecked,
       IsCalled, IsRefused, IsCompleted, IsLeft
  <1>2. ASSUME IsDown(c, d) PROVE Waiting(stage) = {}
    <2>1. d.tape = c.tape /\ d.pc = "ended"
      BY <1>2 DEF IsDown, Fails
    <2>2. c.tape = tape
      BY <2>1 DEF Reading
    <2>3. head.asked[stage] = {j \in 1 .. Len(tape.responses) : tape.responses[j].stage = stage}
      BY <2>2, ReadingTyped, TypesUnfolded DEF Reads, Reading
    <2>4. DOMAIN tape.responses = 1 .. Len(tape.responses)
      BY ReadingTyped DEF Tapes
    <2> QED BY <2>3, <2>4 DEF Waiting, Queue
  <1> QED BY <1>1, <1>2

LEMMA ServesRead ==
  ASSUME NEW c, NEW d, Reading(c, d), ServeResponse
  PROVE  At(d)'
  <1>1. pc = "asking" /\ UNCHANGED <<mode, stage, visit, retries, rounds, tape, outcome, missed>>
    BY DEF ServeResponse
  <1>2. PICK i \in Waiting(stage) :
          /\ \A j \in Waiting(stage) : i <= j
          /\ head' = [head EXCEPT !.asked[stage] = @ \union {i}]
          /\ Take(Taped(tape.responses[i].answer), {})
    BY DEF ServeResponse
  <1>3. IsAsked(c, d)
    BY <1>1, <1>2, AskingFollows
  <1> DEFINE n == Len(c.tape.responses)
  <1>4. /\ n \in Nat /\ d.tape.responses = Append(c.tape.responses, d.tape.responses[n + 1])
        /\ Len(d.tape.responses) = n + 1
        /\ d.tape.responses[n + 1].stage = stage /\ tape.responses[n + 1].answer = d.answer
        /\ n + 1 \in Waiting(stage) /\ \A k \in Waiting(stage) : n + 1 <= k
    BY <1>3, NextResponse
  <1>5. i = n + 1
    <2>1. i \in Nat
      BY ReadingTyped DEF Waiting, Queue, Tapes
    <2>2. i <= n + 1 /\ n + 1 <= i
      BY <1>2, <1>4
    <2> HIDE DEF n
    <2> QED BY <1>4, <2>1, <2>2
  <1> DEFINE a == d.answer
             rec(b) == [visit |-> c.visit, stage |-> c.stage, answer |-> b]
  <1>6. /\ Taped(a) = a /\ SameVisit(c, d) /\ d.retries = c.retries /\ d.rounds = c.rounds
        /\ d.tape = [c.tape EXCEPT !.responses = Append(@, rec(a))]
        /\ GoesOn(c, d, <<KeyIn(c, "model_completed", "")>>,
                  IF a.kind = "call" THEN "dispatch" ELSE "returned")
        /\ d.output = IF a.kind = "call" THEN c.output ELSE [value |-> a.value, masked |-> FALSE]
    BY <1>3 DEF IsAsked
  <1>7. Take(a, {})
    BY <1>2, <1>4, <1>5, <1>6
  <1>8. /\ d.tape.fixtures = c.tape.fixtures /\ d.tape.snapshots = c.tape.snapshots
        /\ d.tape.policies = c.tape.policies
    BY <1>6, MomentFields DEF Tapes, Reading
  <1>9. Stands(d)'
    <2>1. GoesOn(c, d, <<Key("model_completed", "")>>, pc')
      BY <1>6, <1>7, ReadingTyped DEF Take, Key, KeyIn, Turns
    <2> QED BY <1>1, <1>7, <2>1, ReadGoes DEF Take
  <1>10. Turns(d)'
    <2>1. output'.value = Shown(d.output)
      <3>1. CASE a.kind = "call"
        BY <1>6, <1>7, <3>1, ReadingTyped DEF Take, Turns
      <3>2. CASE a.kind # "call"
        <4>1. output' = [value |-> a.value, masked |-> a.secret]
          BY <1>7, <3>2 DEF Take
        <4>2. d.output = [value |-> a.value, masked |-> FALSE]
          BY <1>6, <3>2
        <4>3. output'.value = a.value
          BY <4>1
        <4>4. d.output.value = a.value /\ ~d.output.masked
          BY <4>2
        <4> QED BY <4>3, <4>4 DEF Shown
      <3> QED BY <3>1, <3>2
    <2> QED BY <1>1, <1>6, <1>7, <2>1, ReadingTyped DEF Take, Turns, SameVisit
  <1>11. /\ head'.outputs = head.outputs /\ head'.served = head.served /\ head'.checked = head.checked
         /\ head'.asked = [head.asked EXCEPT ![stage] = @ \union {n + 1}]
    BY <1>2, <1>5, ReadingTyped DEF Heads
  <1>12. Returns(d)'
    BY <1>8, <1>11 DEF Returns, Reading, At
  <1>13. ASSUME NEW s \in Stages
         PROVE  head'.asked[s] = {j \in 1 .. Len(d.tape.responses) : d.tape.responses[j].stage = s}
    <2>1. head.asked[s] = {j \in 1 .. n : c.tape.responses[j].stage = s}
      BY ReadingTyped DEF Reads
    <2>2. head'.asked[s] = IF s = stage THEN head.asked[s] \union {n + 1} ELSE head.asked[s]
      BY <1>11, ReadingTyped DEF Heads
    <2>3. \A j \in 1 .. n : d.tape.responses[j] = c.tape.responses[j]
      <3>1. \A j \in 1 .. n : Append(c.tape.responses, d.tape.responses[n + 1])[j] = c.tape.responses[j]
        BY MomentFields DEF Reading
      <3> QED BY <1>4, <3>1
    <2> HIDE DEF n
    <2>4. {j \in 1 .. n + 1 : d.tape.responses[j].stage = s} =
            {j \in 1 .. n : c.tape.responses[j].stage = s} \union
            (IF s = stage THEN {n + 1} ELSE {})
      BY <1>4, <2>3
    <2> QED BY <1>4, <2>1, <2>2, <2>4
  <1>14. Reads(d)'
    BY <1>8, <1>11, <1>13, ReadingTyped DEF Reads
  <1> QED BY <1>9, <1>10, <1>12, <1>14 DEF At

LEMMA MissesRead ==
  ASSUME NEW c, NEW d, Reading(c, d), MissResponse
  PROVE  At(d)'
  <1>1. /\ pc = "asking" /\ Waiting(stage) = {} /\ Fail(<< >>, {})
        /\ UNCHANGED <<mode, stage, visit, stageVars, output, tape, head>>
    BY DEF MissResponse
  <1>2. ~IsAsked(c, d)
    BY <1>1, NextResponse
  <1>3. IsDown(c, d)
    BY <1>1, <1>2, AskingFollows
  <1> QED BY <1>1, <1>3, ReadFails DEF IsDown

LEMMA DispatchRead ==
  ASSUME NEW c, NEW d, Reading(c, d), Dispatch
  PROVE  At(d)'
  <1>1. /\ pc = "dispatch"
        /\ UNCHANGED <<mode, stage, visit, retries, answer, output, tape, head, missed>>
    BY DEF Dispatch
  <1>2. Dispatches(c, d)
    BY <1>1, ReadingTyped DEF Reading, Follows, Enters, IsAsked, IsDown, Dispatches, IsChecked,
       IsCalled, IsRefused, IsCompleted, IsLeft
  <1>3. /\ rounds = c.rounds /\ stage = c.stage /\ answer = c.answer /\ d.tape = c.tape
        /\ rounds < MaxRounds /\ rounds \in Nat /\ AsksIn(c) /\ MaxRounds \in Nat
        /\ d.rounds = rounds + 1
    BY <1>1, <1>2, ReadingTyped, MomentFields, Bounds DEF Turns, Dispatches, Fits, Reading
  <1>4. /\ rounds' = rounds + 1
        /\ \/ /\ Refused(answer)
              /\ ToolError(<< >>, IF Misjudged(answer) THEN {"arguments"} ELSE {})
           \/ /\ ~Refused(answer) /\ pc' = ToolPoint(answer.tool)
              /\ UNCHANGED <<ledger, replayed, outcome>>
    <2>1. rounds # MaxRounds
      BY <1>3
    <2> QED BY <2>1 DEF Dispatch
  <1>5. Turns(d)'
    BY <1>1, <1>2, <1>3, <1>4, ReadingTyped DEF Turns, Dispatches, SameVisit
  <1>6. CASE /\ Refused(answer)
             /\ ToolError(<< >>, IF Misjudged(answer) THEN {"arguments"} ELSE {})
    <2>1. ~(answer.tool \in Allows[stage] /\ answer.good /\ answer.shape # "other")
      <3> SUFFICES ASSUME answer.tool \in Allows[stage], answer.good, answer.shape # "other"
                   PROVE  FALSE
        BY <1>2, <1>3 DEF Dispatches
      <3>1. PICK i \in DOMAIN c.tape.responses :
              c.tape.responses[i].stage = stage /\ c.tape.responses[i].answer = answer
        BY <1>1, <1>3, ReadingTyped DEF Fits, Reading
      <3>2. i \in DOMAIN tape.responses /\ tape.responses[i] = c.tape.responses[i]
        <4>1. Extends(c.tape.responses, tape.responses)
          BY <1>3 DEF Reading, Longer
        <4>2. /\ DOMAIN tape.responses = 1 .. Len(tape.responses) /\ Len(tape.responses) \in Nat
              /\ DOMAIN c.tape.responses = 1 .. Len(c.tape.responses)
              /\ Len(c.tape.responses) \in Nat
          BY ReadingTyped, MomentFields DEF Tapes, Reading
        <4> QED BY <4>1, <4>2 DEF Extends
      <3>3. answer.kind = "call"
        BY <1>1, ReadingTyped, <1>3 DEF Fits, Reading
      <3>4. Named(answer.tool)
        BY <3>1, <3>2, <3>3 DEF CallsNamed, Reading
      <3> QED BY <1>6, <3>4 DEF Refused, Reading
    <2>2. GoesOn(c, d, <<Retry>>, "asking")
      BY <1>2, <1>3, <2>1 DEF Dispatches, RetryIn, Retry, KeyIn, Key
    <2>3. PICK more : ToolError(<< >>, more)
      BY <1>6
    <2>4. Append(<< >>, Retry) = <<Retry>>
      OBVIOUS
    <2>5. Emits(<<Retry>>, more) /\ pc' = "asking" /\ UNCHANGED outcome
      BY <1>3, <2>3, <2>4, ReadingTyped DEF ToolError
    <2>6. Stands(d)'
      BY <2>2, <2>5, ReadGoes
    <2> QED BY <1>1, <1>3, <1>5, <2>6, ReadSame
  <1>7. CASE /\ ~Refused(answer) /\ pc' = ToolPoint(answer.tool)
             /\ UNCHANGED <<ledger, replayed, outcome>>
    <2>1. answer.tool \in Allows[stage] /\ answer.shape # "other"
      BY <1>7 DEF Refused, Reading
    <2>2. GoesOn(c, d, << >>, pc')
      BY <1>2, <1>3, <1>7, <2>1 DEF Dispatches
    <2>3. c.ledger \o << >> = c.ledger
      BY MomentFields DEF Reading
    <2>4. Stands(d)'
      BY <1>7, <2>2, <2>3, ReadingTyped DEF Stands, GoesOn
    <2> QED BY <1>1, <1>3, <1>5, <2>4, ReadSame
  <1> QED BY <1>4, <1>6, <1>7

LEMMA ChecksRead ==
  ASSUME NEW c, NEW d, Reading(c, d), CheckPolicy
  PROVE  At(d)'
  <1>1. pc = "policy" /\ UNCHANGED <<mode, stage, visit, stageVars, output, missed>>
    BY DEF CheckPolicy
  <1>2. IsChecked(c, d)
    BY <1>1, ReadingTyped DEF Reading, Follows, Enters, IsAsked, IsDown, Dispatches, IsChecked,
       IsCalled, IsRefused, IsCompleted, IsLeft
  <1> DEFINE t == answer.tool
             checked(denied) == Key("policy_checked", <<t, denied>>)
             wasDenied == Key("policy_denied", t)
             n == Len(c.tape.policies[t])
  <1>3. t = c.answer.tool /\ t \in Guarded /\ stage = c.stage
    BY <1>1, ReadingTyped DEF Turns, Fits, Reading
  <1>4. /\ checked(FALSE) = KeyIn(c, "policy_checked", <<c.answer.tool, FALSE>>)
        /\ checked(TRUE) = KeyIn(c, "policy_checked", <<c.answer.tool, TRUE>>)
        /\ wasDenied = KeyIn(c, "policy_denied", c.answer.tool)
    BY <1>3 DEF KeyIn, Key
  <1>5. PICK v \in {"allowed", "denied"} :
          /\ d.tape = [c.tape EXCEPT !.policies[t] = Append(@, v)]
          /\ \/ v = "allowed" /\ GoesOn(c, d, <<checked(FALSE)>>, "tool")
             \/ v = "denied" /\ Errs(c, d, <<checked(TRUE), wasDenied>>)
    BY <1>2, <1>3, <1>4 DEF IsChecked
  <1>6. PICK w \in Verdicts(t) :
          /\ \/ w = "allowed" /\ Emits(<<checked(FALSE)>>, {}) /\ pc' = "tool" /\ UNCHANGED outcome
             \/ w = "denied"  /\ ToolError(<<checked(TRUE), wasDenied>>, {})
             \/ w = "unavailable" /\ Fail(<<checked(TRUE)>>, {"unavailable"})
          /\ head' = IF head.checked[t] < Len(tape.policies[t])
                     THEN [head EXCEPT !.checked[t] = @ + 1] ELSE head
          /\ UNCHANGED tape
    BY DEF CheckPolicy, Reading
  <1> HIDE DEF checked, wasDenied
  <1>7. /\ d.tape.policies = [c.tape.policies EXCEPT ![t] = Append(@, v)]
        /\ d.tape.responses = c.tape.responses /\ d.tape.fixtures = c.tape.fixtures
        /\ d.tape.snapshots = c.tape.snapshots
    BY <1>5, MomentFields DEF Tapes, Reading
  <1>8. /\ d.tape.policies[t] = Append(c.tape.policies[t], v)
        /\ Len(d.tape.policies[t]) = n + 1 /\ n \in Nat
        /\ d.tape.policies[t][n + 1] = v
        /\ \A u \in Guarded : u # t => d.tape.policies[u] = c.tape.policies[u]
    <2>1. /\ c.tape.policies \in [Guarded -> Seq({"allowed", "denied"})]
          /\ c.tape.policies[t] \in Seq({"allowed", "denied"})
      BY <1>3, MomentFields DEF Reading
    <2>2. /\ d.tape.policies[t] = Append(c.tape.policies[t], v)
          /\ \A u \in Guarded : u # t => d.tape.policies[u] = c.tape.policies[u]
      BY <1>3, <1>7, <2>1
    <2> DEFINE p == c.tape.policies[t]
    <2> HIDE DEF p
    <2>3. /\ Len(Append(p, v)) = Len(p) + 1 /\ Len(p) \in Nat /\ Append(p, v)[Len(p) + 1] = v
      <3>1. p \in Seq({"allowed", "denied"})
        BY <2>1 DEF p
      <3> QED BY <3>1, LastOne
    <2> QED BY <2>2, <2>3 DEF p
  <1>9. Extends(d.tape.policies[t], tape.policies[t])
    BY <1>3 DEF Reading, Longer
  <1>10. head.checked[t] = n /\ n < Len(tape.policies[t]) /\ tape.policies[t][n + 1] = v
    <2>1. head.checked[t] = n
      BY <1>3, ReadingTyped DEF Reads
    <2>2. Len(tape.policies[t]) \in Nat
      BY <1>3, ReadingTyped DEF Tapes
    <2> HIDE DEF n
    <2> QED BY <1>8, <1>9, <2>1, <2>2 DEF Extends
  <1>11. w = v
    BY <1>6, <1>10 DEF Verdicts, Reading
  <1>12. /\ head'.outputs = head.outputs /\ head'.served = head.served /\ head'.asked = head.asked
         /\ head'.checked = [head.checked EXCEPT ![t] = @ + 1]
    BY <1>6, <1>10, ReadingTyped DEF Heads
  <1>13. Turns(d)'
    BY <1>1, <1>2, ReadingTyped DEF Turns, IsChecked, SameTurn, SameVisit, stageVars
  <1>14. Reads(d)'
    <2>1. ASSUME NEW u \in Guarded PROVE head'.checked[u] = Len(d.tape.policies[u])
      <3>1. head.checked[u] = Len(c.tape.policies[u])
        BY ReadingTyped DEF Reads
      <3>2. head'.checked[u] = IF u = t THEN head.checked[u] + 1 ELSE head.checked[u]
        BY <1>12, ReadingTyped DEF Heads
      <3> QED BY <1>8, <3>1, <3>2
    <2> QED BY <2>1, <1>7, <1>12, ReadingTyped DEF Reads
  <1>15. Returns(d)'
    BY <1>7, <1>12 DEF Returns, Reading, At
  <1>16. At(d)' \/ Stands(d)'
    <2>1. CASE v = "allowed"
      BY <1>5, <1>6, <1>11, <2>1, ReadGoes
    <2>2. CASE v = "denied"
      BY <1>5, <1>6, <1>7, <1>11, <1>12, <2>2, ReadErrs
    <2> QED BY <2>1, <2>2
  <1> QED BY <1>13, <1>14, <1>15, <1>16 DEF At

LEMMA ToolsRead ==
  ASSUME NEW c, NEW d, Reading(c, d), ServeFixture
  PROVE  At(d)'
  <1>1. pc = "tool" /\ UNCHANGED <<mode, stage, visit, stageVars, tape>>
    BY DEF ServeFixture
  <1>2. IsCalled(c, d)
    BY <1>1, ReadingTyped DEF Reading, Follows, Enters, IsAsked, IsDown, Dispatches, IsChecked,
       IsCalled, IsRefused, IsCompleted, IsLeft
  <1> DEFINE started == Key("tool_call_started", answer.tool)
             failed == Key("tool_call_failed", answer.tool)
             completed == Key("tool_call_completed", answer.tool)
             n == Len(c.tape.fixtures)
  <1>3. /\ started = CalledIn(c, "tool_call_started") /\ failed = CalledIn(c, "tool_call_failed")
        /\ completed = CalledIn(c, "tool_call_completed") /\ stage = c.stage
    BY ReadingTyped DEF Turns, CalledIn, KeyIn, Key
  <1>4. PICK f \in Fixtures :
          /\ d.tape = [c.tape EXCEPT !.fixtures = Append(@, f)]
          /\ \/ /\ f.mask = "clear" /\ f.result = "error"
                /\ d.output = c.output /\ Errs(c, d, <<started, failed>>)
             \/ /\ f.mask = "clear" /\ f.result = "fatal" /\ ~AsksIn(c)
                /\ Fails(c, d, <<started, failed>>)
             \/ /\ f.result \in Values /\ AsksIn(c) /\ f.mask = "clear"
                /\ d.output = c.output
                /\ GoesOn(c, d, <<started, completed>>, "asking")
             \/ /\ f.result \in Values /\ ~AsksIn(c)
                /\ f.mask \in {"clear", "nested"}
                /\ d.output = [value |-> f.result, masked |-> f.mask # "clear"]
                /\ GoesOn(c, d, <<started, completed>>, "returned")
    BY <1>2, <1>3 DEF IsCalled
  <1>5. /\ d.tape.fixtures = Append(c.tape.fixtures, f)
        /\ d.tape.responses = c.tape.responses /\ d.tape.policies = c.tape.policies
        /\ d.tape.snapshots = c.tape.snapshots
    BY <1>4, MomentFields DEF Tapes, Reading
  <1>6. Len(d.tape.fixtures) = n + 1 /\ n \in Nat /\ d.tape.fixtures[n + 1] = f
    BY <1>5, LastOne, MomentFields DEF Reading
  <1>7. Len(head.served) = n /\ n < Len(tape.fixtures) /\ tape.fixtures[n + 1] = f
    <2>1. Extends(d.tape.fixtures, tape.fixtures) /\ Len(tape.fixtures) \in Nat
      BY ReadingTyped DEF Reading, Longer, Tapes
    <2>2. Len(head.served) = n
      BY ReadingTyped DEF Reads
    <2> HIDE DEF n
    <2> QED BY <1>6, <2>1, <2>2 DEF Extends
  <1> DEFINE r == Reproduced(f)
             x == [visit |-> visit, tool |-> answer.tool, fixture |-> n + 1]
  <1>8. head' = [head EXCEPT !.served = Append(@, x)] /\ ToolEnds(r, FALSE, {})
    BY <1>7 DEF ServeFixture, FixturesLeft, NextFixture
  <1>9. /\ head'.outputs = head.outputs /\ head'.asked = head.asked /\ head'.checked = head.checked
        /\ head'.served = Append(head.served, x)
    BY <1>8, ReadingTyped DEF Heads
  <1>10. Len(head'.served) = n + 1
    <2>1. x \in [visit : Nat, tool : Tools, fixture : Nat]
      <3>1. answer.tool \in Tools /\ visit \in Nat
        BY <1>1, PointUnfolded, Typed DEF PointTyped, Reading
      <3> QED BY <3>1, <1>6
    <2>2. head.served \in Seq([visit : Nat, tool : Tools, fixture : Nat])
      BY ReadingTyped DEF Heads
    <2> HIDE DEF x, n
    <2> QED BY <1>7, <1>9, <2>1, <2>2, LastOne
  <1>11. Returns(d)'
    BY <1>5, <1>9 DEF Returns, Reading, At
  <1>12. Reads(d)'
    BY <1>5, <1>6, <1>9, <1>10, ReadingTyped DEF Reads
  <1>14. /\ stage' = d.stage /\ visit' = d.visit /\ retries' = d.retries /\ rounds' = d.rounds
         /\ answer' = d.answer
    BY <1>1, <1>2, ReadingTyped DEF Turns, IsCalled, SameTurn, SameVisit, stageVars
  <1>15. ASSUME output' = output, d.output = c.output PROVE Turns(d)'
    BY <1>14, <1>15, ReadingTyped DEF Turns
  <1>16. \/ /\ r = "error" /\ ToolError(<<started, failed>>, {}) /\ UNCHANGED output
         \/ /\ r = "fatal" /\ Fail(<<started, failed>>, {}) /\ UNCHANGED output
         \/ /\ r \notin {"error", "fatal"}
            /\ Emits(<<started, completed>>, {})
            /\ pc' = IF IsModel THEN "asking" ELSE "returned"
            /\ output' = IF IsModel THEN output ELSE [value |-> r, masked |-> FALSE]
            /\ UNCHANGED outcome
    BY <1>8 DEF ToolEnds
  <1> HIDE DEF started, failed, completed
  <1>17. CASE f.mask = "clear" /\ f.result = "error"
    <2>1. r = "error"
      BY <1>17 DEF Reproduced
    <2>2. d.output = c.output /\ Errs(c, d, <<started, failed>>)
      BY <1>4, <1>17 DEF Values
    <2>3. At(d)' \/ Stands(d)'
      BY <1>5, <1>9, <1>16, <2>1, <2>2, ReadErrs
    <2> QED BY <1>11, <1>12, <1>15, <1>16, <2>1, <2>2, <2>3 DEF At
  <1>18. CASE f.mask = "clear" /\ f.result = "fatal" /\ ~AsksIn(c)
    <2>1. r = "error"
      BY <1>18 DEF Reproduced
    <2>2. Fails(c, d, <<started, failed>>)
      BY <1>4, <1>18 DEF Values
    <2>3. Fail(<<started, failed>>, {})
      BY <1>16, <1>18, <2>1, ReadingTyped DEF ToolError
    <2> QED BY <1>5, <1>9, <2>2, <2>3, ReadFails
  <1>19. CASE f.result \in Values /\ f.mask \in {"clear", "nested"}
    <2>1. r = (IF f.mask = "nested" THEN Hidden ELSE f.result) /\ r \notin {"error", "fatal"}
      BY <1>19 DEF Reproduced, Values, Hidden
    <2>2. GoesOn(c, d, <<started, completed>>, pc')
      BY <1>4, <1>16, <1>19, <2>1, ReadingTyped DEF Values
    <2>3. Stands(d)'
      BY <1>16, <2>1, <2>2, ReadGoes
    <2>4. Turns(d)'
      <3>1. CASE IsModel
        BY <1>4, <1>15, <1>16, <1>19, <2>1, <3>1, ReadingTyped DEF Values
      <3>2. CASE ~IsModel
        <4>1. output' = [value |-> r, masked |-> FALSE]
              /\ d.output = [value |-> f.result, masked |-> f.mask # "clear"]
          BY <1>4, <1>16, <1>19, <2>1, <3>2, ReadingTyped DEF Values
        <4> HIDE DEF r
        <4>2. output'.value = Shown(d.output)
          <5>0. /\ output'.value = r /\ d.output.value = f.result
                /\ d.output.masked <=> f.mask # "clear"
            <6>1. output'.value = r
              BY <4>1
            <6>2. d.output.value = f.result
              BY <4>1
            <6>3. d.output.masked = (f.mask # "clear")
              BY <4>1
            <6> QED BY <6>1, <6>2, <6>3
          <5>1. CASE f.mask = "nested"
            BY <2>1, <5>0, <5>1 DEF Shown
          <5>2. CASE f.mask = "clear"
            BY <2>1, <5>0, <5>2 DEF Shown
          <5> QED BY <1>19, <5>1, <5>2
        <4> QED BY <1>14, <4>2 DEF Turns
      <3> QED BY <3>1, <3>2
    <2> QED BY <1>11, <1>12, <2>3, <2>4 DEF At
  <1> QED BY <1>4, <1>17, <1>18, <1>19

LEMMA ShownRight ==
  ASSUME NEW c, NEW d, Reading(c, d), pc \in {"returned", "after"}
  PROVE  /\ output.value = "invalid" <=> c.output.value = "invalid"
         /\ stage \notin Exits => Goto[stage][output.value] = Goto[stage][c.output.value]
  <1>1. c.output.masked => Passable(stage, c.output.value)
    BY ReadingTyped DEF Fits, Reading, Turns
  <1>2. output.value = Shown(c.output)
    BY ReadingTyped DEF Turns
  <1> QED BY <1>1, <1>2 DEF Shown, Passable, Hidden

LEMMA RefusedRead ==
  ASSUME NEW c, NEW d, Reading(c, d), OutputInvalid
  PROVE  At(d)'
  <1>1. /\ pc = "returned" /\ output.value = "invalid"
        /\ UNCHANGED <<mode, stage, visit, rounds, answer, output, tape, head, missed>>
    BY DEF OutputInvalid
  <1>2. c.output.value = "invalid"
    BY <1>1, ShownRight
  <1>3. IsRefused(c, d)
    BY <1>1, <1>2, ReadingTyped DEF Reading, Follows, Enters, IsAsked, IsDown, Dispatches, IsChecked,
       IsCalled, IsRefused, IsCompleted, IsLeft
  <1>4. d.tape = c.tape
    BY <1>3 DEF IsRefused
  <1>5. CASE IsModel /\ RetryOrFail({})
    <2>1. /\ c.retries < MaxRetries /\ d.retries = c.retries + 1
          /\ SameVisit(c, d) /\ d.rounds = c.rounds /\ d.answer = c.answer /\ d.output = c.output
          /\ GoesOn(c, d, <<RetryIn(c)>>, "asking")
      BY <1>3, <1>5, ReadingTyped DEF IsRefused
    <2>2. retries < MaxRetries /\ retries = c.retries /\ RetryIn(c) = Retry
      BY <2>1, ReadingTyped DEF Turns, RetryIn, KeyIn, Retry, Key
    <2>3. retries # MaxRetries
      BY <2>2, MomentFields, Bounds DEF Reading
    <2>4. retries' = retries + 1 /\ Emits(<<Retry>>, {}) /\ pc' = "asking" /\ UNCHANGED outcome
      BY <1>5, <2>3 DEF RetryOrFail
    <2>5. Stands(d)'
      BY <2>1, <2>2, <2>4, ReadGoes
    <2>6. Turns(d)'
      BY <1>1, <2>1, <2>2, <2>4, ReadingTyped DEF Turns, SameVisit
    <2> QED BY <1>1, <1>4, <2>5, <2>6, ReadSame
  <1>6. CASE ~IsModel /\ Fail(<< >>, {})
    BY <1>1, <1>3, <1>4, <1>6, ReadingTyped, ReadFails DEF IsRefused
  <1> QED BY <1>5, <1>6 DEF OutputInvalid

LEMMA CompletesRead ==
  ASSUME NEW c, NEW d, Reading(c, d), CompleteStage
  PROVE  At(d)'
  <1> DEFINE x == [visit |-> visit, value |-> output.value]
             y == [visit |-> c.visit, output |-> c.output]
             n == Len(c.tape.snapshots)
  <1>1. /\ pc = "returned" /\ output.value # "invalid" /\ pc' = "after"
        /\ Emits(<<Key("stage_completed", "")>>, {})
        /\ UNCHANGED <<mode, stage, visit, stageVars, output, outcome, missed>>
        /\ head' = [head EXCEPT !.outputs = Append(@, x)] /\ UNCHANGED tape
    BY DEF CompleteStage, Reading
  <1>2. c.output.value # "invalid"
    BY <1>1, ShownRight
  <1>3. IsCompleted(c, d)
    BY <1>1, <1>2, ReadingTyped DEF Reading, Follows, Enters, IsAsked, IsDown, Dispatches, IsChecked,
       IsCalled, IsRefused, IsCompleted, IsLeft
  <1>4. /\ d.tape.snapshots = Append(c.tape.snapshots, y)
        /\ d.tape.responses = c.tape.responses /\ d.tape.policies = c.tape.policies
        /\ d.tape.fixtures = c.tape.fixtures
    BY <1>3, MomentFields DEF Tapes, Reading, IsCompleted
  <1>5. y \in Snapshots /\ c.tape.snapshots \in Seq(Snapshots)
    BY <1>2, MomentFields DEF Snapshots, Outputs, Values, Reading
  <1>6. x \in [visit : Nat, value : {"x", "y", Hidden}]
        /\ head.outputs \in Seq([visit : Nat, value : {"x", "y", Hidden}])
    BY <1>1, ReadingTyped, Typed, TypesUnfolded DEF Reading, Outputs, Values, Heads
  <1>7. x.visit = y.visit /\ x.value = Shown(y.output)
    BY ReadingTyped DEF Turns
  <1>8. /\ head'.outputs = Append(head.outputs, x) /\ head'.asked = head.asked
        /\ head'.served = head.served /\ head'.checked = head.checked
    BY <1>1, ReadingTyped DEF Heads
  <1>9. Len(head.outputs) = n /\ n \in Nat
        /\ \A i \in 1 .. n : /\ head.outputs[i].visit = c.tape.snapshots[i].visit
                             /\ head.outputs[i].value = Shown(c.tape.snapshots[i].output)
    BY <1>5 DEF Reading, At, Returns
  <1> HIDE DEF x, y
  <1>10. /\ Len(d.tape.snapshots) = n + 1 /\ d.tape.snapshots[n + 1] = y
         /\ \A i \in 1 .. n : d.tape.snapshots[i] = c.tape.snapshots[i]
    BY <1>4, <1>5, LastOne
  <1>11. /\ Len(head'.outputs) = n + 1 /\ head'.outputs[n + 1] = x
         /\ \A i \in 1 .. n : head'.outputs[i] = head.outputs[i]
    BY <1>6, <1>8, <1>9, LastOne
  <1>12. Returns(d)'
    <2> HIDE DEF n
    <2>1. ASSUME NEW i \in 1 .. n + 1
          PROVE  /\ head'.outputs[i].visit = d.tape.snapshots[i].visit
                 /\ head'.outputs[i].value = Shown(d.tape.snapshots[i].output)
      <3>1. CASE i = n + 1
        BY <3>1, <1>7, <1>10, <1>11
      <3>2. CASE i \in 1 .. n
        BY <3>2, <1>9, <1>10, <1>11
      <3> QED BY <1>9, <3>1, <3>2
    <2> QED BY <2>1, <1>10, <1>11 DEF Returns
  <1>13. Stands(d)'
    <2>1. GoesOn(c, d, <<Key("stage_completed", "")>>, pc')
      BY <1>1, <1>3, ReadingTyped DEF IsCompleted, KeyIn, Key, Turns
    <2> QED BY <1>1, <2>1, ReadGoes
  <1>14. Turns(d)'
    BY <1>1, <1>3, ReadingTyped DEF Turns, IsCompleted, SameTurn, SameVisit, stageVars
  <1>15. Reads(d)'
    BY <1>4, <1>8, ReadingTyped DEF Reads
  <1> QED BY <1>12, <1>13, <1>14, <1>15 DEF At

LEMMA LeavesRead ==
  ASSUME NEW c, NEW d, Reading(c, d), Leave
  PROVE  At(d)'
  <1>1. pc = "after" /\ UNCHANGED <<mode, visit, stageVars, output, tape, head, missed>>
    BY DEF Leave
  <1>2. IsLeft(c, d)
    BY <1>1, ReadingTyped DEF Reading, Follows, Enters, IsAsked, IsDown, Dispatches, IsChecked,
       IsCalled, IsRefused, IsCompleted, IsLeft
  <1> DEFINE to == Goto[stage][output.value]
  <1>3. stage = c.stage /\ d.tape = c.tape /\ (stage \notin Exits => to = Goto[c.stage][c.output.value])
    BY <1>1, <1>2, ReadingTyped, ShownRight DEF IsLeft, Turns
  <1> HIDE DEF to
  <1>4. CASE /\ stage \in Exits
             /\ Emits(<< <<"run_completed">> >>, {})
             /\ outcome' = [outcome EXCEPT ![mode] = "complete"]
             /\ pc' = "ended"
    <2>1. d.ledger = c.ledger \o << <<"run_completed">> >> /\ d.pc = "ended" /\ d.outcome = "complete"
      BY <1>2, <1>3, <1>4 DEF IsLeft
    <2>2. replayed' = replayed \o << <<"run_completed">> >> /\ outcome'.replay = "complete"
      BY <1>4, ReadingTyped DEF Emits, Reading, Outcomes
    <2>3. Stands(d)'
      BY <1>4, <2>1, <2>2, ReadingTyped DEF Stands
    <2>4. Returns(d)'
      BY <1>1, <1>3 DEF Returns, Reading, At
    <2> QED BY <1>4, <2>3, <2>4 DEF At
  <1>5. CASE stage \notin Exits /\ to = "none" /\ Fail(<< >>, {})
    BY <1>1, <1>2, <1>3, <1>5, ReadFails DEF IsLeft
  <1>6. CASE /\ stage \notin Exits /\ to # "none"
             /\ Emits(<<Key("transition_selected", to)>>, {})
             /\ stage' = to
             /\ pc' = "loop"
             /\ UNCHANGED outcome
    <2>1. /\ GoesOn(c, d, <<Key("transition_selected", to)>>, "loop")
          /\ d.stage = to /\ d.visit = c.visit
          /\ d.retries = c.retries /\ d.rounds = c.rounds /\ d.answer = c.answer
          /\ d.output = c.output
      BY <1>2, <1>3, <1>6 DEF IsLeft, KeyIn, Key
    <2>2. Stands(d)'
      BY <1>6, <2>1, ReadGoes
    <2>3. Turns(d)'
      BY <1>1, <1>6, <2>1, ReadingTyped DEF Turns, stageVars
    <2> QED BY <1>1, <1>3, <2>2, <2>3, ReadSame
  <1> QED BY <1>4, <1>5, <1>6 DEF Leave, to

-----------------------------------------------------------------------------
(* The run becomes a story, and the replay tells it.                       *)

\* While the run is live, nothing has been replayed.
NothingReplayed ==
  /\ outcome.replay = "none"
  /\ head.served = << >> /\ head.outputs = << >>
  /\ \A s \in Stages : head.asked[s] = {}
  /\ \A t \in Guarded : head.checked[t] = 0

\* A live run with no flaw is a story that has come to now. Once the story is
\* on the tapes from end to end, the replay stands at one of its moments.
StoryTo(c) == \E m \in Nat : \E h \in [0 .. m -> Moments] : Story(m, h) /\ h[m] = c
LiveRun == RunInv /\ NothingReplayed /\ StoryTo(Now)
Retold ==
  \E m \in Nat : \E h \in [0 .. m -> Moments] :
    Story(m, h) /\ Sealed(h[m]) /\ \E i \in 0 .. m : At(h[i])

FaithInv ==
  /\ Aliased => flaws # {}
  /\ flaws = {} /\ Live => LiveRun
  /\ flaws = {} /\ ~Live => Settled /\ (CallsNamed /\ StubsUsable => Retold)

LEMMA FlawsGrow ==
  ASSUME [ReplayNext]_replayVars
  PROVE  flaws \subseteq flaws'
  <1>1. \A keys, more : Emits(keys, more) => flaws \subseteq flaws'
    BY DEF Emits
  <1>2. \A keys, more : Fail(keys, more) => flaws \subseteq flaws'
    BY <1>1 DEF Fail
  <1>3. \A keys, more : ToolError(keys, more) => flaws \subseteq flaws'
    BY <1>1, <1>2 DEF ToolError
  <1>4. \A more : RetryOrFail(more) => flaws \subseteq flaws'
    BY <1>1, <1>2 DEF RetryOrFail
  <1>5. \A a, more : Take(a, more) => flaws \subseteq flaws'
    BY <1>1 DEF Take
  <1>6. \A r, m, more : ToolEnds(r, m, more) => flaws \subseteq flaws'
    BY <1>1, <1>2, <1>3 DEF ToolEnds
  <1>7. CASE UNCHANGED replayVars
    BY <1>7 DEF replayVars
  <1>8. CASE EnterStage
    BY <1>8, <1>1, <1>2 DEF EnterStage
  <1>9. CASE ModelRaises
    BY <1>9, <1>2, <1>4 DEF ModelRaises
  <1>10. CASE \E a \in Offered : ModelAnswers(a)
    BY <1>10, <1>5 DEF ModelAnswers
  <1>11. CASE ServeResponse
    BY <1>11, <1>5 DEF ServeResponse
  <1>12. CASE MissResponse \/ RefuseStubs
    BY <1>12, <1>2 DEF MissResponse, RefuseStubs
  <1>13. CASE Dispatch
    BY <1>13, <1>2, <1>3 DEF Dispatch
  <1>14. CASE CheckPolicy
    BY <1>14, <1>1, <1>2, <1>3 DEF CheckPolicy
  <1>15. CASE CallTool
    BY <1>15, <1>6 DEF CallTool
  <1>16. CASE ServeFixture
    BY <1>16, <1>6 DEF ServeFixture
  <1>17. CASE OutputInvalid
    BY <1>17, <1>2, <1>4 DEF OutputInvalid
  <1>18. CASE CompleteStage
    BY <1>18, <1>1 DEF CompleteStage
  <1>19. CASE Leave
    BY <1>19, <1>1, <1>2 DEF Leave
  <1>20. CASE Unlock
    BY <1>20 DEF Unlock
  <1> QED BY <1>7, <1>8, <1>9, <1>10, <1>11, <1>12, <1>13, <1>14, <1>15, <1>16, <1>17, <1>18,
             <1>19, <1>20 DEF ReplayNext, ReplayStep

\* Every step of a live run with no flaw follows.
LEMMA LiveFollows ==
  ASSUME ReplayTypes, RunInv, Live, ReplayStep, ~Unlock, flaws' = {}, ~Aliased
  PROVE  /\ Follows(Now, Now') /\ (pc' = "ended" => ~LateFailure \/ Settled)
         /\ mode' = mode /\ head' = head
  <1>1. pc \notin InVisit => Settled
    BY DEF RunInv, Settled
  <1>2. CASE EnterStage
    BY <1>1, <1>2, LiveEnters DEF Follows, EnterStage, InVisit
  <1>3. CASE ModelRaises
    BY <1>3, LiveRaises DEF Follows, ModelRaises
  <1>4. CASE \E a \in Offered : ModelAnswers(a)
    <2>1. PICK a \in Offered : ModelAnswers(a)
      BY <1>4
    <2>2. pc' # "ended" /\ UNCHANGED <<mode, head>>
      BY <2>1 DEF ModelAnswers, Take
    <2> QED BY <2>1, <2>2, LiveAsks DEF Follows
  <1>5. CASE Dispatch
    <2>1. Dispatches(Now, Now')
      BY <1>5, LiveDispatches
    <2>2. pc' # "ended"
      BY <2>1 DEF Dispatches, GoesOn, ToolPoint, Now
    <2> QED BY <1>5, <2>1, <2>2 DEF Follows, Dispatch
  <1>6. CASE CheckPolicy
    <2>1. head' = head /\ mode' = mode
      BY <1>6 DEF CheckPolicy
    <2> QED BY <1>6, <2>1, LiveChecks DEF Follows
  <1>7. CASE CallTool
    BY <1>7, LiveTools DEF Follows, CallTool
  <1>8. CASE OutputInvalid
    BY <1>8, LiveRefuses DEF Follows, OutputInvalid
  <1>9. CASE CompleteStage
    <2>1. head' = head /\ mode' = mode /\ pc' = "after"
      BY <1>9 DEF CompleteStage
    <2> QED BY <1>9, <2>1, LiveCompletes DEF Follows
  <1>10. CASE Leave
    BY <1>1, <1>10, LiveLeaves DEF Follows, Leave, InVisit
  <1>11. ~RefuseStubs /\ ~ServeResponse /\ ~MissResponse /\ ~ServeFixture
    BY DEF RefuseStubs, ServeResponse, MissResponse, ServeFixture
  <1> QED BY <1>2, <1>3, <1>4, <1>5, <1>6, <1>7, <1>8, <1>9, <1>10, <1>11 DEF ReplayStep

\* A story goes on with the moment that follows.
LEMMA StoryGrows ==
  ASSUME ReplayTypes, ReplayTypes', Fits(Now), StoryTo(Now), Follows(Now, Now')
  PROVE  StoryTo(Now)'
  <1>1. PICK m \in Nat : \E h \in [0 .. m -> Moments] : Story(m, h) /\ h[m] = Now
    BY DEF StoryTo
  <1>2. PICK h \in [0 .. m -> Moments] : Story(m, h) /\ h[m] = Now
    BY <1>1
  <1>3. Now \in Moments /\ Now' \in Moments
    BY NowTyped, NowTypedNext
  <1>4. \E g \in [0 .. m + 1 -> Moments] : (\A i \in 0 .. m : g[i] = h[i]) /\ g[m + 1] = Now'
    <2> DEFINE g == [i \in 0 .. m + 1 |-> IF i <= m THEN h[i] ELSE Now']
    <2>1. g \in [0 .. m + 1 -> Moments]
      BY <1>3
    <2>2. (\A i \in 0 .. m : g[i] = h[i]) /\ g[m + 1] = Now'
      OBVIOUS
    <2> QED BY <2>1, <2>2
  <1>5. PICK g \in [0 .. m + 1 -> Moments] : (\A i \in 0 .. m : g[i] = h[i]) /\ g[m + 1] = Now'
    BY <1>4
  <1>6. Longer(tape, tape') /\ Fits(Now')
    BY <1>3, TapesGrow, FitsNext DEF Now
  <1>7. tape \in Tapes /\ tape' \in Tapes
    BY TypesUnfolded DEF ReplayTypes
  <1>8. \A i \in 0 .. m : Fits(g[i]) /\ Longer(g[i].tape, tape')
    <2> SUFFICES ASSUME NEW i \in 0 .. m PROVE Fits(g[i]) /\ Longer(g[i].tape, tape')
      OBVIOUS
    <2>1. Fits(h[i]) /\ Longer(h[i].tape, tape) /\ h[i] \in Moments
      BY <1>2 DEF Story, Held
    <2>2. h[i].tape \in Tapes
      BY <2>1, MomentFields
    <2>3. Longer(h[i].tape, tape')
      BY <1>6, <1>7, <2>1, <2>2, LongerTrans
    <2> QED BY <1>5, <2>1, <2>3
  <1>9. Fits(g[m + 1]) /\ Longer(g[m + 1].tape, tape')
    <2>1. Longer(tape', tape')
      BY <1>7, LongerItself
    <2>2. (Now').tape = tape'
      BY DEF Now
    <2> QED BY <1>5, <1>6, <2>1, <2>2
  <1>10. \A i \in 0 .. m + 1 : Fits(g[i]) /\ Longer(g[i].tape, tape')
    <2>1. \A i \in 0 .. m + 1 : i \in 0 .. m \/ i = m + 1
      OBVIOUS
    <2> QED BY <1>8, <1>9, <2>1
  <1>11. \A i \in 0 .. m + 1 : i < m + 1 => Follows(g[i], g[i + 1])
    <2> SUFFICES ASSUME NEW i \in 0 .. m PROVE Follows(g[i], g[i + 1])
      OBVIOUS
    <2>1. CASE i < m
      <3>1. Follows(h[i], h[i + 1]) /\ i + 1 \in 0 .. m
        BY <1>2, <2>1 DEF Story
      <3> QED BY <1>5, <3>1
    <2>2. CASE i = m
      BY <1>2, <1>5, <2>2
    <2> QED BY <2>1, <2>2
  <1>12. Begins(g[0])
    BY <1>2, <1>5 DEF Story
  <1>13. Story(m + 1, g)'
    BY <1>10, <1>11, <1>12 DEF Story, Held
  <1> QED BY <1>5, <1>13 DEF StoryTo

\* The replay of one moment is the replay of the next.
LEMMA ReplayFollows ==
  ASSUME NEW c, NEW d, Reading(c, d), ReplayStep
  PROVE  At(d)'
  <1>1. ~Live
    BY DEF Reading
  <1>2. ~ModelRaises /\ ~(\E a \in Offered : ModelAnswers(a)) /\ ~CallTool /\ ~Unlock
        /\ ~RefuseStubs
    <2>1. stage \in Stages
      BY TypesUnfolded DEF Reading
    <2> QED BY <1>1, <2>1 DEF Reading, StubsUsable, ModelRaises, ModelAnswers, CallTool, Unlock,
               RefuseStubs
  <1> QED BY <1>2, EntersRead, ServesRead, MissesRead, DispatchRead, ChecksRead, ToolsRead,
             RefusedRead, CompletesRead, LeavesRead DEF ReplayStep

\* The outcome of the run and that of its replay are set by nobody else.
LEMMA OwnOutcome ==
  ASSUME ReplayTypes, ReplayNext
  PROVE  (Live => outcome'.replay = outcome.replay) /\ (~Live => outcome'.live = outcome.live)
  <1> DEFINE own == outcome' = outcome \/ \E v : outcome' = [outcome EXCEPT ![mode] = v]
  <1>1. \A keys, more : Fail(keys, more) => own
    BY DEF Fail
  <1>2. \A keys, more : ToolError(keys, more) => own
    BY <1>1 DEF ToolError
  <1>3. \A more : RetryOrFail(more) => own
    BY <1>1 DEF RetryOrFail
  <1>4. \A r, m, more : ToolEnds(r, m, more) => own
    BY <1>1, <1>2 DEF ToolEnds
  <1>5. ASSUME outcome' = [outcome EXCEPT ![mode] = "complete"] PROVE own
    BY <1>5
  <1>6. own
    <2> HIDE DEF own
    <2>0. UNCHANGED outcome => own
      BY DEF own
    <2>1. CASE UNCHANGED replayVars
      BY <2>0, <2>1 DEF replayVars
    <2>2. CASE EnterStage
      BY <2>0, <2>2, <1>1 DEF EnterStage
    <2>3. CASE ModelRaises
      BY <2>3, <1>1, <1>3 DEF ModelRaises
    <2>4. CASE (\E a \in Offered : ModelAnswers(a)) \/ ServeResponse \/ CompleteStage \/ Unlock
      BY <2>0, <2>4 DEF ModelAnswers, ServeResponse, CompleteStage, Unlock
    <2>5. CASE MissResponse \/ RefuseStubs
      BY <2>5, <1>1 DEF MissResponse, RefuseStubs
    <2>6. CASE Dispatch
      BY <2>0, <2>6, <1>1, <1>2 DEF Dispatch
    <2>7. CASE CheckPolicy
      BY <2>0, <2>7, <1>1, <1>2 DEF CheckPolicy
    <2>8. CASE CallTool
      BY <2>8, <1>4 DEF CallTool
    <2>9. CASE ServeFixture
      BY <2>9, <1>4 DEF ServeFixture
    <2>10. CASE OutputInvalid
      BY <2>10, <1>1, <1>3 DEF OutputInvalid
    <2>11. CASE Leave
      BY <2>0, <2>11, <1>1, <1>5 DEF Leave
    <2> QED BY <2>1, <2>2, <2>3, <2>4, <2>5, <2>6, <2>7, <2>8, <2>9, <2>10, <2>11
            DEF ReplayNext, ReplayStep
  <1>7. outcome \in Outcomes /\ mode \in {"live", "replay"}
    BY OutcomeTyped, Typed
  <1> QED BY <1>6, <1>7 DEF Outcomes, Live

\* After the last moment the replay stands still.
LEMMA NothingAfterEnd ==
  ASSUME ReplayStep, ~Live
  PROVE  pc # "ended"
  BY DEF ReplayStep, EnterStage, ModelRaises, ModelAnswers, RefuseStubs, ServeResponse,
         MissResponse, Dispatch,
         CheckPolicy, CallTool, ServeFixture, OutputInvalid, CompleteStage, Leave, Unlock

-----------------------------------------------------------------------------
(* A faithful replay.                                                      *)

LEMMA FaithBegins ==
  ASSUME ReplayInit
  PROVE  FaithInv
  <1>1. ReplayTypes
    BY InitTypes
  <1>2. /\ Live /\ pc = "loop" /\ tape.responses = << >> /\ tape.fixtures = << >>
        /\ tape.snapshots = << >> /\ \A t \in Guarded : tape.policies[t] = << >>
    BY DEF ReplayInit, Live
  <1>3. Aliased => flaws # {}
    BY DEF ReplayInit
  <1>4. Fits(Now)
    BY <1>2 DEF Fits, Now
  <1>5. RunInv
    BY <1>2, <1>4 DEF RunInv, InVisit
  <1>6. NothingReplayed
    BY DEF ReplayInit, NothingReplayed
  <1>7. Begins(Now)
    BY <1>2 DEF ReplayInit, Begins, Now
  <1>8. Now \in Moments /\ Held(Now)
    BY <1>1, NowTyped, LongerItself, TypesUnfolded DEF Held, Now
  <1>9. StoryTo(Now)
    <2> DEFINE h == [i \in 0 .. 0 |-> Now]
    <2>1. h \in [0 .. 0 -> Moments] /\ h[0] = Now
      BY <1>8
    <2>2. \A i \in 0 .. 0 : i = 0
      OBVIOUS
    <2> HIDE DEF h
    <2>3. Story(0, h)
      BY <1>4, <1>7, <1>8, <2>1, <2>2 DEF Story
    <2> QED BY <2>1, <2>3 DEF StoryTo
  <1> QED BY <1>2, <1>3, <1>5, <1>6, <1>9 DEF FaithInv, LiveRun

\* The run goes on with no flaw only if it had none.
LEMMA FaithLive ==
  ASSUME ReplayTypes, ReplayTypes', AsksModel, VisitOpen', FaithInv, Live, ReplayStep, ~Unlock
  PROVE  FaithInv'
  <1>1. flaws' = {} => flaws = {} /\ ~Aliased
    BY FlawsGrow DEF FaithInv, ReplayNext
  <1>2. Aliased => flaws' # {}
    BY <1>1
  <1>3. mode' = mode
    <2>1. CASE UNCHANGED replayVars
      BY <2>1 DEF replayVars
    <2>2. CASE CountedStep
      BY <2>2, CountedKeepsMode
    <2> QED BY <2>1, <2>2, StepsCounted DEF ReplayNext
  <1> SUFFICES ASSUME flaws' = {} PROVE LiveRun'
    BY <1>2, <1>3 DEF FaithInv, Live
  <1>4. RunInv /\ NothingReplayed /\ StoryTo(Now) /\ ~Aliased
    BY <1>1 DEF FaithInv, LiveRun
  <1>5. /\ Follows(Now, Now') /\ (pc' = "ended" => ~LateFailure \/ Settled)
        /\ mode' = mode /\ head' = head
    BY <1>4, LiveFollows
  <1>6. RunInv'
    BY <1>4, <1>5, VisitsGoOn
  <1>7. StoryTo(Now)'
    BY <1>4, <1>5, StoryGrows DEF RunInv
  <1>8. NothingReplayed'
    BY <1>4, <1>5, OwnOutcome DEF NothingReplayed, ReplayNext
  <1> QED BY <1>6, <1>7, <1>8 DEF LiveRun

\* The replay begins where the story does.
LEMMA FaithUnlocked ==
  ASSUME ReplayTypes, FaithInv, Unlock
  PROVE  FaithInv'
  <1>1. /\ Live /\ pc = "ended" /\ mode' = "replay" /\ pc' = "loop" /\ stage' = Entry
        /\ visit' = 0 /\ retries' = 0 /\ rounds' = 0 /\ answer' = NoAnswer /\ output' = NoOutput
        /\ replayed' = << <<"run_started">> >>
        /\ UNCHANGED <<tape, head, ledger, outcome, missed, flaws>>
    BY DEF Unlock
  <1>2. ~Live'
    BY <1>1 DEF Live
  <1> SUFFICES ASSUME flaws = {} PROVE Settled' /\ Retold'
    BY <1>1, <1>2 DEF FaithInv
  <1>3. RunInv /\ NothingReplayed /\ StoryTo(Now)
    BY <1>1 DEF FaithInv, LiveRun
  <1>4. Settled'
    BY <1>1, <1>3 DEF RunInv, InVisit, Settled, Recorded
  <1>5. PICK m \in Nat : \E h \in [0 .. m -> Moments] : Story(m, h) /\ h[m] = Now
    BY <1>3 DEF StoryTo
  <1>6. PICK h \in [0 .. m -> Moments] : Story(m, h) /\ h[m] = Now
    BY <1>5
  <1>7. Story(m, h)'
    BY <1>1, <1>6 DEF Story, Held
  <1>8. Sealed(h[m])'
    BY <1>1, <1>6 DEF Sealed, Now
  <1> DEFINE c == h[0]
  <1>9. Begins(c) /\ 0 \in 0 .. m
    BY <1>6 DEF Story
  <1> HIDE DEF c
  <1>10. head' = head /\ NothingReplayed
    BY <1>1, <1>3
  <1>11. Stands(c)'
    BY <1>1, <1>9, <1>10 DEF Stands, Begins, NothingReplayed
  <1>12. Returns(c)'
    BY <1>9, <1>10 DEF Returns, Begins, NothingReplayed
  <1>13. Turns(c)'
    BY <1>1, <1>9 DEF Turns, Begins, Shown, NoOutput
  <1>14. Reads(c)'
    BY <1>9, <1>10 DEF Reads, Begins, NothingReplayed
  <1>15. At(c)'
    BY <1>11, <1>12, <1>13, <1>14 DEF At
  <1>16. \E i \in 0 .. m : At(h[i])'
    BY <1>9, <1>15 DEF c
  <1> QED BY <1>4, <1>7, <1>8, <1>16 DEF Retold

\* The replay goes from moment to moment.
LEMMA FaithReplay ==
  ASSUME ReplayTypes, FaithInv, ~Live, ReplayStep
  PROVE  FaithInv'
  <1>1. tape' = tape /\ ledger' = ledger /\ flaws' = flaws /\ mode' = mode
        /\ outcome'.live = outcome.live
    BY ReplayReads, OwnOutcome DEF ReplayNext
  <1>2. ~Live'
    BY <1>1 DEF Live
  <1>3. Settled' = Settled /\ CallsNamed' = CallsNamed /\ StubsUsable' = StubsUsable
    BY <1>1 DEF Settled, CallsNamed, Recorded, Named, StubsUsable, Unusable, Lists
  <1> SUFFICES ASSUME flaws = {}, CallsNamed, StubsUsable PROVE Retold'
    BY <1>1, <1>2, <1>3 DEF FaithInv
  <1>4. ~Aliased /\ Settled /\ Retold
    BY DEF FaithInv
  <1>5. PICK m \in Nat : \E h \in [0 .. m -> Moments] :
          Story(m, h) /\ Sealed(h[m]) /\ \E i \in 0 .. m : At(h[i])
    BY <1>4 DEF Retold
  <1>6. PICK h \in [0 .. m -> Moments] : Story(m, h) /\ Sealed(h[m]) /\ \E i \in 0 .. m : At(h[i])
    BY <1>5
  <1>7. PICK i \in 0 .. m : At(h[i])
    BY <1>6
  <1>8. i < m
    <2>1. pc # "ended"
      BY NothingAfterEnd
    <2>2. h[i].pc = pc /\ h[m].pc = "ended"
      BY <1>6, <1>7 DEF At, Stands, Sealed
    <2> QED BY <2>1, <2>2
  <1> DEFINE c == h[i]
             d == h[i + 1]
  <1>9. /\ i + 1 \in 0 .. m /\ c \in Moments /\ d \in Moments /\ Fits(c) /\ Follows(c, d)
        /\ Longer(d.tape, tape)
    BY <1>6, <1>8 DEF Story, Held
  <1>10. d.pc = "ended" => d.tape = tape
    <2> SUFFICES ASSUME d.pc = "ended" PROVE i + 1 = m
      BY <1>6 DEF Sealed
    <2> SUFFICES ASSUME i + 1 < m PROVE FALSE
      BY <1>9
    <2>1. Follows(h[i + 1], h[i + 1 + 1])
      BY <1>6, <1>9 DEF Story
    <2> QED BY <2>1, NothingFollowsEnd
  <1>11. Reading(c, d)
    BY <1>4, <1>7, <1>9, <1>10 DEF Reading
  <1>12. At(d)'
    <2> HIDE DEF c, d
    <2> QED BY <1>11, ReplayFollows
  <1>13. Story(m, h)' /\ Sealed(h[m])'
    BY <1>1, <1>6 DEF Story, Held, Sealed
  <1>14. \E j \in 0 .. m : At(h[j])'
    BY <1>9, <1>12
  <1> QED BY <1>13, <1>14 DEF Retold

LEMMA FaithSame ==
  ASSUME FaithInv, UNCHANGED replayVars
  PROVE  FaithInv'
  <1>1. /\ UNCHANGED <<mode, pc, stage, visit, retries, rounds, answer, output, tape, head>>
        /\ UNCHANGED <<ledger, replayed, outcome, flaws>>
    BY DEF replayVars
  <1>2. /\ Now' = Now /\ (Live' <=> Live) /\ (Settled' <=> Settled)
        /\ (CallsNamed' <=> CallsNamed) /\ (StubsUsable' <=> StubsUsable)
    BY <1>1 DEF Now, Live, Settled, CallsNamed, Named, Recorded, StubsUsable, Unusable, Lists
  <1>3. NothingReplayed' <=> NothingReplayed
    BY <1>1 DEF NothingReplayed
  <1>4. RunInv' <=> RunInv
    BY <1>1, <1>2 DEF RunInv, Recorded, IsModel
  <1>5. \A m, h : Story(m, h)' <=> Story(m, h)
    BY <1>1 DEF Story, Held
  <1>6. \A c : (Sealed(c)' <=> Sealed(c)) /\ (At(c)' <=> At(c))
    BY <1>1 DEF Sealed, At, Stands, Returns, Turns, Reads
  <1>7. (StoryTo(Now))' <=> StoryTo(Now)
    BY <1>2, <1>5 DEF StoryTo
  <1>8. Retold' <=> Retold
    BY <1>5, <1>6 DEF Retold
  <1> QED BY <1>1, <1>2, <1>3, <1>4, <1>7, <1>8 DEF FaithInv, LiveRun

LEMMA FaithStep ==
  ASSUME ReplayTypes, ReplayTypes', AsksModel, VisitOpen', FaithInv, [ReplayNext]_replayVars
  PROVE  FaithInv'
  BY FaithLive, FaithUnlocked, FaithReplay, FaithSame DEF ReplayNext, Unlock

\* At the end of the story the replay has told all of it.
LEMMA FaithMatched ==
  ASSUME ReplayTypes, FaithInv, Over, flaws = {}, CallsNamed, StubsUsable
  PROVE  Matched
  <1>1. ~Live /\ pc = "ended" /\ Retold
    BY DEF FaithInv, Over, Live
  <1>2. PICK m \in Nat : \E h \in [0 .. m -> Moments] :
          Story(m, h) /\ Sealed(h[m]) /\ \E i \in 0 .. m : At(h[i])
    BY <1>1 DEF Retold
  <1>3. PICK h \in [0 .. m -> Moments] : Story(m, h) /\ Sealed(h[m]) /\ \E i \in 0 .. m : At(h[i])
    BY <1>2
  <1>4. PICK i \in 0 .. m : At(h[i])
    BY <1>3
  <1>5. i = m
    <2> SUFFICES ASSUME i < m PROVE FALSE
      OBVIOUS
    <2>1. Follows(h[i], h[i + 1])
      BY <1>3 DEF Story
    <2>2. h[i].pc = "ended"
      BY <1>1, <1>4 DEF At, Stands
    <2> QED BY <2>1, <2>2, NothingFollowsEnd
  <1> DEFINE c == h[m]
  <1>6. Sealed(c) /\ Stands(c) /\ Returns(c)
    BY <1>3, <1>4, <1>5 DEF At
  <1> HIDE DEF c
  <1>7. replayed = ledger /\ outcome.live = outcome.replay
    BY <1>6 DEF Sealed, Stands
  <1>8. ASSUME NEW j \in DOMAIN tape.snapshots PROVE SameOutput(tape.snapshots[j])
    <2>1. c.tape = tape
      BY <1>6 DEF Sealed
    <2>2. DOMAIN tape.snapshots = 1 .. Len(tape.snapshots) /\ head \in Heads
      BY TypesUnfolded DEF Tapes
    <2>3. DOMAIN head.outputs = 1 .. Len(head.outputs)
      BY <2>2 DEF Heads
    <2>4. /\ j \in DOMAIN head.outputs /\ head.outputs[j].visit = tape.snapshots[j].visit
          /\ head.outputs[j].value = Shown(tape.snapshots[j].output)
      BY <1>6, <2>1, <2>2, <2>3 DEF Returns
    <2>5. tape.snapshots[j].output.masked \/ head.outputs[j].value = tape.snapshots[j].output.value
      BY <2>4 DEF Shown
    <2> QED BY <2>4, <2>5 DEF SameOutput
  <1> QED BY <1>7, <1>8 DEF Matched

\* A run that met none of the known flaws, whose tools were named and whose stubs
\* a model can be offered, is reproduced by its archive: whatever the model, the
\* tools and the policies answered - invalid outputs, unknown tools, denials,
\* tool errors, retries - the replay of replay_trace, which is told the answers
\* alone, comes to the same last milestone, the same outputs and the same outcome.
THEOREM FaithfulTheorem == ReplaySpec => []ReplayIsFaithful
  <1> DEFINE Inv == PairInv /\ FaithInv
  <1>1. ReplayInit => Inv
    BY PairInit, FaithBegins
  <1>2. Inv /\ [ReplayNext]_replayVars => Inv'
    <2> SUFFICES ASSUME Inv, [ReplayNext]_replayVars PROVE Inv'
      OBVIOUS
    <2>1. PairInv'
      BY PairStep
    <2> QED BY <2>1, FaithStep DEF PairInv
  <1>3. Inv => ReplayIsFaithful
    BY FaithMatched DEF PairInv, ReplayTypes, ReplayIsFaithful, FaithfulReplay
  <1> QED BY <1>1, <1>2, <1>3, PTL DEF ReplaySpec
=============================================================================
