--------------------------- MODULE Records_proofs ---------------------------
(***************************************************************************)
(* Theorems about what a recorder writes: the records it admits (Ledger),  *)
(* for every limit, every configuration and whatever the scanner finds,    *)
(* and the references it puts where paths were (PathRefs), for any number  *)
(* of files, wherever they are.                                            *)
(***************************************************************************)
EXTENDS Ledger, PathRefs, FiniteSetTheorems, WellFoundedInduction, TLAPS

-----------------------------------------------------------------------------
(* Ledger. The argument only needs that a step appends at most an event and  *)
(* an annotation, and where each of the two comes from.                      *)

\* The annotation at i follows an event of its visit, and the hook's its own.
AnchoredAt(l, i) ==
  LET known == Numbers(l, i - 1, l[i].visit) IN
  /\ l[i].anchor = 0 \/ known = {} \/ l[i].anchor \in known
  /\ l[i].hooked => /\ i > 1 /\ l[i - 1].kind = "stage_completed"
                    /\ l[i - 1].number = l[i].anchor
                    /\ l[i - 1].visit = l[i].visit

\* A ledger of a run of s visits and n events.
Sound(l, s, n) ==
  /\ \E S : l \in Seq(S)
  /\ Len(l) <= MaxEntries
  /\ \A i \in 1..Len(l) :
       /\ l[i].visit \in 1..s /\ l[i].number \in 0..n /\ l[i].hooked \in BOOLEAN
       /\ l[i].kind # "annotation" => l[i].hooked = FALSE
       /\ l[i].kind = "annotation" => AnchoredAt(l, i)

ByHook(l) == {i \in 1..Len(l) : l[i].hooked}

Counted ==
  /\ dropped \in Nat /\ given \in Nat
  /\ warned = IF dropped < MaxWarnings THEN dropped ELSE MaxWarnings
  /\ IsFiniteSet(ByHook(ledger)) /\ given = dropped + Cardinality(ByHook(ledger))

LedgerIInv ==
  /\ seq \in 0..MaxEvents
  /\ stages \in Seq(StageTexts)
  /\ busy \in BOOLEAN /\ (busy => visit > 0)
  /\ full \in BOOLEAN
  /\ outcome \in {"open", "failing", "limit", "refused", "blocked", "sealed"}
  /\ Sound(ledger, visit, seq)
  /\ Counted

-----------------------------------------------------------------------------
(* Sequences *)

(* What appending one entry changes.                                         *)
LEMMA AppendFacts ==
  ASSUME NEW S, NEW l \in Seq(S), NEW r
  PROVE  /\ Append(l, r) \in Seq(S \union {r})
         /\ Len(Append(l, r)) = Len(l) + 1 /\ Len(l) \in Nat
         /\ Append(l, r)[Len(l) + 1] = r
         /\ \A i \in 1..Len(l) : Append(l, r)[i] = l[i]
<1>1. l \in Seq(S \union {r}) /\ r \in S \union {r}
  OBVIOUS
<1>. QED  BY <1>1

(* The entries before an old one are the same after an append.               *)
LEMMA NumbersKept ==
  ASSUME NEW S, NEW l \in Seq(S), NEW r, NEW n \in 0..Len(l), NEW v
  PROVE  Numbers(Append(l, r), n, v) = Numbers(l, n, v)
<1>1. \A i \in 1..n : Append(l, r)[i] = l[i]
  BY AppendFacts
<1>. QED  BY <1>1 DEF Numbers

(* A sound ledger is sound later in the run.                                 *)
LEMMA SoundLater ==
  ASSUME NEW l, NEW s \in Nat, NEW n \in Nat, NEW t \in Nat, NEW m \in Nat,
         Sound(l, s, n), s <= t, n <= m
  PROVE  Sound(l, t, m)
BY DEF Sound

(* Old entries stay sound when one is appended.                              *)
LEMMA OldKept ==
  ASSUME NEW l, NEW s \in Nat, NEW n \in Nat, Sound(l, s, n), NEW r,
         NEW i \in 1..Len(l), l[i].kind = "annotation"
  PROVE  AnchoredAt(Append(l, r), i)
<1>1. PICK S : l \in Seq(S)
  BY DEF Sound
<1>2. Append(l, r)[i] = l[i] /\ (i > 1 => Append(l, r)[i - 1] = l[i - 1])
  BY <1>1, AppendFacts
<1>3. Numbers(Append(l, r), i - 1, l[i].visit) = Numbers(l, i - 1, l[i].visit)
  <2>1. i - 1 \in 0..Len(l)
    BY <1>1, AppendFacts
  <2>. QED  BY <1>1, <2>1, NumbersKept
<1>4. AnchoredAt(l, i)
  BY DEF Sound
<1>. QED  BY <1>2, <1>3, <1>4 DEF AnchoredAt

(* Appending an event, or an annotation that is anchored, keeps it sound.    *)
LEMMA SoundAppend ==
  ASSUME LedgerAssumption, NEW l, NEW s \in Nat, NEW n \in Nat, Sound(l, s, n),
         Len(l) < MaxEntries, NEW r,
         r.visit \in 1..s, r.number \in 0..n, r.hooked \in BOOLEAN,
         r.kind # "annotation" => r.hooked = FALSE,
         r.kind = "annotation" => AnchoredAt(Append(l, r), Len(l) + 1)
  PROVE  Sound(Append(l, r), s, n)
<1>1. PICK S : l \in Seq(S)
  BY DEF Sound
<1>2. /\ Append(l, r) \in Seq(S \union {r})
      /\ Len(Append(l, r)) = Len(l) + 1 /\ Len(l) \in Nat
      /\ Append(l, r)[Len(l) + 1] = r
      /\ \A i \in 1..Len(l) : Append(l, r)[i] = l[i]
  BY <1>1, AppendFacts
<1>3. Len(Append(l, r)) <= MaxEntries
  BY <1>2 DEF LedgerAssumption
<1>4. ASSUME NEW i \in 1..Len(Append(l, r))
      PROVE  /\ Append(l, r)[i].visit \in 1..s /\ Append(l, r)[i].number \in 0..n
             /\ Append(l, r)[i].hooked \in BOOLEAN
             /\ Append(l, r)[i].kind # "annotation" => Append(l, r)[i].hooked = FALSE
             /\ Append(l, r)[i].kind = "annotation" => AnchoredAt(Append(l, r), i)
  <2>1. CASE i = Len(l) + 1
    BY <2>1, <1>2
  <2>2. CASE i # Len(l) + 1
    <3>1. i \in 1..Len(l) /\ Append(l, r)[i] = l[i]
      BY <2>2, <1>2
    <3>2. l[i].kind = "annotation" => AnchoredAt(Append(l, r), i)
      BY <3>1, OldKept
    <3>. QED  BY <3>1, <3>2 DEF Sound
  <2>. QED  BY <2>1, <2>2
<1>. HIDE DEF AnchoredAt
<1>. QED  BY <1>2, <1>3, <1>4 DEF Sound

(* The hook's annotations, counted.                                          *)
LEMMA CountAppend ==
  ASSUME NEW S, NEW l \in Seq(S), NEW r, r.hooked \in BOOLEAN, IsFiniteSet(ByHook(l))
  PROVE  /\ IsFiniteSet(ByHook(Append(l, r)))
         /\ Cardinality(ByHook(l)) \in Nat
         /\ Cardinality(ByHook(Append(l, r))) =
              IF r.hooked THEN Cardinality(ByHook(l)) + 1 ELSE Cardinality(ByHook(l))
<1>1. /\ Len(Append(l, r)) = Len(l) + 1 /\ Len(l) \in Nat
      /\ Append(l, r)[Len(l) + 1] = r
      /\ \A i \in 1..Len(l) : Append(l, r)[i] = l[i]
  BY AppendFacts
<1>2. ByHook(Append(l, r)) = IF r.hooked THEN ByHook(l) \union {Len(l) + 1} ELSE ByHook(l)
  BY <1>1 DEF ByHook
<1>3. Len(l) + 1 \notin ByHook(l)
  BY <1>1 DEF ByHook
<1>4. Cardinality(ByHook(l)) \in Nat
  BY FS_CardinalityType
<1>5. CASE r.hooked
  <2>1. ByHook(Append(l, r)) = ByHook(l) \union {Len(l) + 1}
    BY <1>2, <1>5
  <2>2. /\ IsFiniteSet(ByHook(l) \union {Len(l) + 1})
        /\ Cardinality(ByHook(l) \union {Len(l) + 1}) = Cardinality(ByHook(l)) + 1
    BY <1>3, FS_AddElement
  <2>. QED  BY <2>1, <2>2, <1>4, <1>5
<1>6. CASE ~r.hooked
  <2>1. ByHook(Append(l, r)) = ByHook(l)
    BY <1>2, <1>6
  <2>. QED  BY <2>1, <1>4, <1>6
<1>. QED  BY <1>5, <1>6

-----------------------------------------------------------------------------
(* What is admitted *)

(* There is room for what is admitted.                                       *)
LEMMA RoomFacts ==
  ASSUME LedgerAssumption, NEW l, NEW s, NEW n, Sound(l, s, n), NEW rec, Admits(l, rec)
  PROVE  Len(l) < MaxEntries
<1>1. Len(l) \in Nat
  BY DEF Sound
<1>. QED  BY <1>1 DEF Admits, Full, LedgerAssumption

(* An observed event of a visit that has begun keeps the ledger sound, and   *)
(* is no annotation of the hook.                                             *)
LEMMA EventFacts ==
  ASSUME LedgerAssumption, NEW s \in Nat, NEW n \in Nat, Sound(ledger, s, n),
         IsFiniteSet(ByHook(ledger)),
         NEW k, k # "annotation", NEW v \in 1..s, NEW m \in 0..n, NEW f
  PROVE  LET rec == [kind |-> k, visit |-> v, number |-> m, anchor |-> 0, hooked |-> FALSE, fields |-> f]
         IN  /\ Sound(Observed(rec), s, n)
             /\ IsFiniteSet(ByHook(Observed(rec)))
             /\ Cardinality(ByHook(Observed(rec))) = Cardinality(ByHook(ledger))
<1>. DEFINE rec == [kind |-> k, visit |-> v, number |-> m, anchor |-> 0, hooked |-> FALSE, fields |-> f]
            got == [rec EXCEPT !.fields = Redacted(rec.fields)]
<1>1. CASE Admits(ledger, rec)
  <2>1. /\ Admit(ledger, rec) = Append(ledger, got)
        /\ got.kind = k /\ got.visit = v /\ got.number = m /\ got.hooked = FALSE
    BY DEF Admit
  <2>2. Observed(rec) = Append(ledger, got)
    BY <1>1, <2>1 DEF Observed
  <2>3. Len(ledger) < MaxEntries
    BY <1>1, RoomFacts
  <2>. HIDE DEF got
  <2>4. Sound(Append(ledger, got), s, n)
    <3>1. /\ got.visit \in 1..s /\ got.number \in 0..n /\ got.hooked \in BOOLEAN
          /\ got.kind # "annotation"
      BY <2>1
    <3>2. got.kind # "annotation" => got.hooked = FALSE
      BY <2>1
    <3>3. got.kind = "annotation" => AnchoredAt(Append(ledger, got), Len(ledger) + 1)
      BY <3>1
    <3>. QED  BY <3>1, <3>2, <3>3, <2>3, SoundAppend
  <2>5. PICK S : ledger \in Seq(S)
    BY DEF Sound
  <2>6. /\ IsFiniteSet(ByHook(Append(ledger, got)))
        /\ Cardinality(ByHook(Append(ledger, got))) = Cardinality(ByHook(ledger))
    <3>1. got.hooked \in BOOLEAN
      BY <2>1
    <3>. QED  BY <3>1, <2>1, <2>5, CountAppend
  <2>. QED  BY <2>2, <2>4, <2>6
<1>2. CASE ~Admits(ledger, rec)
  <2>1. Observed(rec) = ledger
    BY <1>2 DEF Observed
  <2>. QED  BY <2>1
<1>. QED  BY <1>1, <1>2

(* A record of the current visit, at the next number.                        *)
LEMMA RecordFacts ==
  ASSUME LedgerAssumption, LedgerIInv, visit > 0, NEW k, k # "annotation", NEW f
  PROVE  /\ Sound(Observed(Record(k, f)), visit, seq + 1)
         /\ IsFiniteSet(ByHook(Observed(Record(k, f))))
         /\ Cardinality(ByHook(Observed(Record(k, f)))) = Cardinality(ByHook(ledger))
<1>. DEFINE g == <<Field("/stage_id", stages[visit])>> \o f
            rec == [kind |-> k, visit |-> visit, number |-> seq + 1, anchor |-> 0, hooked |-> FALSE,
                    fields |-> g]
<1>1. /\ visit \in Nat /\ seq \in Nat /\ seq + 1 \in Nat /\ visit \in 1..visit /\ seq + 1 \in 0..seq + 1
      /\ seq <= seq + 1 /\ visit <= visit
  BY DEF LedgerIInv, LedgerAssumption, visit
<1>2. Sound(ledger, visit, seq + 1)
  <2>1. Sound(ledger, visit, seq)
    BY DEF LedgerIInv
  <2>. HIDE DEF Sound
  <2>. QED  BY <1>1, <2>1, SoundLater
<1>3. IsFiniteSet(ByHook(ledger))
  BY DEF LedgerIInv, Counted
<1>4. /\ Sound(Observed(rec), visit, seq + 1)
      /\ IsFiniteSet(ByHook(Observed(rec)))
      /\ Cardinality(ByHook(Observed(rec))) = Cardinality(ByHook(ledger))
  <2>. HIDE DEF g
  <2>. QED  BY <1>1, <1>2, <1>3, EventFacts
<1>5. Record(k, f) = rec
  BY DEF Record
<1>. QED  BY <1>4, <1>5

(* An annotation that persists is anchored where it stands. The hook's comes *)
(* right after the stage_completed that called it, and carries its number.   *)
LEMMA NoteFacts ==
  ASSUME LedgerAssumption, NEW l, NEW s \in Nat, NEW n \in Nat, Sound(l, s, n),
         IsFiniteSet(ByHook(l)),
         NEW spec \in Specs, NEW v \in 1..s, NEW anchor, NEW hooked \in BOOLEAN,
         hooked => /\ Len(l) > 0 /\ l[Len(l)].kind = "stage_completed"
                   /\ l[Len(l)].number = anchor /\ l[Len(l)].visit = v,
         Persists(l, spec, v, anchor)
  PROVE  /\ Sound(Admit(l, Annotation(spec, v, anchor, hooked)), s, n)
         /\ IsFiniteSet(ByHook(Admit(l, Annotation(spec, v, anchor, hooked))))
         /\ Cardinality(ByHook(Admit(l, Annotation(spec, v, anchor, hooked)))) =
              IF hooked THEN Cardinality(ByHook(l)) + 1 ELSE Cardinality(ByHook(l))
<1>. DEFINE rec == Annotation(spec, v, anchor, hooked)
            got == [rec EXCEPT !.fields = Redacted(rec.fields)]
<1>1. /\ Admit(l, rec) = Append(l, got)
      /\ got.kind = "annotation" /\ got.visit = v /\ got.number = 0 /\ got.anchor = anchor
      /\ got.hooked = hooked
  BY DEF Admit, Annotation
<1>2. Len(l) < MaxEntries
  <2>1. Admits(l, Annotation(spec, v, anchor, FALSE))
    BY DEF Persists
  <2>. QED  BY <2>1, RoomFacts
<1>3. PICK S : l \in Seq(S)
  BY DEF Sound
<1>. HIDE DEF got
<1>4. /\ Append(l, got)[Len(l) + 1] = got /\ Len(l) \in Nat
      /\ \A i \in 1..Len(l) : Append(l, got)[i] = l[i]
  BY <1>3, AppendFacts
<1>5. AnchoredAt(Append(l, got), Len(l) + 1)
  <2>1. Numbers(Append(l, got), Len(l), v) = Numbers(l, Len(l), v)
    BY <1>3, <1>4, NumbersKept
  <2>2. anchor = 0 \/ Numbers(l, Len(l), v) = {} \/ anchor \in Numbers(l, Len(l), v)
    BY DEF Persists, Belongs, Known
  <2>. DEFINE big == Append(l, got)
              top == Len(l) + 1
  <2>3. big[top] = got /\ top - 1 = Len(l)
    BY <1>4
  <2>4. CASE hooked
    <3>1. /\ top > 1 /\ big[top - 1].kind = "stage_completed"
          /\ big[top - 1].number = anchor /\ big[top - 1].visit = v
      <4>1. Len(l) > 0 /\ Len(l) \in 1..Len(l) /\ big[Len(l)] = l[Len(l)]
        BY <1>4, <2>4
      <4>2. /\ l[Len(l)].kind = "stage_completed"
            /\ l[Len(l)].number = anchor /\ l[Len(l)].visit = v
        BY <2>4
      <4>. QED  BY <1>4, <2>3, <4>1, <4>2
    <3>. HIDE DEF Numbers, big, top
    <3>2. AnchoredAt(big, top)
      BY <3>1, <1>1, <2>1, <2>2, <2>3 DEF AnchoredAt, big
    <3>. QED  BY <3>2 DEF big, top
  <2>5. CASE ~hooked
    <3>. HIDE DEF Numbers, big, top
    <3>1. ~big[top].hooked
      BY <2>3, <2>5, <1>1
    <3>2. AnchoredAt(big, top)
      BY <3>1, <1>1, <2>1, <2>2, <2>3 DEF AnchoredAt, big
    <3>. QED  BY <3>2 DEF big, top
  <2>. QED  BY <2>4, <2>5
<1>6. Sound(Append(l, got), s, n)
  <2>1. /\ got.visit \in 1..s /\ got.number \in 0..n /\ got.hooked \in BOOLEAN
        /\ got.kind # "annotation" => got.hooked = FALSE
    BY <1>1
  <2>. HIDE DEF Sound, AnchoredAt
  <2>. QED  BY <2>1, <1>2, <1>5, SoundAppend
<1>7. /\ IsFiniteSet(ByHook(Append(l, got)))
      /\ Cardinality(ByHook(Append(l, got))) =
           IF got.hooked THEN Cardinality(ByHook(l)) + 1 ELSE Cardinality(ByHook(l))
  <2>1. got.hooked \in BOOLEAN
    BY <1>1
  <2>. QED  BY <2>1, <1>3, CountAppend
<1>. HIDE DEF Sound
<1>. QED  BY <1>1, <1>6, <1>7

-----------------------------------------------------------------------------
(* The invariant *)

LEMMA LedgerInitInv == ASSUME LedgerAssumption, LedgerInit PROVE LedgerIInv
<1>1. ByHook(<<>>) = {}
  BY DEF ByHook
<1>2. Counted
  BY <1>1, FS_EmptySet DEF LedgerInit, Counted, LedgerAssumption
<1>3. Sound(ledger, visit, seq)
  <2>1. ledger \in Seq({}) /\ Len(ledger) = 0
    BY DEF LedgerInit
  <2>. QED  BY <2>1 DEF LedgerInit, Sound, LedgerAssumption
<1>4. /\ seq \in 0..MaxEvents /\ stages \in Seq(StageTexts)
      /\ busy = FALSE /\ full = FALSE /\ outcome = "open"
  BY DEF LedgerInit, LedgerAssumption
<1>. HIDE DEF Sound, Counted
<1>. QED  BY <1>2, <1>3, <1>4 DEF LedgerIInv

(* An event that only adds its own record keeps everything.                  *)
LEMMA RecordKeeps ==
  ASSUME LedgerAssumption, LedgerIInv, Event, visit > 0, NEW k, k # "annotation", NEW f,
         ledger' = Observed(Record(k, f)), full' = Full(ledger), busy' \in BOOLEAN,
         UNCHANGED <<stages, dropped, warned, given, outcome>>
  PROVE  LedgerIInv'
<1>1. /\ Sound(ledger', visit, seq + 1)
      /\ IsFiniteSet(ByHook(ledger'))
      /\ Cardinality(ByHook(ledger')) = Cardinality(ByHook(ledger))
  BY RecordFacts
<1>2. Counted'
  BY <1>1 DEF LedgerIInv, Counted, ByHook
<1>3. visit' = visit /\ seq' = seq + 1 /\ seq' \in 0..MaxEvents
  BY DEF Event, LedgerIInv, LedgerAssumption, visit
<1>4. Sound(ledger, visit, seq)'
  BY <1>1, <1>3 DEF Sound, AnchoredAt, Numbers
<1>5. full' \in BOOLEAN
  BY DEF Full, LedgerIInv
<1>. HIDE DEF Sound, Counted
<1>. QED  BY <1>2, <1>3, <1>4, <1>5 DEF LedgerIInv

(* So does a completion, whose hook may add an annotation or lose one.       *)
LEMMA CompletionKeeps ==
  ASSUME LedgerAssumption, LedgerIInv, NEW out, NEW answer \in Answers, StageCompletes(out, answer)
  PROVE  LedgerIInv'
<1>. DEFINE rec == Record("stage_completed", ProjectStageOutput(out))
            l == Observed(rec)
<1>1. /\ Sound(l, visit, seq + 1)
      /\ IsFiniteSet(ByHook(l))
      /\ Cardinality(ByHook(l)) = Cardinality(ByHook(ledger))
  BY RecordFacts DEF StageCompletes
<1>2. /\ visit' = visit /\ seq' = seq + 1 /\ seq' \in 0..MaxEvents /\ visit \in Nat /\ seq + 1 \in Nat
      /\ visit \in 1..visit
  BY DEF StageCompletes, Event, LedgerIInv, LedgerAssumption, visit
<1>3. /\ dropped \in Nat /\ given \in Nat /\ full \in BOOLEAN /\ MaxWarnings \in Nat
      /\ Cardinality(ByHook(ledger)) \in Nat
      /\ given = dropped + Cardinality(ByHook(ledger))
      /\ warned = IF dropped < MaxWarnings THEN dropped ELSE MaxWarnings
  BY FS_CardinalityType DEF LedgerIInv, Counted, LedgerAssumption
<1>4. /\ Sound(ledger', visit, seq + 1) /\ full' \in BOOLEAN
      /\ dropped' \in Nat /\ given' \in Nat
      /\ warned' = IF dropped' < MaxWarnings THEN dropped' ELSE MaxWarnings
      /\ IsFiniteSet(ByHook(ledger')) /\ given' = dropped' + Cardinality(ByHook(ledger'))
  <2>1. CASE ~Admits(ledger, rec)
    <3>1. ledger' = l /\ full' = Full(ledger) /\ UNCHANGED <<dropped, warned, given>>
      BY <2>1 DEF StageCompletes, Observed
    <3>. HIDE DEF l, Sound
    <3>. QED  BY <3>1, <1>1, <1>3 DEF Full
  <2>2. CASE Admits(ledger, rec)
    <3>1. Hook(l, answer)
      BY <2>2 DEF StageCompletes
    <3>2. warned' = IF dropped' < MaxWarnings THEN dropped' ELSE MaxWarnings
      BY <3>1, <1>3 DEF Hook
    <3>3. CASE answer = Nothing
      <4>1. answer \notin Specs /\ answer # Failure
        BY <3>3 DEF Specs, Nothing, Failure
      <4>2. ledger' = l /\ UNCHANGED <<full, dropped, given>>
        BY <3>1, <3>3, <4>1 DEF Hook, Lost
      <4>. HIDE DEF l, Sound
      <4>. QED  BY <4>2, <3>2, <1>1, <1>3
    <3>4. CASE answer = Failure
      <4>1. answer \notin Specs /\ answer # Nothing
        BY <3>4 DEF Specs, Nothing, Failure
      <4>2. ledger' = l /\ UNCHANGED full /\ dropped' = dropped + 1 /\ given' = given + 1
        BY <3>1, <3>4, <4>1 DEF Hook, Lost
      <4>. HIDE DEF l, Sound
      <4>. QED  BY <4>2, <3>2, <1>1, <1>3
    <3>5. CASE answer \in Specs
      <4>1. answer # Nothing /\ answer # Failure
        BY <3>5 DEF Specs, Nothing, Failure
      <4>2. Note(l, answer, visit, HookAnchor, TRUE) /\ given' = given + 1
        BY <3>1, <3>5, <4>1 DEF Hook
      <4>3. full' \in BOOLEAN
        BY <4>2, <1>3 DEF Note, Full
      <4>4. CASE Persists(l, answer, visit, HookAnchor)
        <5>1. ledger' = Admit(l, Annotation(answer, visit, HookAnchor, TRUE))
          BY <4>2, <4>4 DEF Note
        <5>2. dropped' = dropped
          BY <3>1, <4>1, <4>4 DEF Hook, Lost
        <5>3. /\ Len(l) > 0 /\ l[Len(l)].kind = "stage_completed"
              /\ l[Len(l)].number = HookAnchor /\ l[Len(l)].visit = visit
          <6>. DEFINE got == [rec EXCEPT !.fields = Redacted(rec.fields)]
          <6>1. /\ l = Append(ledger, got) /\ got.kind = "stage_completed"
                /\ got.number = seq + 1 /\ got.visit = visit
            BY <2>2 DEF Observed, Admit, Record
          <6>2. PICK S : ledger \in Seq(S)
            BY DEF LedgerIInv, Sound
          <6>. HIDE DEF got, l
          <6>3. Len(l) = Len(ledger) + 1 /\ Len(ledger) \in Nat /\ l[Len(ledger) + 1] = got
            BY <6>1, <6>2, AppendFacts
          <6>. QED  BY <6>1, <6>3 DEF HookAnchor
        <5>. HIDE DEF l, Sound
        <5>4. /\ Sound(ledger', visit, seq + 1) /\ IsFiniteSet(ByHook(ledger'))
              /\ Cardinality(ByHook(ledger')) = Cardinality(ByHook(l)) + 1
          <6>. DEFINE by == TRUE
          <6>1. by \in BOOLEAN /\ (by => /\ Len(l) > 0 /\ l[Len(l)].kind = "stage_completed"
                                        /\ l[Len(l)].number = HookAnchor /\ l[Len(l)].visit = visit)
            BY <5>3
          <6>2. ledger' = Admit(l, Annotation(answer, visit, HookAnchor, by)) /\ by
            BY <5>1
          <6>. HIDE DEF by
          <6>3. /\ Sound(Admit(l, Annotation(answer, visit, HookAnchor, by)), visit, seq + 1)
                /\ IsFiniteSet(ByHook(Admit(l, Annotation(answer, visit, HookAnchor, by))))
                /\ Cardinality(ByHook(Admit(l, Annotation(answer, visit, HookAnchor, by)))) =
                     IF by THEN Cardinality(ByHook(l)) + 1 ELSE Cardinality(ByHook(l))
            BY <6>1, <4>4, <3>5, <1>1, <1>2, NoteFacts
          <6>. QED  BY <6>2, <6>3
        <5>. QED  BY <5>2, <5>4, <4>2, <4>3, <3>2, <1>1, <1>3
      <4>5. CASE ~Persists(l, answer, visit, HookAnchor)
        <5>1. ledger' = l /\ dropped' = dropped + 1
          BY <3>1, <4>1, <4>2, <4>5 DEF Note, Hook, Lost
        <5>. HIDE DEF l, Sound
        <5>. QED  BY <5>1, <4>2, <4>3, <3>2, <1>1, <1>3
      <4>. QED  BY <4>4, <4>5
    <3>. QED  BY <3>3, <3>4, <3>5 DEF Answers
  <2>. QED  BY <2>1, <2>2
<1>5. Counted'
  BY <1>4 DEF Counted, ByHook
<1>6. Sound(ledger, visit, seq)'
  BY <1>2, <1>4 DEF Sound, AnchoredAt, Numbers
<1>7. stages' = stages /\ busy' = busy /\ outcome' = outcome
  BY DEF StageCompletes
<1>. HIDE DEF Sound, Counted
<1>. QED  BY <1>2, <1>4, <1>5, <1>6, <1>7 DEF LedgerIInv

(* The first event of a visit is that visit's.                               *)
LEMMA StartKeeps ==
  ASSUME LedgerAssumption, LedgerIInv, NEW text \in StageTexts, StageStarts(text)
  PROVE  LedgerIInv'
<1>. DEFINE f == <<Field("/stage_id", text)>>
            s == visit + 1
            n == seq + 1
            rec == [kind |-> "stage_started", visit |-> s, number |-> n, anchor |-> 0,
                    hooked |-> FALSE, fields |-> f]
<1>1. /\ visit' = visit + 1 /\ seq' = seq + 1 /\ seq' \in 0..MaxEvents
      /\ visit \in Nat /\ visit + 1 \in Nat /\ visit <= visit + 1 /\ visit + 1 \in 1..visit + 1
      /\ seq \in Nat /\ seq + 1 \in Nat /\ seq <= seq + 1 /\ seq + 1 \in 0..seq + 1
      /\ stages' \in Seq(StageTexts)
  BY DEF StageStarts, Event, LedgerIInv, LedgerAssumption, visit
<1>2. Sound(ledger, visit + 1, seq + 1)
  <2>1. Sound(ledger, visit, seq)
    BY DEF LedgerIInv
  <2>. HIDE DEF Sound
  <2>. QED  BY <1>1, <2>1, SoundLater
<1>3. ledger' = Observed(rec) /\ full' = Full(ledger)
  BY DEF StageStarts
<1>4. /\ Sound(ledger', s, n)
      /\ IsFiniteSet(ByHook(ledger'))
      /\ Cardinality(ByHook(ledger')) = Cardinality(ByHook(ledger))
  <2>1. IsFiniteSet(ByHook(ledger))
    BY DEF LedgerIInv, Counted
  <2>2. s \in Nat /\ n \in Nat /\ s \in 1..s /\ n \in 0..n /\ Sound(ledger, s, n)
    BY <1>1, <1>2
  <2>. HIDE DEF f, s, n, Sound
  <2>3. /\ Sound(Observed(rec), s, n)
        /\ IsFiniteSet(ByHook(Observed(rec)))
        /\ Cardinality(ByHook(Observed(rec))) = Cardinality(ByHook(ledger))
    BY <2>1, <2>2, EventFacts
  <2>. HIDE DEF rec
  <2>. QED  BY <2>3, <1>3
<1>5. Counted'
  BY <1>4 DEF LedgerIInv, Counted, StageStarts, ByHook
<1>6. Sound(ledger, visit, seq)'
  BY <1>1, <1>4 DEF Sound, AnchoredAt, Numbers
<1>7. full' \in BOOLEAN /\ busy' = FALSE /\ outcome' = outcome
  BY <1>3 DEF Full, LedgerIInv, StageStarts
<1>. HIDE DEF Sound, Counted
<1>. QED  BY <1>1, <1>5, <1>6, <1>7 DEF LedgerIInv

(* An annotation of the host is no annotation of the hook.                   *)
LEMMA AnnotationKeeps ==
  ASSUME LedgerAssumption, LedgerIInv, NEW spec \in Specs, NEW v, NEW anchor, Annotate(spec, v, anchor)
  PROVE  LedgerIInv'
<1>1. /\ v \in 1..visit /\ visit \in Nat /\ seq \in Nat /\ Sound(ledger, visit, seq)
      /\ IsFiniteSet(ByHook(ledger))
  BY DEF LedgerIInv, LedgerAssumption, Counted, Annotate, visit
<1>2. Note(ledger, spec, v, anchor, FALSE)
  BY DEF Annotate
<1>3. /\ Sound(ledger', visit, seq) /\ IsFiniteSet(ByHook(ledger'))
      /\ Cardinality(ByHook(ledger')) = Cardinality(ByHook(ledger))
  <2>1. CASE Persists(ledger, spec, v, anchor)
    <3>. DEFINE by == FALSE
    <3>1. by \in BOOLEAN /\ ~by /\ ledger' = Admit(ledger, Annotation(spec, v, anchor, by))
      BY <1>2, <2>1 DEF Note
    <3>. HIDE DEF by, Sound
    <3>2. /\ Sound(Admit(ledger, Annotation(spec, v, anchor, by)), visit, seq)
          /\ IsFiniteSet(ByHook(Admit(ledger, Annotation(spec, v, anchor, by))))
          /\ Cardinality(ByHook(Admit(ledger, Annotation(spec, v, anchor, by)))) =
               IF by THEN Cardinality(ByHook(ledger)) + 1 ELSE Cardinality(ByHook(ledger))
      BY <3>1, <1>1, <2>1, NoteFacts
    <3>. QED  BY <3>1, <3>2
  <2>2. CASE ~Persists(ledger, spec, v, anchor)
    BY <1>1, <1>2, <2>2 DEF Note
  <2>. QED  BY <2>1, <2>2
<1>4. UNCHANGED <<seq, stages, busy, dropped, warned, given, outcome>> /\ full' \in BOOLEAN
  BY <1>2 DEF Annotate, Note, Full, LedgerIInv
<1>5. Counted'
  BY <1>3, <1>4 DEF LedgerIInv, Counted, ByHook
<1>6. Sound(ledger, visit, seq)'
  BY <1>3, <1>4 DEF Sound, AnchoredAt, Numbers, visit
<1>. HIDE DEF Sound, Counted
<1>. QED  BY <1>4, <1>5, <1>6 DEF LedgerIInv, visit

(* What leaves the ledger and its counters alone keeps everything.           *)
LEMMA QuietKeeps ==
  ASSUME LedgerIInv, UNCHANGED <<seq, stages, busy, ledger, full, dropped, warned, given>>,
         outcome' \in {"open", "failing", "limit", "refused", "blocked", "sealed"}
  PROVE  LedgerIInv'
<1>1. visit' = visit
  BY DEF visit
<1>2. Counted'
  BY DEF LedgerIInv, Counted, ByHook
<1>3. Sound(ledger, visit, seq)'
  <2>1. Sound(ledger, visit, seq)
    BY DEF LedgerIInv
  <2>2. ledger' = ledger /\ seq' = seq
    OBVIOUS
  <2>3. Sound(ledger', visit, seq')
    <3>. HIDE DEF Sound
    <3>. QED  BY <2>1, <2>2
  <2>. QED  BY <1>1, <2>3 DEF Sound, AnchoredAt, Numbers
<1>. HIDE DEF Sound, Counted
<1>. QED  BY <1>1, <1>2, <1>3 DEF LedgerIInv

LEMMA LedgerStep == ASSUME LedgerAssumption, LedgerIInv, [LedgerNext]_ledgerVars PROVE LedgerIInv'
<1>1. CASE UNCHANGED ledgerVars
  BY <1>1, QuietKeeps DEF ledgerVars, LedgerIInv
<1>2. ASSUME NEW text \in StageTexts, StageStarts(text) PROVE LedgerIInv'
  BY <1>2, StartKeeps
<1>3. ASSUME NEW use \in ToolUses, ToolStarts(use) PROVE LedgerIInv'
  BY <1>3, RecordKeeps DEF ToolStarts
<1>4. ASSUME NEW value \in Results, ToolReturns(value) PROVE LedgerIInv'
  <2>1. visit > 0
    BY <1>4 DEF ToolReturns, LedgerIInv
  <2>. QED  BY <1>4, <2>1, RecordKeeps DEF ToolReturns
<1>5. ASSUME NEW value \in Messages, ToolFails(value) PROVE LedgerIInv'
  <2>1. visit > 0
    BY <1>5 DEF ToolFails, LedgerIInv
  <2>. QED  BY <1>5, <2>1, RecordKeeps DEF ToolFails
<1>6. ASSUME NEW value \in Messages, ModelResponds(value) PROVE LedgerIInv'
  <2>1. busy' \in BOOLEAN
    BY <1>6 DEF ModelResponds, LedgerIInv
  <2>. QED  BY <1>6, <2>1, RecordKeeps DEF ModelResponds
<1>7. ASSUME NEW out \in Outputs, NEW answer \in Answers, StageCompletes(out, answer) PROVE LedgerIInv'
  BY <1>7, CompletionKeeps
<1>8. ASSUME NEW spec \in Specs, NEW v, NEW anchor, Annotate(spec, v, anchor) PROVE LedgerIInv'
  BY <1>8, AnnotationKeeps
<1>9. ASSUME NEW ir, NEW label, NEW fits, FinishRun(ir, label, fits) PROVE LedgerIInv'
  <2>1. outcome' \in {"open", "failing", "limit", "refused", "blocked", "sealed"}
    BY <1>9 DEF FinishRun
  <2>2. UNCHANGED <<seq, stages, busy, ledger, full, dropped, warned, given>>
    BY <1>9 DEF FinishRun
  <2>. QED  BY <2>1, <2>2, QuietKeeps
<1>10. CASE Finished
  BY <1>10, QuietKeeps DEF Finished, ledgerVars, LedgerIInv
<1>11. ASSUME NEW value, RecordFails(value) PROVE LedgerIInv'
  BY <1>11, QuietKeeps DEF RecordFails
<1>. QED  BY <1>1, <1>2, <1>3, <1>4, <1>5, <1>6, <1>7, <1>8, <1>9, <1>10, <1>11 DEF LedgerNext

(* The ledger is sound, and the hook accounted for, in every state.          *)
THEOREM LedgerInvariant == LedgerSpec => []LedgerIInv
<1>1. LedgerInit => LedgerIInv
  BY LedgerInitInv, LedgerAssumption
<1>2. LedgerIInv /\ [LedgerNext]_ledgerVars => LedgerIInv'
  BY LedgerStep, LedgerAssumption
<1>. QED  BY <1>1, <1>2, PTL DEF LedgerSpec

-----------------------------------------------------------------------------
(* Theorems *)

(* Entries stay within the limit, each of a visit and an event that began;   *)
(* warnings are a bounded prefix of what was lost (observe_workflow_event,   *)
(* _record_annotation_warning).                                              *)
THEOREM LedgerTypeCorrect == LedgerSpec => []LedgerTypeOK
<1>1. LedgerIInv => LedgerTypeOK
  BY DEF LedgerIInv, LedgerTypeOK, Sound, Counted
<1>. QED  BY <1>1, LedgerInvariant, PTL

(* No annotation is anchored at an event of another visit, or a later one,   *)
(* and the hook's follows the completion that called it (record_annotation). *)
THEOREM AnchorTheorem == LedgerSpec => []AnchorsBelong
<1>1. LedgerIInv => AnchorsBelong
  <2>. HIDE DEF Numbers
  <2>. QED  BY DEF LedgerIInv, AnchorsBelong, Sound, AnchoredAt
<1>. QED  BY <1>1, LedgerInvariant, PTL

(* Whatever comes out of the hook is in the ledger or counted as dropped     *)
(* (_maybe_emit_stage_annotation).                                           *)
THEOREM AccountTheorem == LedgerSpec => []HookAccounted
<1>1. LedgerIInv => HookAccounted
  BY DEF LedgerIInv, HookAccounted, Counted, ByHook
<1>. QED  BY <1>1, LedgerInvariant, PTL

-----------------------------------------------------------------------------
(* Recursion. What a recursive function gives is shown by the least number   *)
(* for which it would not.                                                   *)

LEMMA LeastNumber ==
  ASSUME NEW T \in SUBSET Nat, T # {}
  PROVE  \E x \in T : \A y \in T : x <= y
<1>1. PICK x \in T : \A y \in T : <<y, x>> \notin OpToRel(<, Nat)
  <2> DEFINE R == OpToRel(<, Nat)
  <2>1. IsWellFoundedOn(R, Nat)
    BY NatLessThanWellFounded
  <2> HIDE DEF R
  <2>2. \E x \in T : \A y \in T : ~(<<y, x>> \in R)
    BY <2>1, WFMin
  <2> QED
    BY <2>2 DEF R
<1>2. \A y \in T : ~(y < x)
  BY <1>1 DEF OpToRel
<1> QED
  BY <1>2

(* A set of numbers that has 0, and the next of each it has, has all.        *)
LEMMA NumberInduction ==
  ASSUME NEW S, 0 \in S, \A n \in Nat : n \in S => n + 1 \in S
  PROVE  Nat \subseteq S
<1> SUFFICES ASSUME Nat \ S # {} PROVE FALSE
  OBVIOUS
<1>1. PICK x \in Nat \ S : \A y \in Nat \ S : x <= y
  BY LeastNumber
<1>2. x - 1 \in Nat /\ x - 1 \in S /\ x = (x - 1) + 1
  BY <1>1
<1> QED
  BY <1>1, <1>2

(* The passes, one after the other.                                          *)
PassesAre(f, rec, rules, places, k) ==
  f = [n \in 0 .. k |-> IF n = 0 THEN rec ELSE OnePass(f[n - 1], rules, places)]

LEMMA PassesExist ==
  ASSUME NEW rec, NEW rules, NEW places, NEW k \in Nat
  PROVE  \E f : PassesAre(f, rec, rules, places, k) /\ Passes(rec, rules, places, k) = f[k]
<1> DEFINE S == {m \in Nat : \E f : PassesAre(f, rec, rules, places, m)}
<1>1. 0 \in S
  <2> DEFINE f == [n \in 0 .. 0 |-> rec]
  <2>1. f = [n \in 0 .. 0 |-> IF n = 0 THEN rec ELSE OnePass(f[n - 1], rules, places)]
    OBVIOUS
  <2> QED
    BY <2>1 DEF PassesAre
<1>2. ASSUME NEW m \in Nat, m \in S PROVE m + 1 \in S
  <2>1. PICK f : PassesAre(f, rec, rules, places, m)
    BY <1>2
  <2> DEFINE g == [n \in 0 .. m + 1 |-> IF n = m + 1 THEN OnePass(f[m], rules, places) ELSE f[n]]
  <2>2. ASSUME NEW n \in 0 .. m + 1
        PROVE  g[n] = IF n = 0 THEN rec ELSE OnePass(g[n - 1], rules, places)
    <3>1. CASE n = m + 1
      BY <3>1
    <3>2. CASE n \in 0 .. m
      <4>1. f[n] = IF n = 0 THEN rec ELSE OnePass(f[n - 1], rules, places)
        BY <2>1, <3>2 DEF PassesAre
      <4>2. g[n] = f[n] /\ (n # 0 => g[n - 1] = f[n - 1])
        BY <3>2
      <4> HIDE DEF g
      <4> QED
        BY <4>1, <4>2
    <3> QED
      BY <3>1, <3>2
  <2>3. g = [n \in 0 .. m + 1 |-> g[n]]
    OBVIOUS
  <2> HIDE DEF g
  <2>4. PassesAre(g, rec, rules, places, m + 1)
    BY <2>2, <2>3 DEF PassesAre
  <2> QED
    BY <2>4
<1>3. k \in S
  <2> HIDE DEF S
  <2> QED
    BY <1>1, <1>2, NumberInduction
<1> DEFINE f == CHOOSE f : f = [n \in 0 .. k |-> IF n = 0 THEN rec ELSE OnePass(f[n - 1], rules, places)]
<1>4. f = [n \in 0 .. k |-> IF n = 0 THEN rec ELSE OnePass(f[n - 1], rules, places)]
  BY <1>3 DEF PassesAre
<1>5. Passes(rec, rules, places, k) = f[k]
  BY DEF Passes
<1> QED
  BY <1>4, <1>5 DEF PassesAre

(* Each pass starts from what the one before it left.                        *)
LEMMA PassesStep ==
  \A rec, rules, places :
    /\ Passes(rec, rules, places, 0) = rec
    /\ \A k \in Nat : Passes(rec, rules, places, k + 1) = OnePass(Passes(rec, rules, places, k), rules, places)
<1> SUFFICES ASSUME NEW rec, NEW rules, NEW places
             PROVE  /\ Passes(rec, rules, places, 0) = rec
                    /\ \A k \in Nat : Passes(rec, rules, places, k + 1)
                                        = OnePass(Passes(rec, rules, places, k), rules, places)
  OBVIOUS
<1>1. Passes(rec, rules, places, 0) = rec
  BY PassesExist DEF PassesAre
<1>2. ASSUME NEW k \in Nat
      PROVE  Passes(rec, rules, places, k + 1) = OnePass(Passes(rec, rules, places, k), rules, places)
  <2>1. PICK f : PassesAre(f, rec, rules, places, k) /\ Passes(rec, rules, places, k) = f[k]
    BY PassesExist
  <2>2. PICK g : PassesAre(g, rec, rules, places, k + 1) /\ Passes(rec, rules, places, k + 1) = g[k + 1]
    <3>1. k + 1 \in Nat
      OBVIOUS
    <3> QED
      BY <3>1, PassesExist
  <2>3. \A n \in 0 .. k : f[n] = IF n = 0 THEN rec ELSE OnePass(f[n - 1], rules, places)
    BY <2>1 DEF PassesAre
  <2>4. \A n \in 0 .. k + 1 : g[n] = IF n = 0 THEN rec ELSE OnePass(g[n - 1], rules, places)
    BY <2>2 DEF PassesAre
  <2> DEFINE S == {n \in Nat : n <= k => f[n] = g[n]}
  <2>5. 0 \in S
    BY <2>3, <2>4
  <2>6. ASSUME NEW n \in Nat, n \in S PROVE n + 1 \in S
    <3> SUFFICES ASSUME n + 1 <= k PROVE f[n + 1] = g[n + 1]
      OBVIOUS
    <3>1. f[n] = g[n] /\ n + 1 \in 0 .. k /\ n + 1 \in 0 .. k + 1 /\ n + 1 # 0 /\ (n + 1) - 1 = n
      BY <2>6
    <3> QED
      BY <2>3, <2>4, <3>1
  <2>7. f[k] = g[k]
    <3>1. Nat \subseteq S
      <4> HIDE DEF S
      <4> QED
        BY <2>5, <2>6, NumberInduction
    <3> QED
      BY <3>1
  <2>8. k + 1 \in 0 .. k + 1 /\ k + 1 # 0 /\ (k + 1) - 1 = k
    OBVIOUS
  <2> QED
    BY <2>1, <2>2, <2>4, <2>7, <2>8
<1> QED
  BY <1>1, <1>2


-----------------------------------------------------------------------------
(* Masking. What the passes leave of a record is nothing, or the record with *)
(* markers where something was found.                                        *)

\* The provers do not know that these are strings.
Text == STRING \union
  {"/", "/v", "/v/out", "/v/stdout", "/v/headers", "/stage_id", "/tool_name", "/args/path",
   "/args/content", "/redacted_fields", "/annotation/payload",
   "/annotation/payload/mechanism_id", "/annotation/namespace",
   "marker", "plain", "secret", "trial", "other", "long"}
FieldType == [at : Text, has : Text]

\* The record s is r but for markers where r has findings of the rules.
Marked(s, r, rules) ==
  /\ s \in Seq(FieldType) /\ DOMAIN s = DOMAIN r
  /\ \A i \in DOMAIN r : s[i] = r[i] \/ (Rule(r[i]) \in rules /\ s[i] = Field(r[i].at, "marker"))

(* A field of texts.                                                         *)
LEMMA FieldFacts ==
  ASSUME NEW place \in Text, NEW held \in Text
  PROVE  Field(place, held) \in FieldType
BY DEF Field, FieldType

(* A marker is a field.                                                      *)
LEMMA MarkerField == ASSUME NEW place \in Text PROVE Field(place, "marker") \in FieldType
<1>1. "marker" \in Text
  BY DEF Text
<1> QED
  BY <1>1, FieldFacts

(* A marker is not found again.                                              *)
LEMMA MarkerRule == \A place : Rule(Field(place, "marker")) = "none"
<1> SUFFICES ASSUME NEW place PROVE Rule(Field(place, "marker")) = "none"
  OBVIOUS
<1>1. Field(place, "marker").has = "marker" /\ "marker" \notin DOMAIN Finding
  BY DEF Field, Finding
<1> QED
  BY <1>1 DEF Rule

(* Masking adds no findings.                                                 *)
LEMMA MarkedHits ==
  ASSUME NEW s, NEW r, NEW rules, Marked(s, r, rules), NEW other, "none" \notin other
  PROVE  Hits(s, other) \subseteq Hits(r, other)
BY MarkerRule DEF Marked, Hits

(* A record is itself, but for nothing.                                      *)
LEMMA MarkedFirst ==
  ASSUME NEW r \in Seq(FieldType), NEW rules
  PROVE  Marked(r, r, rules)
BY DEF Marked

(* There are finitely many findings, and a first one.                        *)
LEMMA HitsFacts ==
  ASSUME NEW r \in Seq(FieldType), NEW rules
  PROVE  /\ IsFiniteSet(Hits(r, rules)) /\ Cardinality(Hits(r, rules)) \in Nat
         /\ Hits(r, rules) \subseteq DOMAIN r
         /\ Hits(r, rules) # {} => First(Hits(r, rules)) \in Hits(r, rules)
<1>1. Hits(r, rules) \subseteq DOMAIN r /\ DOMAIN r = 1 .. Len(r) /\ Len(r) \in Nat
  BY DEF Hits
<1>2. IsFiniteSet(Hits(r, rules)) /\ Cardinality(Hits(r, rules)) \in Nat
  <2>1. IsFiniteSet(1 .. Len(r))
    BY <1>1, FS_Interval
  <2>2. IsFiniteSet(Hits(r, rules))
    BY <1>1, <2>1, FS_Subset
  <2> QED
    BY <2>2, FS_CardinalityType
<1>3. ASSUME Hits(r, rules) # {} PROVE First(Hits(r, rules)) \in Hits(r, rules)
  <2> DEFINE h == Hits(r, rules)
  <2>1. h \in SUBSET Nat
    BY <1>1
  <2> HIDE DEF h
  <2>2. \E i \in h : \A j \in h : i <= j
    BY <1>3, <2>1, LeastNumber DEF h
  <2> QED
    BY <2>2 DEF First, h
<1> QED
  BY <1>1, <1>2, <1>3

(* One pass more: one finding less, or the record is given up.               *)
LEMMA OnePassFacts ==
  ASSUME NEW r \in Seq(FieldType), NEW rules, "none" \notin rules, NEW places,
         NEW p, Marked(p, r, rules)
  PROVE  LET q == OnePass(p, rules, places) IN
         /\ q = GivenUp \/ Marked(q, r, rules)
         /\ (\A i \in Hits(r, rules) : r[i].at \in places) =>
              /\ Marked(q, r, rules)
              /\ Hits(p, rules) = {} => q = p
              /\ Hits(p, rules) # {} => \E i \in Hits(p, rules) : Hits(q, rules) = Hits(p, rules) \ {i}
<1> DEFINE h == Hits(p, rules)
           i == First(h)
           q == OnePass(p, rules, places)
<1>1. CASE h = {}
  BY <1>1 DEF OnePass
<1>2. CASE h # {}
  <2>1. i \in h /\ i \in DOMAIN p /\ i \in DOMAIN r /\ Rule(p[i]) \in rules
    <3>1. p \in Seq(FieldType)
      BY DEF Marked
    <3> QED
      BY <1>2, <3>1, HitsFacts DEF Hits, Marked
  <2> HIDE DEF i
  <2>2. p[i] = r[i] /\ r[i] \in FieldType /\ i \in Hits(r, rules)
    BY <2>1, MarkerRule DEF Marked, Hits
  <2>3. CASE r[i].at \notin places
    BY <1>2, <2>2, <2>3 DEF OnePass, i
  <2>4. CASE r[i].at \in places
    <3>1. q = [p EXCEPT ![i].has = "marker"]
      BY <1>2, <2>2, <2>4 DEF OnePass, i
    <3>2. [p[i] EXCEPT !.has = "marker"] = Field(r[i].at, "marker")
      BY <2>2 DEF Field, FieldType
    <3>3. q = [p EXCEPT ![i] = Field(r[i].at, "marker")]
      BY <3>1, <3>2
    <3> HIDE DEF q
    <3>4. /\ DOMAIN q = DOMAIN p /\ q[i] = Field(r[i].at, "marker")
          /\ \A j \in DOMAIN p : j # i => q[j] = p[j]
      BY <2>1, <3>3
    <3>5. q \in Seq(FieldType)
      <4>1. Field(r[i].at, "marker") \in FieldType /\ p \in Seq(FieldType)
        BY <2>2, MarkerField DEF FieldType, Marked
      <4> QED
        BY <2>1, <3>3, <4>1
    <3>6. Marked(q, r, rules)
      BY <2>1, <2>2, <3>4, <3>5 DEF Marked
    <3>7. Hits(q, rules) = h \ {i}
      BY <2>1, <3>4, MarkerRule DEF Hits
    <3> QED
      BY <1>2, <2>1, <3>6, <3>7 DEF q
  <2> QED
    BY <2>3, <2>4
<1> QED
  BY <1>1, <1>2

(* Nothing is found in what was given up.                                    *)
LEMMA GivenUpFacts ==
  ASSUME NEW rules, "none" \notin rules, NEW places
  PROVE  /\ GivenUp \in Seq(FieldType) /\ Hits(GivenUp, rules) = {}
         /\ OnePass(GivenUp, rules, places) = GivenUp
<1>1. GivenUp \in Seq(FieldType)
  <2>1. Field("/", "marker") \in FieldType
    BY MarkerField DEF Text
  <2> QED
    BY <2>1 DEF GivenUp
<1>2. Hits(GivenUp, rules) = {}
  BY MarkerRule DEF GivenUp, Hits
<1> QED
  BY <1>1, <1>2 DEF OnePass

(* What k passes leave, and how many findings they must have cleared.        *)
LEMMA PassesFacts ==
  ASSUME NEW r \in Seq(FieldType), NEW rules, "none" \notin rules, NEW places, NEW k \in Nat
  PROVE  LET q == Passes(r, rules, places, k) IN
         /\ q = GivenUp \/ Marked(q, r, rules)
         /\ (\A i \in Hits(r, rules) : r[i].at \in places) =>
              /\ Marked(q, r, rules)
              /\ Hits(q, rules) # {} => Cardinality(Hits(q, rules)) + k <= Cardinality(Hits(r, rules))
<1> DEFINE P(n) == Passes(r, rules, places, n)
           C(x) == Cardinality(Hits(x, rules))
           able == \A i \in Hits(r, rules) : r[i].at \in places
           S == {n \in Nat : /\ P(n) = GivenUp \/ Marked(P(n), r, rules)
                             /\ able => /\ Marked(P(n), r, rules)
                                        /\ Hits(P(n), rules) # {} => C(P(n)) + n <= C(r)}
<1>1. 0 \in S
  <2>1. P(0) = r
    <3>1. Passes(r, rules, places, 0) = r
      BY PassesStep
    <3> QED
      BY <3>1
  <2>2. Marked(r, r, rules) /\ C(r) \in Nat
    BY MarkedFirst, HitsFacts
  <2> HIDE DEF P, C
  <2> QED
    BY <2>1, <2>2
<1>2. ASSUME NEW n \in Nat, n \in S PROVE n + 1 \in S
  <2> DEFINE p == P(n)
             q == P(n + 1)
  <2>1. q = OnePass(p, rules, places)
    <3>1. \A j \in Nat : Passes(r, rules, places, j + 1) = OnePass(Passes(r, rules, places, j), rules, places)
      BY PassesStep
    <3> QED
      BY <3>1
  <2>2. /\ p = GivenUp \/ Marked(p, r, rules)
        /\ able => Marked(p, r, rules) /\ (Hits(p, rules) # {} => C(p) + n <= C(r))
    BY <1>2
  <2> HIDE DEF p, q, P
  <2>3. q = GivenUp \/ Marked(q, r, rules)
    <3>1. CASE p = GivenUp
      BY <2>1, <3>1, GivenUpFacts
    <3>2. CASE Marked(p, r, rules)
      BY <2>1, <3>2, OnePassFacts
    <3> QED
      BY <2>2, <3>1, <3>2
  <2>4. ASSUME able PROVE Marked(q, r, rules) /\ (Hits(q, rules) # {} => C(q) + (n + 1) <= C(r))
    <3>1. /\ Marked(p, r, rules) /\ Marked(q, r, rules)
          /\ Hits(p, rules) = {} => q = p
          /\ Hits(p, rules) # {} => \E i \in Hits(p, rules) : Hits(q, rules) = Hits(p, rules) \ {i}
      BY <2>1, <2>2, <2>4, OnePassFacts
    <3>2. ASSUME Hits(q, rules) # {} PROVE C(q) + (n + 1) <= C(r)
      <4>1. Hits(p, rules) # {}
        BY <3>1, <3>2
      <4>2. PICK i \in Hits(p, rules) : Hits(q, rules) = Hits(p, rules) \ {i}
        BY <3>1, <4>1
      <4>3. IsFiniteSet(Hits(p, rules)) /\ C(p) \in Nat /\ C(r) \in Nat /\ C(q) \in Nat
        BY <3>1, HitsFacts DEF Marked
      <4>4. C(q) = C(p) - 1
        BY <4>2, <4>3, FS_RemoveElement
      <4>5. C(p) + n <= C(r)
        BY <2>2, <2>4, <4>1
      <4> HIDE DEF C
      <4> QED
        BY <4>3, <4>4, <4>5
    <3> QED
      BY <3>1, <3>2
  <2> HIDE DEF able, C
  <2> QED
    BY <2>3, <2>4 DEF q
<1>3. k \in S
  <2> HIDE DEF S
  <2> QED
    BY <1>1, <1>2, NumberInduction
<1> HIDE DEF P
<1>4. /\ P(k) = GivenUp \/ Marked(P(k), r, rules)
      /\ able => /\ Marked(P(k), r, rules)
                 /\ Hits(P(k), rules) # {} => C(P(k)) + k <= C(r)
  BY <1>3
<1> QED
  BY <1>4 DEF P

(* Masking leaves nothing to find, and of a record with few findings, all of *)
(* which it may mask, everything else (_scan_and_mask).                      *)
LEMMA MaskedFacts ==
  ASSUME LedgerAssumption, NEW r \in Seq(FieldType), NEW rules, "none" \notin rules, NEW places
  PROVE  LET m == Masked(r, rules, places) IN
         /\ m \in Seq(FieldType) /\ Hits(m, rules) = {}
         /\ m = GivenUp \/ Marked(m, r, rules)
         /\ (\A i \in Hits(r, rules) : r[i].at \in places) /\ Cardinality(Hits(r, rules)) < MaxPasses =>
              Marked(m, r, rules)
<1> DEFINE q == Passes(r, rules, places, MaxPasses - 1)
<1>1. MaxPasses - 1 \in Nat /\ MaxPasses \in Nat
  BY DEF LedgerAssumption
<1>2. /\ q = GivenUp \/ Marked(q, r, rules)
      /\ (\A i \in Hits(r, rules) : r[i].at \in places) =>
           /\ Marked(q, r, rules)
           /\ Hits(q, rules) # {} => Cardinality(Hits(q, rules)) + (MaxPasses - 1) <= Cardinality(Hits(r, rules))
  BY <1>1, PassesFacts
<1>3. Masked(r, rules, places) = IF Hits(q, rules) = {} THEN q ELSE GivenUp
  BY DEF Masked
<1> HIDE DEF q
<1>4. q \in Seq(FieldType)
  BY <1>2, GivenUpFacts DEF Marked
<1>5. ASSUME \A i \in Hits(r, rules) : r[i].at \in places, Cardinality(Hits(r, rules)) < MaxPasses
      PROVE  Marked(q, r, rules) /\ Hits(q, rules) = {}
  <2>1. IsFiniteSet(Hits(q, rules)) /\ Cardinality(Hits(q, rules)) \in Nat /\ Cardinality(Hits(r, rules)) \in Nat
    BY <1>4, HitsFacts
  <2>2. Hits(q, rules) # {} => Cardinality(Hits(q, rules)) # 0
    BY <2>1, FS_EmptySet
  <2> QED
    BY <1>1, <1>2, <1>5, <2>1, <2>2
<1> QED
  BY <1>2, <1>3, <1>4, <1>5, GivenUpFacts

-----------------------------------------------------------------------------
(* What a ledger and a vault may hold *)

\* Places of ids that only a vault run keeps.
Open == IF setup.replay THEN {"/annotation/payload/mechanism_id"} ELSE {}

PublicField(f, open) ==
  /\ f.at \in Maskable \union {"/annotation/payload"} /\ f.has # "marker" =>
       (f.at \in Approved /\ f.has \in Scalars) \/ f.at \in open
  /\ f.has = "huge" => f.at \in Approved
PublicFields(s, open) == s \in Seq(FieldType) /\ \A k \in DOMAIN s : PublicField(s[k], open)

\* A record that may be published, and a ledger of such records.
CleanRecord(s, open) == PublicFields(s, open) /\ Hits(s, Registered \union Detected) = {}
CleanLedger(l, open) ==
  /\ \E S : l \in Seq(S)
  /\ \A i \in DOMAIN l : CleanRecord(l[i].fields, open)

\* A fixture in which nothing is found, and that has lost no more than that.
KeepsRest(raw, kept) ==
  (/\ Cardinality(Hits(raw, Registered)) < MaxPasses
   /\ Cardinality(Hits(raw, Unexcused)) < MaxPasses
   /\ \A k \in DOMAIN raw : raw[k].has # "huge") =>
     /\ DOMAIN kept = DOMAIN raw
     /\ \A k \in DOMAIN raw :
          \/ kept[k] = raw[k]
          \/ kept[k].has = "marker" /\ (Rule(raw[k]) # "none" \/ raw[k].at \in CredentialKeys)
CleanVault(v) ==
  /\ \E S : v \in Seq(S)
  /\ \A i \in DOMAIN v : /\ Hits(v[i].kept, Registered \union Unexcused) = {}
                         /\ KeepsRest(v[i].raw, v[i].kept)

CountOf(s, kind) == Cardinality({k \in DOMAIN s : s[k].kind = kind})

SetupType ==
  [replay : BOOLEAN, ir : {"plain", "home"}, label : {"plain", "credential"}, fits : BOOLEAN]

MaskInv ==
  /\ setup \in SetupType
  /\ CleanLedger(ledger, Open)
  /\ CleanVault(vault)
  /\ setup.replay => CountOf(vault, "stage_snapshot") = CountOf(ledger, "stage_completed")
  /\ BlockedHasCause

(* One entry more.                                                           *)
LEMMA CountMore ==
  ASSUME NEW S, NEW s \in Seq(S), NEW r, NEW kind
  PROVE  /\ CountOf(s, kind) \in Nat
         /\ CountOf(Append(s, r), kind) = IF r.kind = kind THEN CountOf(s, kind) + 1 ELSE CountOf(s, kind)
<1> DEFINE these == {k \in DOMAIN s : s[k].kind = kind}
           those == {k \in DOMAIN Append(s, r) : Append(s, r)[k].kind = kind}
<1>1. /\ Len(s) \in Nat /\ DOMAIN s = 1 .. Len(s) /\ DOMAIN Append(s, r) = 1 .. Len(s) + 1
      /\ Append(s, r)[Len(s) + 1] = r
      /\ \A i \in 1 .. Len(s) : Append(s, r)[i] = s[i]
  <2>1. Append(s, r) \in Seq(S \union {r})
    BY AppendFacts
  <2> QED
    BY <2>1, AppendFacts
<1>2. these \subseteq 1 .. Len(s) /\ IsFiniteSet(1 .. Len(s))
  BY <1>1, FS_Interval
<1>3. IsFiniteSet(these)
  <2> HIDE DEF these
  <2> QED
    BY <1>2, FS_Subset
<1>4. those = IF r.kind = kind THEN these \union {Len(s) + 1} ELSE these
  BY <1>1
<1>5. Len(s) + 1 \notin these
  BY <1>1
<1> HIDE DEF these, those
<1>6. Cardinality(these) \in Nat /\ Cardinality(these \union {Len(s) + 1}) = Cardinality(these) + 1
  BY <1>3, <1>5, FS_CardinalityType, FS_AddElement
<1>7. CountOf(s, kind) = Cardinality(these) /\ CountOf(Append(s, r), kind) = Cardinality(those)
  BY DEF CountOf, these, those
<1> QED
  BY <1>4, <1>6, <1>7

(* Masking in two turns leaves what may be published (_apply_registry and    *)
(* _scan_and_mask).                                                          *)
LEMMA RedactedFacts ==
  ASSUME LedgerAssumption, NEW open, NEW s, PublicFields(s, open), Redacted(s) # GivenUp
  PROVE  CleanRecord(Redacted(s), open)
<1> DEFINE m == Masked(s, Registered, Maskable)
           q == Masked(m, Detected, Maskable)
<1>1. "none" \notin Registered /\ "none" \notin Detected /\ "none" \notin Registered \union Detected
  BY DEF Registered, Detected
<1>2. s \in Seq(FieldType)
  BY DEF PublicFields
<1>3. m \in Seq(FieldType) /\ Hits(m, Registered) = {} /\ (m = GivenUp \/ Marked(m, s, Registered))
  BY <1>1, <1>2, MaskedFacts
<1>4. Redacted(s) = q
  BY DEF Redacted
<1> HIDE DEF m
<1>5. q \in Seq(FieldType) /\ Hits(q, Detected) = {} /\ (q = GivenUp \/ Marked(q, m, Detected))
  BY <1>1, <1>3, MaskedFacts
<1> HIDE DEF q
<1>6. Marked(q, m, Detected)
  BY <1>4, <1>5
<1>7. m # GivenUp
  <2> SUFFICES ASSUME m = GivenUp PROVE FALSE
    OBVIOUS
  <2>1. Hits(m, Detected) = {}
    BY <1>1, GivenUpFacts
  <2>2. q = m
    BY <1>3, <1>6, <2>1 DEF Marked, Hits
  <2> QED
    BY <1>4, <2>2
<1>8. Marked(m, s, Registered)
  BY <1>3, <1>7
<1>9. Hits(q, Registered \union Detected) = {}
  <2>1. Hits(q, Registered) \subseteq Hits(m, Registered)
    BY <1>1, <1>6, MarkedHits
  <2> QED
    BY <1>3, <1>5, <2>1 DEF Hits
<1>10. ASSUME NEW k \in DOMAIN q PROVE PublicField(q[k], open)
  <2>1. k \in DOMAIN m /\ k \in DOMAIN s /\ PublicField(s[k], open)
    BY <1>6, <1>8 DEF Marked, PublicFields
  <2>2. q[k] = s[k] \/ q[k] = Field(s[k].at, "marker") \/ q[k] = Field(m[k].at, "marker")
    BY <1>6, <1>8, <2>1 DEF Marked
  <2>3. \A place : PublicField(Field(place, "marker"), open)
    BY DEF PublicField, Field
  <2> QED
    BY <2>1, <2>2, <2>3
<1> QED
  BY <1>4, <1>5, <1>9, <1>10 DEF CleanRecord, PublicFields

(* What is admitted to a clean ledger is clean.                              *)
LEMMA AdmitClean ==
  ASSUME LedgerAssumption, NEW open, NEW l, CleanLedger(l, open),
         NEW k, NEW v, NEW n, NEW a, NEW h, NEW f, PublicFields(f, open), Redacted(f) # GivenUp
  PROVE  LET rec == [kind |-> k, visit |-> v, number |-> n, anchor |-> a, hooked |-> h, fields |-> f] IN
         /\ CleanLedger(Admit(l, rec), open)
         /\ CountOf(Admit(l, rec), "stage_completed") =
              IF k = "stage_completed" THEN CountOf(l, "stage_completed") + 1
              ELSE CountOf(l, "stage_completed")
<1> DEFINE rec == [kind |-> k, visit |-> v, number |-> n, anchor |-> a, hooked |-> h, fields |-> f]
           got == [rec EXCEPT !.fields = Redacted(f)]
<1>1. Admit(l, rec) = Append(l, got) /\ got.kind = k /\ got.fields = Redacted(f)
  BY DEF Admit
<1>2. PICK S : l \in Seq(S)
  BY DEF CleanLedger
<1> HIDE DEF got, rec
<1>3. CleanRecord(got.fields, open)
  BY <1>1, RedactedFacts
<1>4. /\ Append(l, got) \in Seq(S \union {got}) /\ Len(l) \in Nat
      /\ DOMAIN Append(l, got) = 1 .. Len(l) + 1 /\ DOMAIN l = 1 .. Len(l)
      /\ Append(l, got)[Len(l) + 1] = got
      /\ \A i \in 1 .. Len(l) : Append(l, got)[i] = l[i]
  <2>1. Append(l, got) \in Seq(S \union {got}) /\ Len(Append(l, got)) = Len(l) + 1
    BY <1>2, AppendFacts
  <2> QED
    BY <1>2, <2>1, AppendFacts
<1>5. CleanLedger(Append(l, got), open)
  <2>1. ASSUME NEW i \in DOMAIN Append(l, got) PROVE CleanRecord(Append(l, got)[i].fields, open)
    <3>1. i = Len(l) + 1 \/ i \in DOMAIN l
      BY <1>4
    <3> QED
      BY <1>3, <1>4, <3>1 DEF CleanLedger
  <2> QED
    BY <1>4, <2>1 DEF CleanLedger
<1>6. CountOf(Append(l, got), "stage_completed") =
        IF k = "stage_completed" THEN CountOf(l, "stage_completed") + 1 ELSE CountOf(l, "stage_completed")
  BY <1>1, <1>2, CountMore
<1> QED
  BY <1>1, <1>5, <1>6 DEF rec

-----------------------------------------------------------------------------
(* Fixtures *)

VaultType == [at : VaultPlaces, has : STRING]

(* A value of the vault is a record.                                         *)
LEMMA VaultIsField == \A s \in Seq(VaultType) : s \in Seq(FieldType)
<1>1. VaultType \subseteq FieldType
  BY DEF VaultType, FieldType, VaultPlaces, Text
<1> QED
  BY <1>1

(* What replaces a value that cannot be cleaned is clean.                    *)
LEMMA DegradedFacts ==
  ASSUME NEW rules, "none" \notin rules
  PROVE  Degraded(GivenUp) \in Seq(FieldType) /\ Hits(Degraded(GivenUp), rules) = {}
<1>1. Degraded(GivenUp) = <<Field("/v", "marker")>>
  BY DEF Degraded
<1>2. Hits(<<Field("/v", "marker")>>, rules) = {}
  BY MarkerRule DEF Hits
<1>3. "/v" \in Text
  BY DEF Text
<1>4. Field("/v", "marker") \in FieldType
  BY <1>3, MarkerField
<1> QED
  BY <1>1, <1>2, <1>4

(* A vault value and the rules of one turn: what is left has no findings,    *)
(* and if they were few it is the value but for them.                        *)
LEMMA TurnFacts ==
  ASSUME LedgerAssumption, NEW r \in Seq(FieldType), NEW rules, "none" \notin rules
  PROVE  LET m == Degraded(Masked(r, rules, VaultPlaces)) IN
         /\ m \in Seq(FieldType) /\ Hits(m, rules) = {}
         /\ m = Degraded(GivenUp) \/ Marked(m, r, rules)
         /\ (\A k \in DOMAIN r : r[k].at \in VaultPlaces) /\ Cardinality(Hits(r, rules)) < MaxPasses =>
              Marked(m, r, rules)
<1> DEFINE q == Masked(r, rules, VaultPlaces)
           m == Degraded(q)
<1>1. /\ q \in Seq(FieldType) /\ Hits(q, rules) = {}
      /\ q = GivenUp \/ Marked(q, r, rules)
      /\ (\A i \in Hits(r, rules) : r[i].at \in VaultPlaces) /\ Cardinality(Hits(r, rules)) < MaxPasses =>
           Marked(q, r, rules)
  BY MaskedFacts
<1> HIDE DEF q
<1>2. m = IF q = GivenUp THEN Degraded(GivenUp) ELSE q
  BY DEF Degraded
<1>3. m \in Seq(FieldType) /\ Hits(m, rules) = {}
  BY <1>1, <1>2, DegradedFacts
<1>4. m = Degraded(GivenUp) \/ Marked(m, r, rules)
  BY <1>1, <1>2
<1>5. ASSUME \A k \in DOMAIN r : r[k].at \in VaultPlaces, Cardinality(Hits(r, rules)) < MaxPasses
      PROVE  Marked(m, r, rules)
  <2>1. Marked(q, r, rules)
    BY <1>1, <1>5, HitsFacts DEF Hits
  <2>2. q # GivenUp
    <3> SUFFICES ASSUME q = GivenUp PROVE FALSE
      OBVIOUS
    <3>1. 1 \in DOMAIN r /\ q[1] = Field("/", "marker")
      BY <2>1 DEF Marked, GivenUp
    <3>2. q[1].at = r[1].at
      BY <2>1, <3>1 DEF Marked, Field
    <3>3. q[1].at = "/"
      BY <3>1 DEF Field
    <3> QED
      BY <1>5, <3>1, <3>2, <3>3 DEF VaultPlaces
  <2> QED
    BY <1>2, <2>1, <2>2
<1> QED
  BY <1>3, <1>4, <1>5 DEF q

(* A key that holds credentials is a marker before anything is looked for.   *)
LEMMA NodesFacts ==
  ASSUME NEW value \in Seq(VaultType)
  PROVE  LET nodes == [i \in DOMAIN value |-> ScrubNode(value[i])] IN
         /\ nodes \in Seq(FieldType) /\ DOMAIN nodes = DOMAIN value
         /\ \A i \in DOMAIN value :
              /\ nodes[i].at \in VaultPlaces
              /\ nodes[i] = value[i] \/ (value[i].at \in CredentialKeys /\ nodes[i] = Field(value[i].at, "marker"))
<1> DEFINE nodes == [i \in DOMAIN value |-> ScrubNode(value[i])]
<1>1. value \in Seq(FieldType)
  BY VaultIsField
<1>2. ASSUME NEW i \in DOMAIN value
      PROVE  /\ ScrubNode(value[i]) \in FieldType /\ ScrubNode(value[i]).at \in VaultPlaces
             /\ ScrubNode(value[i]) = value[i]
                \/ (value[i].at \in CredentialKeys /\ ScrubNode(value[i]) = Field(value[i].at, "marker"))
  <2>1. value[i] \in FieldType /\ value[i].at \in VaultPlaces /\ value[i].at \in Text
    <3>1. value[i] \in FieldType /\ value[i] \in VaultType
      BY <1>1
    <3> QED
      BY <3>1 DEF VaultType, FieldType
  <2>2. Field(value[i].at, "marker") \in FieldType /\ Field(value[i].at, "marker").at = value[i].at
    BY <2>1, MarkerField DEF Field
  <2> QED
    BY <2>1, <2>2 DEF ScrubNode
<1>3. nodes \in Seq(FieldType)
  BY <1>1, <1>2
<1> QED
  BY <1>2, <1>3

(* A fixture is clean, and has lost nothing but what had to go               *)
(* (_scrub_vault_value).                                                     *)
LEMMA FixtureFacts ==
  ASSUME LedgerAssumption, NEW kind, NEW value \in Seq(VaultType)
  PROVE  /\ Fixture(kind, value).kind = kind
         /\ Hits(Fixture(kind, value).kept, Registered \union Unexcused) = {}
         /\ KeepsRest(Fixture(kind, value).raw, Fixture(kind, value).kept)
<1> DEFINE nodes == [i \in DOMAIN value |-> ScrubNode(value[i])]
           m == Degraded(Masked(nodes, Registered, VaultPlaces))
           q == Degraded(Masked(m, Unexcused, VaultPlaces))
           kept == IF Unsafe(value) THEN Degraded(GivenUp) ELSE q
<1>1. "none" \notin Registered /\ "none" \notin Unexcused /\ "none" \notin Registered \union Unexcused
  BY DEF Registered, Unexcused, Detected
<1>2. /\ nodes \in Seq(FieldType) /\ DOMAIN nodes = DOMAIN value
      /\ \A i \in DOMAIN value :
           /\ nodes[i].at \in VaultPlaces
           /\ nodes[i] = value[i] \/ (value[i].at \in CredentialKeys /\ nodes[i] = Field(value[i].at, "marker"))
  BY NodesFacts
<1>3. Fixture(kind, value).kind = kind /\ Fixture(kind, value).raw = value /\ Fixture(kind, value).kept = kept
  BY DEF Fixture, ScrubVaultValue
<1> HIDE DEF nodes
<1>4. /\ m \in Seq(FieldType) /\ Hits(m, Registered) = {}
      /\ m = Degraded(GivenUp) \/ Marked(m, nodes, Registered)
      /\ (\A k \in DOMAIN nodes : nodes[k].at \in VaultPlaces) /\ Cardinality(Hits(nodes, Registered)) < MaxPasses =>
           Marked(m, nodes, Registered)
  BY <1>1, <1>2, TurnFacts
<1> HIDE DEF m
<1>5. /\ q \in Seq(FieldType) /\ Hits(q, Unexcused) = {}
      /\ q = Degraded(GivenUp) \/ Marked(q, m, Unexcused)
      /\ (\A k \in DOMAIN m : m[k].at \in VaultPlaces) /\ Cardinality(Hits(m, Unexcused)) < MaxPasses =>
           Marked(q, m, Unexcused)
  BY <1>1, <1>4, TurnFacts
<1> HIDE DEF q
<1>6. Hits(kept, Registered \union Unexcused) = {}
  <2>1. CASE kept = Degraded(GivenUp)
    BY <1>1, <2>1, DegradedFacts
  <2>2. CASE kept # Degraded(GivenUp)
    <3>1. kept = q /\ Marked(q, m, Unexcused)
      BY <1>5, <2>2
    <3>2. Hits(q, Registered) \subseteq Hits(m, Registered)
      BY <1>1, <3>1, MarkedHits
    <3> QED
      BY <1>4, <1>5, <3>1, <3>2 DEF Hits
  <2> QED
    BY <2>1, <2>2
<1>7. KeepsRest(value, kept)
  <2> SUFFICES ASSUME Cardinality(Hits(value, Registered)) < MaxPasses,
                      Cardinality(Hits(value, Unexcused)) < MaxPasses, ~Unsafe(value)
               PROVE  /\ DOMAIN kept = DOMAIN value
                      /\ \A k \in DOMAIN value :
                           \/ kept[k] = value[k]
                           \/ kept[k].has = "marker" /\ (Rule(value[k]) # "none" \/ value[k].at \in CredentialKeys)
    BY DEF KeepsRest, Unsafe
  <2>1. value \in Seq(FieldType)
    BY VaultIsField
  <2>2. MaxPasses \in Nat
    BY DEF LedgerAssumption
  <2>3. Hits(nodes, Registered) \subseteq Hits(value, Registered) /\ Hits(nodes, Unexcused) \subseteq Hits(value, Unexcused)
    BY <1>1, <1>2, MarkerRule DEF Hits
  <2>4. Cardinality(Hits(nodes, Registered)) < MaxPasses
    <3>1. /\ IsFiniteSet(Hits(value, Registered)) /\ Cardinality(Hits(value, Registered)) \in Nat
          /\ Cardinality(Hits(nodes, Registered)) \in Nat
      BY <1>2, <2>1, HitsFacts
    <3>2. Cardinality(Hits(nodes, Registered)) <= Cardinality(Hits(value, Registered))
      BY <2>3, <3>1, FS_Subset
    <3> QED
      BY <2>2, <3>1, <3>2
  <2>5. Marked(m, nodes, Registered)
    BY <1>2, <1>4, <2>4
  <2>6. Hits(m, Unexcused) \subseteq Hits(value, Unexcused)
    BY <1>1, <2>3, <2>5, MarkedHits
  <2>7. Cardinality(Hits(m, Unexcused)) < MaxPasses
    <3>1. /\ IsFiniteSet(Hits(value, Unexcused)) /\ Cardinality(Hits(value, Unexcused)) \in Nat
          /\ Cardinality(Hits(m, Unexcused)) \in Nat
      BY <1>4, <2>1, HitsFacts
    <3>2. Cardinality(Hits(m, Unexcused)) <= Cardinality(Hits(value, Unexcused))
      BY <2>6, <3>1, FS_Subset
    <3> QED
      BY <2>2, <3>1, <3>2
  <2>8. \A k \in DOMAIN m : m[k].at \in VaultPlaces
    BY <1>2, <2>5 DEF Marked, Field
  <2>9. kept = q /\ Marked(q, m, Unexcused)
    BY <1>5, <2>7, <2>8
  <2>10. DOMAIN q = DOMAIN value
    BY <1>2, <2>5, <2>9 DEF Marked
  <2>11. ASSUME NEW k \in DOMAIN value
         PROVE  \/ q[k] = value[k]
                \/ q[k].has = "marker" /\ (Rule(value[k]) # "none" \/ value[k].at \in CredentialKeys)
    <3>1. q[k] = m[k] \/ (Rule(m[k]) \in Unexcused /\ q[k] = Field(m[k].at, "marker"))
      BY <1>2, <2>5, <2>9 DEF Marked
    <3>2. m[k] = nodes[k] \/ (Rule(nodes[k]) \in Registered /\ m[k] = Field(nodes[k].at, "marker"))
      BY <1>2, <2>5 DEF Marked
    <3>3. nodes[k] = value[k] \/ (value[k].at \in CredentialKeys /\ nodes[k] = Field(value[k].at, "marker"))
      BY <1>2
    <3>4. \A place : Field(place, "marker").has = "marker"
      BY DEF Field
    <3> QED
      BY <1>1, <3>1, <3>2, <3>3, <3>4, MarkerRule
  <2> HIDE DEF kept
  <2> QED
    BY <2>9, <2>10, <2>11
<1> QED
  BY <1>3, <1>6, <1>7

(* The vault stays clean, and grows in a run that is to be replayed.         *)
LEMMA KeptFacts ==
  ASSUME LedgerAssumption, CleanVault(vault), NEW kind, NEW value \in Seq(VaultType)
  PROVE  /\ CleanVault(Kept(kind, value))
         /\ setup.replay => CountOf(Kept(kind, value), "stage_snapshot") =
              IF kind = "stage_snapshot" THEN CountOf(vault, "stage_snapshot") + 1
              ELSE CountOf(vault, "stage_snapshot")
<1>1. CASE ~setup.replay
  BY <1>1 DEF Kept
<1>2. CASE setup.replay
  <2> DEFINE x == Fixture(kind, value)
             w == Append(vault, x)
  <2>1. /\ x.kind = kind /\ Hits(x.kept, Registered \union Unexcused) = {} /\ KeepsRest(x.raw, x.kept)
    BY FixtureFacts
  <2>2. Kept(kind, value) = w
    BY <1>2 DEF Kept
  <2> HIDE DEF x
  <2>3. PICK S : vault \in Seq(S)
    BY DEF CleanVault
  <2>4. /\ w \in Seq(S \union {x}) /\ Len(vault) \in Nat
        /\ DOMAIN w = 1 .. Len(vault) + 1 /\ DOMAIN vault = 1 .. Len(vault)
        /\ w[Len(vault) + 1] = x
        /\ \A i \in 1 .. Len(vault) : w[i] = vault[i]
    <3>1. w \in Seq(S \union {x}) /\ Len(w) = Len(vault) + 1
      BY <2>3, AppendFacts
    <3> QED
      BY <2>3, <3>1, AppendFacts
  <2>5. CountOf(w, "stage_snapshot") =
          IF kind = "stage_snapshot" THEN CountOf(vault, "stage_snapshot") + 1 ELSE CountOf(vault, "stage_snapshot")
    BY <2>1, <2>3, CountMore
  <2> HIDE DEF w
  <2>6. CleanVault(w)
    <3>1. ASSUME NEW i \in DOMAIN w
          PROVE  /\ Hits(w[i].kept, Registered \union Unexcused) = {}
                 /\ KeepsRest(w[i].raw, w[i].kept)
      <4>1. i = Len(vault) + 1 \/ i \in DOMAIN vault
        BY <2>4
      <4> QED
        BY <2>1, <2>4, <4>1 DEF CleanVault
    <3> QED
      BY <2>4, <3>1 DEF CleanVault
  <2> QED
    BY <2>2, <2>5, <2>6
<1> QED
  BY <1>1, <1>2

-----------------------------------------------------------------------------
(* What is asked into the ledger may be published, but for what the scanner  *)
(* has to find.                                                              *)

NameField(place, name) == place \notin Maskable \union {"/annotation/payload"} /\ name # "huge"

(* A name may be published where nothing is masked.                          *)
LEMMA NameFacts ==
  ASSUME NEW place \in Text, NEW name \in Text, NameField(place, name), NEW open
  PROVE  Field(place, name) \in FieldType /\ PublicField(Field(place, name), open)
<1>1. Field(place, name).at = place /\ Field(place, name).has = name
  BY DEF Field
<1> QED
  BY <1>1, FieldFacts DEF PublicField, NameField

(* A marker may be published everywhere.                                     *)
LEMMA MarkerPublic ==
  ASSUME NEW place \in Text, NEW open
  PROVE  Field(place, "marker") \in FieldType /\ PublicField(Field(place, "marker"), open)
<1>1. Field(place, "marker").has = "marker"
  BY DEF Field
<1> QED
  BY <1>1, MarkerField DEF PublicField

(* Records of one field, of two, and of more.                                *)
LEMMA OneField ==
  ASSUME NEW open, NEW f \in FieldType, PublicField(f, open)
  PROVE  PublicFields(<<f>>, open)
BY DEF PublicFields

LEMMA TwoFields ==
  ASSUME NEW open, NEW f \in FieldType, PublicField(f, open), NEW g \in FieldType, PublicField(g, open)
  PROVE  PublicFields(<<f, g>>, open)
BY DEF PublicFields

LEMMA MoreFields ==
  ASSUME NEW open, NEW s, NEW t, PublicFields(s, open), PublicFields(t, open)
  PROVE  PublicFields(s \o t, open)
<1>1. s \in Seq(FieldType) /\ t \in Seq(FieldType)
  BY DEF PublicFields
<1>2. s \o t \in Seq(FieldType) /\ Len(s \o t) = Len(s) + Len(t) /\ Len(s) \in Nat /\ Len(t) \in Nat
  BY <1>1
<1>3. ASSUME NEW k \in 1 .. Len(s) + Len(t) PROVE PublicField((s \o t)[k], open)
  <2>1. CASE k <= Len(s)
    <3>1. k \in 1 .. Len(s) /\ (s \o t)[k] = s[k]
      BY <1>1, <1>2, <2>1
    <3> QED
      BY <1>1, <3>1 DEF PublicFields
  <2>2. CASE k > Len(s)
    <3>1. k - Len(s) \in 1 .. Len(t) /\ (s \o t)[k] = t[k - Len(s)]
      BY <1>1, <1>2, <2>2
    <3> QED
      BY <1>1, <3>1 DEF PublicFields
  <2> QED
    BY <1>2, <2>1, <2>2
<1> QED
  BY <1>2, <1>3 DEF PublicFields

(* Names are texts, and no numbers.                                          *)
LEMMA NamesAreTexts == \A n \in Names : n \in Text /\ n # "huge"
BY DEF Names, Text, Scalars

OutputType == [at : STRING, has : STRING, name : Names]

(* One field of a stage output: a number that is approved, or a marker.      *)
LEMMA ProjectFieldFacts ==
  ASSUME NEW open, NEW o \in OutputType
  PROVE  PublicFields(ProjectField(o), open)
<1>1. o.at \in Text /\ o.has \in Text /\ o.name \in Text /\ o.name # "huge"
  BY NamesAreTexts DEF OutputType, Text
<1>2. CASE o.at \in Approved /\ o.has \in Scalars
  <2>1. Field(o.at, o.has) \in FieldType
    BY <1>1, FieldFacts
  <2>2. PublicField(Field(o.at, o.has), open)
    BY <1>2 DEF PublicField, Field
  <2> QED
    BY <1>2, <2>1, <2>2, OneField DEF ProjectField
<1>3. CASE ~(o.at \in Approved /\ o.has \in Scalars)
  <2>1. Field(o.at, "marker") \in FieldType /\ PublicField(Field(o.at, "marker"), open)
    BY <1>1, MarkerPublic
  <2>2. "/redacted_fields" \in Text /\ NameField("/redacted_fields", o.name)
    BY <1>1 DEF Text, NameField, Maskable
  <2>3. Field("/redacted_fields", o.name) \in FieldType /\ PublicField(Field("/redacted_fields", o.name), open)
    BY <1>1, <2>2, NameFacts
  <2> QED
    BY <1>3, <2>1, <2>3, TwoFields DEF ProjectField
<1> QED
  BY <1>2, <1>3

Projects(f, out, n) == f = [i \in 0 .. n |-> IF i = 0 THEN <<>> ELSE f[i - 1] \o ProjectField(out[i])]

(* The projection of the first n fields of an output.                        *)
LEMMA ProjectsExist == \A out : \A n \in Nat : \E f : Projects(f, out, n)
<1> SUFFICES ASSUME NEW out, NEW n \in Nat PROVE \E f : Projects(f, out, n)
  OBVIOUS
<1> DEFINE S == {m \in Nat : \E f : Projects(f, out, m)}
<1>1. 0 \in S
  <2> DEFINE f == [i \in 0 .. 0 |-> <<>>]
  <2>1. f = [i \in 0 .. 0 |-> IF i = 0 THEN <<>> ELSE f[i - 1] \o ProjectField(out[i])]
    OBVIOUS
  <2> QED
    BY <2>1 DEF Projects
<1>2. ASSUME NEW m \in Nat, m \in S PROVE m + 1 \in S
  <2>1. PICK f : Projects(f, out, m)
    BY <1>2
  <2> DEFINE g == [i \in 0 .. m + 1 |-> IF i = m + 1 THEN f[m] \o ProjectField(out[m + 1]) ELSE f[i]]
  <2>2. ASSUME NEW i \in 0 .. m + 1
        PROVE  g[i] = IF i = 0 THEN <<>> ELSE g[i - 1] \o ProjectField(out[i])
    <3>1. CASE i = m + 1
      <4>1. i # 0 /\ i - 1 = m /\ m \in 0 .. m + 1 /\ m + 1 \in 0 .. m + 1 /\ m # m + 1
        BY <3>1
      <4>2. g[m] = f[m] /\ g[m + 1] = f[m] \o ProjectField(out[m + 1])
        BY <4>1
      <4> HIDE DEF g
      <4> QED
        BY <3>1, <4>1, <4>2
    <3>2. CASE i \in 0 .. m
      <4>1. f[i] = IF i = 0 THEN <<>> ELSE f[i - 1] \o ProjectField(out[i])
        BY <2>1, <3>2 DEF Projects
      <4>2. g[i] = f[i] /\ (i # 0 => g[i - 1] = f[i - 1])
        BY <3>2
      <4> HIDE DEF g
      <4> QED
        BY <4>1, <4>2
    <3> QED
      BY <3>1, <3>2
  <2>3. g = [i \in 0 .. m + 1 |-> g[i]]
    OBVIOUS
  <2> HIDE DEF g
  <2>4. Projects(g, out, m + 1)
    BY <2>2, <2>3 DEF Projects
  <2> QED
    BY <2>4
<1> HIDE DEF S
<1>3. n \in S
  BY <1>1, <1>2, NumberInduction
<1> QED
  BY <1>3 DEF S

(* A stage output, projected (_project_stage_output).                        *)
LEMMA OutputFacts ==
  ASSUME NEW open, NEW out \in Seq(OutputType)
  PROVE  PublicFields(ProjectStageOutput(out), open)
<1> DEFINE f == CHOOSE f : f = [i \in 0 .. Len(out) |-> IF i = 0 THEN <<>> ELSE f[i - 1] \o ProjectField(out[i])]
<1>1. f = [i \in 0 .. Len(out) |-> IF i = 0 THEN <<>> ELSE f[i - 1] \o ProjectField(out[i])]
  <2>1. Len(out) \in Nat
    OBVIOUS
  <2> QED
    BY <2>1, ProjectsExist DEF Projects
<1>2. ProjectStageOutput(out) = f[Len(out)]
  BY DEF ProjectStageOutput
<1> HIDE DEF f
<1> DEFINE S == {n \in Nat : n <= Len(out) => PublicFields(f[n], open)}
<1>3. 0 \in S
  <2>1. f[0] = <<>>
    BY <1>1
  <2>2. PublicFields(<<>>, open)
    BY DEF PublicFields
  <2> QED
    BY <2>1, <2>2
<1>4. ASSUME NEW n \in Nat, n \in S PROVE n + 1 \in S
  <2> SUFFICES ASSUME n + 1 <= Len(out) PROVE PublicFields(f[n + 1], open)
    OBVIOUS
  <2>1. PublicFields(f[n], open)
    BY <1>4
  <2>2. n + 1 \in 0 .. Len(out) /\ n + 1 # 0 /\ (n + 1) - 1 = n /\ n + 1 \in 1 .. Len(out)
    OBVIOUS
  <2>3. f[n + 1] = f[n] \o ProjectField(out[n + 1])
    BY <1>1, <2>2
  <2>4. PublicFields(ProjectField(out[n + 1]), open)
    BY <2>2, ProjectFieldFacts
  <2> QED
    BY <2>1, <2>3, <2>4, MoreFields
<1>5. Len(out) \in S
  <2> HIDE DEF S
  <2> QED
    BY <1>3, <1>4, NumberInduction
<1> QED
  BY <1>2, <1>5

(* The arguments of a file write (_project_tool_args).                       *)
LEMMA ArgsFacts ==
  ASSUME NEW open, NEW use \in [tool : Names, path : Names]
  PROVE  PublicFields(ProjectToolArgs(use), open)
<1> DEFINE f == Field("/tool_name", use.tool)
           g == Field("/args/path", use.path)
           h == Field("/args/content", "marker")
<1>1. /\ use.tool \in Text /\ use.path \in Text
      /\ NameField("/tool_name", use.tool) /\ NameField("/args/path", use.path)
  BY NamesAreTexts DEF NameField, Maskable
<1>2. "/tool_name" \in Text /\ "/args/path" \in Text /\ "/args/content" \in Text
  BY DEF Text
<1>3. f \in FieldType /\ PublicField(f, open) /\ g \in FieldType /\ PublicField(g, open)
  BY <1>1, <1>2, NameFacts
<1>4. h \in FieldType /\ PublicField(h, open)
  BY <1>2, MarkerPublic
<1>5. ProjectToolArgs(use) = <<f, g, h>>
  BY DEF ProjectToolArgs
<1> HIDE DEF f, g, h
<1> QED
  BY <1>3, <1>4, <1>5 DEF PublicFields

(* The fields of an event of a stage.                                        *)
LEMMA StageFields ==
  ASSUME NEW open, NEW stage \in StageTexts, NEW f, PublicFields(f, open)
  PROVE  /\ PublicFields(<<Field("/stage_id", stage)>>, open)
         /\ PublicFields(<<Field("/stage_id", stage)>> \o f, open)
<1>1. stage \in Text /\ NameField("/stage_id", stage) /\ "/stage_id" \in Text
  BY NamesAreTexts, InputAssumption DEF NameField, Maskable, Text
<1>2. PublicFields(<<Field("/stage_id", stage)>>, open)
  BY <1>1, NameFacts, OneField
<1> QED
  BY <1>2, MoreFields

(* What an annotation that is not refused would add.                         *)
LEMMA NotedFields ==
  ASSUME NEW stage \in StageTexts, NEW spec \in Specs, ~Refused(spec)
  PROVE  PublicFields(<<Field("/stage_id", stage), Field("/annotation/namespace", spec.name)>> \o Payload(spec), Open)
<1> DEFINE f == Field("/stage_id", stage)
           g == Field("/annotation/namespace", spec.name)
<1>1. stage \in Text /\ NameField("/stage_id", stage) /\ "/stage_id" \in Text
  BY NamesAreTexts, InputAssumption DEF NameField, Maskable, Text
<1>2. f \in FieldType /\ PublicField(f, Open)
  BY <1>1, NameFacts
<1>3. spec.name \in Text /\ "/annotation/namespace" \in Text /\ NameField("/annotation/namespace", spec.name)
  BY DEF Specs, NameField, Maskable, Text
<1>4. g \in FieldType /\ PublicField(g, Open)
  BY <1>3, NameFacts
<1> HIDE DEF f, g
<1>5. PublicFields(<<f, g>>, Open)
  BY <1>2, <1>4, TwoFields
<1>6. PublicFields(Payload(spec), Open)
  <2>1. CASE spec.name # "trial"
    <3>1. "/annotation/payload" \in Text
      BY DEF Text
    <3>2. PublicFields(<<Field("/annotation/payload", "marker")>>, Open)
      BY <3>1, MarkerPublic, OneField
    <3> QED
      BY <2>1, <3>2 DEF Payload
  <2>2. CASE spec.name = "trial" /\ spec.payload \in {"ids", "leak"}
    <3>1. "/annotation/payload/mechanism_id" \in Text /\ "plain" \in Text /\ "secret" \in Text
      BY DEF Text
    <3>2. "/annotation/payload/mechanism_id" \in Open
      BY <2>2 DEF Refused, Open
    <3>3. ASSUME NEW held \in {"plain", "secret"}
          PROVE  PublicFields(<<Field("/annotation/payload/mechanism_id", held)>>, Open)
      <4>1. Field("/annotation/payload/mechanism_id", held) \in FieldType
        BY <3>1, FieldFacts
      <4>2. PublicField(Field("/annotation/payload/mechanism_id", held), Open)
        BY <3>2 DEF PublicField, Field
      <4> QED
        BY <4>1, <4>2, OneField
    <3> QED
      BY <2>2, <3>3 DEF Payload
  <2>3. CASE spec.name = "trial" /\ spec.payload \notin {"ids", "leak"}
    <3>1. PublicFields(<<>>, Open)
      BY DEF PublicFields
    <3> QED
      BY <2>3, <3>1 DEF Payload
  <2> QED
    BY <2>1, <2>2, <2>3
<1> QED
  BY <1>5, <1>6, MoreFields DEF f, g

(* The same output, as the vault sees it.                                    *)
LEMMA VaultFieldsFacts ==
  ASSUME NEW out \in Seq(OutputType)
  PROVE  VaultFields(out) \in Seq(VaultType)
<1> DEFINE at(i) == IF out[i].at = "/output/stdout" THEN "/v/stdout" ELSE "/v/out"
<1>1. ASSUME NEW i \in DOMAIN out PROVE Field(at(i), out[i].has) \in VaultType
  <2>1. out[i] \in OutputType
    OBVIOUS
  <2>2. at(i) \in VaultPlaces /\ out[i].has \in STRING
    BY <2>1 DEF VaultPlaces, OutputType
  <2> HIDE DEF at
  <2> QED
    BY <2>2 DEF Field, VaultType
<1>2. VaultFields(out) = [i \in DOMAIN out |-> Field(at(i), out[i].has)]
  BY DEF VaultFields
<1> HIDE DEF at
<1> QED
  BY <1>1, <1>2

-----------------------------------------------------------------------------
(* The ledger and the vault are clean: the inductive invariant is MaskInv.   *)

LEMMA InitMaskInv == ASSUME LedgerInit PROVE MaskInv
<1>1. ledger = <<>> /\ vault = <<>> /\ outcome = "open"
  BY DEF LedgerInit
<1>2. setup \in SetupType
  BY DEF LedgerInit, SetupType
<1>3. <<>> \in Seq({}) /\ DOMAIN <<>> = {}
  OBVIOUS
<1>4. CleanLedger(<<>>, Open) /\ CleanVault(<<>>)
  BY <1>3 DEF CleanLedger, CleanVault
<1>5. CountOf(<<>>, "stage_snapshot") = CountOf(<<>>, "stage_completed")
  BY <1>3 DEF CountOf
<1> QED
  BY <1>1, <1>2, <1>4, <1>5 DEF MaskInv, BlockedHasCause

(* An event that is observed.                                                *)
LEMMA ObservedClean ==
  ASSUME LedgerAssumption, MaskInv, NEW k, NEW v, NEW n, NEW f, PublicFields(f, Open)
  PROVE  LET rec == [kind |-> k, visit |-> v, number |-> n, anchor |-> 0, hooked |-> FALSE, fields |-> f] IN
         /\ CleanLedger(Observed(rec), Open)
         /\ CountOf(Observed(rec), "stage_completed") =
              IF k = "stage_completed" /\ Admits(ledger, rec) THEN CountOf(ledger, "stage_completed") + 1
              ELSE CountOf(ledger, "stage_completed")
<1> DEFINE h == FALSE
           rec == [kind |-> k, visit |-> v, number |-> n, anchor |-> 0, hooked |-> h, fields |-> f]
<1>1. CASE ~Admits(ledger, rec)
  BY <1>1 DEF Observed, MaskInv
<1>2. CASE Admits(ledger, rec)
  <2>1. Redacted(f) # GivenUp
    BY <1>2 DEF Admits
  <2> HIDE DEF h
  <2>2. /\ CleanLedger(Admit(ledger, rec), Open)
        /\ CountOf(Admit(ledger, rec), "stage_completed") =
              IF k = "stage_completed" THEN CountOf(ledger, "stage_completed") + 1
              ELSE CountOf(ledger, "stage_completed")
    BY <2>1, AdmitClean DEF MaskInv
  <2> HIDE DEF rec
  <2>3. /\ CleanLedger(Observed(rec), Open)
        /\ CountOf(Observed(rec), "stage_completed") =
              IF k = "stage_completed" /\ Admits(ledger, rec) THEN CountOf(ledger, "stage_completed") + 1
              ELSE CountOf(ledger, "stage_completed")
    BY <1>2, <2>2 DEF Observed
  <2> QED
    BY <2>3 DEF rec, h
<1> QED
  BY <1>1, <1>2

(* An event of the current visit.                                            *)
LEMMA RecordClean ==
  ASSUME LedgerAssumption, LedgerIInv, MaskInv, visit > 0, NEW k, NEW f, PublicFields(f, Open)
  PROVE  /\ CleanLedger(Observed(Record(k, f)), Open)
         /\ CountOf(Observed(Record(k, f)), "stage_completed") =
              IF k = "stage_completed" /\ Admits(ledger, Record(k, f))
              THEN CountOf(ledger, "stage_completed") + 1
              ELSE CountOf(ledger, "stage_completed")
<1> DEFINE g == <<Field("/stage_id", stages[visit])>> \o f
<1>1. stages[visit] \in StageTexts
  BY DEF LedgerIInv, visit
<1>2. PublicFields(g, Open)
  BY <1>1, StageFields
<1>3. Record(k, f) = [kind |-> k, visit |-> visit, number |-> seq + 1, anchor |-> 0, hooked |-> FALSE, fields |-> g]
  BY DEF Record
<1> HIDE DEF g
<1> QED
  BY <1>2, <1>3, ObservedClean

(* An annotation, whoever asked for it.                                      *)
LEMMA NoteClean ==
  ASSUME LedgerAssumption, LedgerIInv, MaskInv,
         NEW l, CleanLedger(l, Open), NEW spec \in Specs, NEW v \in 1 .. visit, NEW anchor, NEW hooked,
         Persists(l, spec, v, anchor)
  PROVE  /\ CleanLedger(Admit(l, Annotation(spec, v, anchor, hooked)), Open)
         /\ CountOf(Admit(l, Annotation(spec, v, anchor, hooked)), "stage_completed") = CountOf(l, "stage_completed")
<1> DEFINE f == <<Field("/stage_id", stages[v]), Field("/annotation/namespace", spec.name)>> \o Payload(spec)
<1>1. stages[v] \in StageTexts
  BY DEF LedgerIInv, visit
<1>2. ~Refused(spec) /\ Admits(l, Annotation(spec, v, anchor, FALSE))
  BY DEF Persists
<1>3. PublicFields(f, Open)
  BY <1>1, <1>2, NotedFields
<1>4. \A h : Annotation(spec, v, anchor, h)
           = [kind |-> "annotation", visit |-> v, number |-> 0, anchor |-> anchor, hooked |-> h, fields |-> f]
  BY DEF Annotation
<1> HIDE DEF f
<1>5. Redacted(f) # GivenUp
  <2> DEFINE no == FALSE
  <2>1. Admits(l, Annotation(spec, v, anchor, no))
    BY <1>2
  <2> HIDE DEF no
  <2>2. Annotation(spec, v, anchor, no).fields = f
    BY <1>4
  <2> QED
    BY <2>1, <2>2 DEF Admits
<1>6. /\ CleanLedger(Admit(l, [kind |-> "annotation", visit |-> v, number |-> 0, anchor |-> anchor, hooked |-> hooked, fields |-> f]), Open)
      /\ CountOf(Admit(l, [kind |-> "annotation", visit |-> v, number |-> 0, anchor |-> anchor, hooked |-> hooked, fields |-> f]), "stage_completed")
         = CountOf(l, "stage_completed")
  BY <1>3, <1>5, AdmitClean
<1> QED
  BY <1>4, <1>6

(* A run not finished in which the ledger and the vault stay clean, and the         *)
(* snapshots those of the completions.                                       *)
LEMMA OpenKeepsMask ==
  ASSUME MaskInv, outcome' \in {"open", "failing"}, UNCHANGED setup,
         CleanLedger(ledger', Open), CleanVault(vault'),
         setup.replay => CountOf(vault', "stage_snapshot") = CountOf(ledger', "stage_completed")
  PROVE  MaskInv'
<1>1. Open' = Open
  BY DEF Open
<1>2. CleanLedger(ledger, Open)'
  BY <1>1 DEF CleanLedger, CleanRecord, PublicFields, PublicField, Hits
<1>3. CleanVault(vault)' /\ (setup'.replay => (CountOf(vault, "stage_snapshot") = CountOf(ledger, "stage_completed"))')
  BY DEF CleanVault, KeepsRest, Hits, CountOf
<1>4. BlockedHasCause'
  BY DEF BlockedHasCause
<1>5. setup' \in SetupType
  BY DEF MaskInv
<1> QED
  BY <1>2, <1>3, <1>4, <1>5 DEF MaskInv

(* An event that is no completion, and what it brings to the vault.          *)
LEMMA EventKeepsMask ==
  ASSUME LedgerAssumption, LedgerIInv, MaskInv, visit > 0, outcome = "open",
         UNCHANGED <<outcome, setup>>, NEW k, k # "stage_completed", NEW f, PublicFields(f, Open),
         ledger' = Observed(Record(k, f)),
         CleanVault(vault'), setup.replay => CountOf(vault', "stage_snapshot") = CountOf(vault, "stage_snapshot")
  PROVE  MaskInv'
<1>1. CleanLedger(ledger', Open) /\ CountOf(ledger', "stage_completed") = CountOf(ledger, "stage_completed")
  BY RecordClean
<1>2. setup.replay => CountOf(vault', "stage_snapshot") = CountOf(ledger', "stage_completed")
  BY <1>1 DEF MaskInv
<1> QED
  BY <1>1, <1>2, OpenKeepsMask

(* A record of no fields of its own.                                         *)
LEMMA NoFields == PublicFields(<<>>, Open)
BY DEF PublicFields

(* A completion adds its snapshot, and perhaps an annotation.                *)
LEMMA CompletionKeepsMask ==
  ASSUME LedgerAssumption, LedgerIInv, MaskInv,
         NEW out \in Outputs, NEW answer \in Answers, StageCompletes(out, answer)
  PROVE  MaskInv'
<1> DEFINE rec == Record("stage_completed", ProjectStageOutput(out))
           l == Observed(rec)
<1>1. out \in Seq(OutputType)
  BY InputAssumption DEF OutputType
<1>2. /\ visit > 0 /\ outcome = "open" /\ UNCHANGED <<outcome, setup>> /\ vault' = Snapshot(rec, out)
      /\ IF Admits(ledger, rec) THEN Hook(l, answer) ELSE UNCHANGED ledger
  BY DEF StageCompletes, Event
<1>3. /\ CleanLedger(l, Open)
      /\ CountOf(l, "stage_completed") = IF Admits(ledger, rec) THEN CountOf(ledger, "stage_completed") + 1
                                         ELSE CountOf(ledger, "stage_completed")
  <2>1. PublicFields(ProjectStageOutput(out), Open)
    BY <1>1, OutputFacts
  <2> QED
    BY <1>2, <2>1, RecordClean
<1>4. VaultFields(out) \in Seq(VaultType)
  BY <1>1, VaultFieldsFacts
<1>5. CASE ~Admits(ledger, rec)
  <2>1. vault' = vault /\ ledger' = ledger
    BY <1>2, <1>5 DEF Snapshot
  <2> QED
    BY <1>2, <2>1, OpenKeepsMask DEF MaskInv
<1>6. CASE Admits(ledger, rec)
  <2>1. vault' = Kept("stage_snapshot", VaultFields(out)) /\ Hook(l, answer)
    BY <1>2, <1>6 DEF Snapshot
  <2>2. CleanVault(vault') /\ (setup.replay => CountOf(vault', "stage_snapshot") = CountOf(vault, "stage_snapshot") + 1)
    BY <1>4, <2>1, KeptFacts DEF MaskInv
  <2>3. CountOf(l, "stage_completed") = CountOf(ledger, "stage_completed") + 1
    BY <1>3, <1>6
  <2> HIDE DEF l
  <2>4. CleanLedger(ledger', Open) /\ CountOf(ledger', "stage_completed") = CountOf(l, "stage_completed")
    <3>1. CASE answer \in Specs /\ Persists(l, answer, visit, HookAnchor)
      <4> DEFINE by == TRUE
      <4>1. ledger' = Admit(l, Annotation(answer, visit, HookAnchor, by))
        BY <2>1, <3>1 DEF Hook, Note
      <4>2. visit \in 1 .. visit
        BY <1>2 DEF LedgerIInv, visit
      <4> HIDE DEF by
      <4>3. /\ CleanLedger(Admit(l, Annotation(answer, visit, HookAnchor, by)), Open)
            /\ CountOf(Admit(l, Annotation(answer, visit, HookAnchor, by)), "stage_completed")
               = CountOf(l, "stage_completed")
        BY <1>3, <3>1, <4>2, NoteClean
      <4> QED
        BY <4>1, <4>3
    <3>2. CASE ~(answer \in Specs /\ Persists(l, answer, visit, HookAnchor))
      <4>1. ledger' = l
        BY <2>1, <3>2 DEF Hook, Note
      <4> QED
        BY <1>3, <4>1
    <3> QED
      BY <3>1, <3>2
  <2>5. setup.replay => CountOf(vault', "stage_snapshot") = CountOf(ledger', "stage_completed")
    BY <2>2, <2>3, <2>4 DEF MaskInv
  <2> QED
    BY <1>2, <2>2, <2>4, <2>5, OpenKeepsMask
<1> QED
  BY <1>5, <1>6

(* The last look at everything finds only what was found at no time before.  *)
LEMMA FinishKeepsMask ==
  ASSUME MaskInv, NEW ir \in {"plain", "home"}, NEW label \in {"plain", "credential"},
         NEW fits \in BOOLEAN, FinishRun(ir, label, fits)
  PROVE  MaskInv'
<1>1. /\ setup' = [setup EXCEPT !.ir = ir, !.label = label, !.fits = fits] /\ ledger' = ledger /\ vault' = vault
      /\ outcome' = "blocked" => VaultProblems(ir) \/ LedgerProblems(label)
  BY DEF FinishRun
<1>2. /\ setup' \in SetupType
      /\ setup'.replay = setup.replay /\ setup'.ir = ir /\ setup'.label = label
  BY <1>1 DEF MaskInv, SetupType
<1>3. Open' = Open
  BY <1>2 DEF Open
<1>4. CleanLedger(ledger', Open') /\ CleanVault(vault')
  BY <1>1, <1>3 DEF MaskInv
<1>5. setup'.replay => (CountOf(vault, "stage_snapshot") = CountOf(ledger, "stage_completed"))'
  BY <1>1, <1>2 DEF MaskInv, CountOf
<1>6. VaultProblems(ir) => setup.replay /\ ir # "plain"
  BY DEF VaultProblems, MaskInv, CleanVault
<1>7. LedgerProblems(label) =>
        \/ label # "plain"
        \/ \E i \in DOMAIN ledger : \E k \in DOMAIN ledger[i].fields :
             ledger[i].fields[k].at \in Approved /\ ledger[i].fields[k].has = "huge"
  <2>1. ASSUME NEW i \in DOMAIN ledger
        PROVE  /\ Hits(ledger[i].fields, Registered \union Detected) = {}
               /\ \A k \in DOMAIN ledger[i].fields :
                    ledger[i].fields[k].has = "huge" => ledger[i].fields[k].at \in Approved
    BY DEF MaskInv, CleanLedger, CleanRecord, PublicFields, PublicField
  <2> QED
    BY <2>1 DEF LedgerProblems
<1>8. BlockedHasCause'
  BY <1>1, <1>2, <1>6, <1>7 DEF BlockedHasCause
<1> QED
  BY <1>2, <1>4, <1>5, <1>8 DEF MaskInv

(* Every step keeps both clean.                                              *)
LEMMA StepKeepsMask ==
  ASSUME LedgerAssumption, LedgerIInv, MaskInv, [LedgerNext]_ledgerVars
  PROVE  MaskInv'
<1>1. ASSUME NEW text \in StageTexts, StageStarts(text) PROVE MaskInv'
  <2> DEFINE f == <<Field("/stage_id", text)>>
             rec == [kind |-> "stage_started", visit |-> visit + 1, number |-> seq + 1, anchor |-> 0,
                     hooked |-> FALSE, fields |-> f]
  <2>1. PublicFields(f, Open)
    BY <1>1, NoFields, StageFields
  <2>2. ledger' = Observed(rec) /\ outcome = "open" /\ UNCHANGED <<vault, outcome, setup>>
    BY <1>1 DEF StageStarts, Event
  <2> HIDE DEF f
  <2>3. CleanLedger(ledger', Open) /\ CountOf(ledger', "stage_completed") = CountOf(ledger, "stage_completed")
    BY <2>1, <2>2, ObservedClean
  <2> QED
    BY <2>2, <2>3, OpenKeepsMask DEF MaskInv
<1>2. ASSUME NEW use \in ToolUses, ToolStarts(use) PROVE MaskInv'
  <2>1. PublicFields(ProjectToolArgs(use), Open)
    BY ArgsFacts, InputAssumption
  <2>2. /\ ledger' = Observed(Record("tool_call_started", ProjectToolArgs(use)))
        /\ outcome = "open" /\ visit > 0 /\ UNCHANGED <<vault, outcome, setup>>
    BY <1>2 DEF ToolStarts, Event
  <2> QED
    BY <2>1, <2>2, EventKeepsMask DEF MaskInv
<1>3. ASSUME NEW value \in Seq(VaultType), NEW kind, kind # "stage_snapshot", vault' = Kept(kind, value),
             NEW k, k # "stage_completed", ledger' = Observed(Record(k, <<>>)),
             outcome = "open", visit > 0, UNCHANGED <<outcome, setup>>
      PROVE  MaskInv'
  <2>1. CleanVault(vault') /\ (setup.replay => CountOf(vault', "stage_snapshot") = CountOf(vault, "stage_snapshot"))
    BY <1>3, KeptFacts DEF MaskInv
  <2> QED
    BY <1>3, <2>1, NoFields, EventKeepsMask
<1>4. ASSUME NEW value \in Results \union Messages PROVE value \in Seq(VaultType)
  BY InputAssumption DEF VaultType
<1>5. ASSUME NEW value \in Results, ToolReturns(value) PROVE MaskInv'
  <2>1. visit > 0
    BY <1>5 DEF ToolReturns, LedgerIInv
  <2> QED
    BY <1>3, <1>4, <1>5, <2>1 DEF ToolReturns, Event
<1>6. ASSUME NEW value \in Messages, ToolFails(value) PROVE MaskInv'
  <2>1. visit > 0
    BY <1>6 DEF ToolFails, LedgerIInv
  <2> QED
    BY <1>3, <1>4, <1>6, <2>1 DEF ToolFails, Event
<1>7. ASSUME NEW value \in Messages, ModelResponds(value) PROVE MaskInv'
  BY <1>3, <1>4, <1>7 DEF ModelResponds, Event
<1>8. ASSUME NEW out \in Outputs, NEW answer \in Answers, StageCompletes(out, answer) PROVE MaskInv'
  BY <1>8, CompletionKeepsMask
<1>9. ASSUME NEW spec \in Specs, NEW v, NEW anchor, Annotate(spec, v, anchor) PROVE MaskInv'
  <2> DEFINE by == FALSE
  <2>1. v \in 1 .. visit /\ outcome' \in {"open", "failing"} /\ UNCHANGED <<vault, setup>>
    BY <1>9 DEF Annotate, Begun
  <2>2. ledger' = IF Persists(ledger, spec, v, anchor) THEN Admit(ledger, Annotation(spec, v, anchor, by)) ELSE ledger
    BY <1>9 DEF Annotate, Note
  <2> HIDE DEF by
  <2>3. CleanLedger(ledger', Open) /\ CountOf(ledger', "stage_completed") = CountOf(ledger, "stage_completed")
    <3>1. CleanLedger(ledger, Open)
      BY DEF MaskInv
    <3>2. CASE Persists(ledger, spec, v, anchor)
      <4>1. /\ CleanLedger(Admit(ledger, Annotation(spec, v, anchor, by)), Open)
            /\ CountOf(Admit(ledger, Annotation(spec, v, anchor, by)), "stage_completed")
               = CountOf(ledger, "stage_completed")
        BY <2>1, <3>1, <3>2, NoteClean
      <4> QED
        BY <2>2, <3>2, <4>1
    <3>3. CASE ~Persists(ledger, spec, v, anchor)
      BY <2>2, <3>1, <3>3
    <3> QED
      BY <3>2, <3>3
  <2> QED
    BY <2>1, <2>3, OpenKeepsMask DEF MaskInv
<1>10. ASSUME NEW ir \in {"plain", "home"}, NEW label \in {"plain", "credential"},
              NEW fits \in BOOLEAN, FinishRun(ir, label, fits)
       PROVE MaskInv'
  BY <1>10, FinishKeepsMask
<1>11. ASSUME UNCHANGED ledgerVars PROVE MaskInv'
  <2>1. ledger' = ledger /\ vault' = vault /\ setup' = setup /\ outcome' = outcome /\ Open' = Open
    BY <1>11 DEF ledgerVars, Open
  <2>2. CleanLedger(ledger', Open') /\ CleanVault(vault')
    BY <2>1 DEF MaskInv
  <2> QED
    BY <2>1, <2>2 DEF MaskInv, CountOf, BlockedHasCause
<1>12. ASSUME NEW value, RecordFails(value) PROVE MaskInv'
  <2>1. UNCHANGED <<ledger, vault, setup>> /\ outcome' \in {"open", "failing"}
    BY <1>12 DEF RecordFails
  <2> QED
    BY <2>1, OpenKeepsMask DEF MaskInv
<1> QED
  BY <1>1, <1>2, <1>5, <1>6, <1>7, <1>8, <1>9, <1>10, <1>11, <1>12 DEF LedgerNext, Finished

(* The ledger and the vault are clean in every state.                        *)
THEOREM MaskInvariant == LedgerSpec => []MaskInv
<1>1. LedgerInit => MaskInv
  BY InitMaskInv
<1>2. LedgerIInv /\ MaskInv /\ [LedgerNext]_ledgerVars => MaskInv'
  BY StepKeepsMask, LedgerAssumption
<1> QED
  BY <1>1, <1>2, LedgerInvariant, PTL DEF LedgerSpec

(* Whatever a run's stages, tools and hosts say, nothing the scanner knows   *)
(* is in the ledger or the vault, and of results only approved numbers are   *)
(* public (observe_workflow_event, _scrub_vault_value).                      *)
THEOREM CleanTheorem == LedgerSpec => []LedgerIsClean
<1>1. MaskInv => NothingFound
  BY DEF MaskInv, CleanLedger, CleanRecord, CleanVault, NothingFound
<1>2. MaskInv => OnlyApprovedIsPublic
  BY DEF MaskInv, CleanLedger, CleanRecord, PublicFields, PublicField, Open, OnlyApprovedIsPublic
<1> QED
  BY <1>1, <1>2, MaskInvariant, PTL DEF LedgerIsClean

(* However large a value and wherever its findings are, it loses no more     *)
(* than those, if they are fewer than the passes; and every completion in    *)
(* the ledger of a run to be replayed has its snapshot (_scrub_vault_value). *)
THEOREM FixtureTheorem == LedgerSpec => []FixturesKeepTheRest
<1>1. MaskInv => FixturesKeepTheRest
  BY DEF MaskInv, CleanVault, KeepsRest, CountOf, FixturesKeepTheRest
<1> QED
  BY <1>1, MaskInvariant, PTL

(* The scans at the end block an archive for fixed texts and for approved    *)
(* metrics beyond the safe integers, and for nothing else that was admitted  *)
(* (_final_scan, _seal_vault_entries).                                       *)
THEOREM BlockedTheorem == LedgerSpec => []BlockedHasCause
<1>1. MaskInv => BlockedHasCause
  BY DEF MaskInv
<1> QED
  BY <1>1, MaskInvariant, PTL

-----------------------------------------------------------------------------
(* PathRefs. A number stands for one text, and every entry of the ledger or  *)
(* the vault has the reference of its own file: of one under a registered    *)
(* root, that of its resolved path.                                          *)

EntryType == [kind : {"path", "path_ref", "text"}, number : Nat, file : Files]

RefsInv ==
  /\ DOMAIN refs \subseteq Texts /\ IsFiniteSet(DOMAIN refs)
  /\ \A t \in DOMAIN refs : Where[t.file] # "safe" /\ refs[t] \in Nat
  /\ {refs[t] : t \in DOMAIN refs} = 1 .. Cardinality(DOMAIN refs)
  /\ \A t, u \in DOMAIN refs : refs[t] = refs[u] => t = u

\* The entry x is the one of its file when r has the numbers.
Sourced(r, x) ==
  /\ x.kind = "path_ref" => \E t \in DOMAIN r : r[t] = x.number /\ t.file = x.file
  /\ Where[x.file] = "unsafe" =>
       Resolved(x.file) \in DOMAIN r /\ x = Refers(r[Resolved(x.file)], x.file)

PathInv ==
  /\ RefsInv
  /\ argued \in Seq(EntryType) /\ stored \in Seq(EntryType)
  /\ \A x \in Entries(argued) \union Entries(stored) : Sourced(refs, x)
  /\ keep => Entries(published) \subseteq Entries(argued)

(* A text that is looked up has a number, and those that had one keep it.    *)
LEMMA WithFacts ==
  ASSUME RefsInv, NEW t \in Texts, Where[t.file] # "safe", refs' = With(refs, t)
  PROVE  /\ RefsInv' /\ t \in DOMAIN refs'
         /\ \A u \in DOMAIN refs : u \in DOMAIN refs' /\ refs'[u] = refs[u]
<1>1. CASE t \in DOMAIN refs
  BY <1>1 DEF With, RefsInv
<1>2. CASE t \notin DOMAIN refs
  <2> DEFINE n == Cardinality(DOMAIN refs)
  <2>1. n \in Nat
    BY FS_CardinalityType DEF RefsInv
  <2>2. /\ DOMAIN refs' = DOMAIN refs \union {t}
        /\ refs'[t] = n + 1
        /\ \A u \in DOMAIN refs : refs'[u] = refs[u]
    BY <1>2 DEF With, NextNumber
  <2>3. IsFiniteSet(DOMAIN refs') /\ Cardinality(DOMAIN refs') = n + 1
    BY <1>2, <2>2, FS_AddElement DEF RefsInv
  <2> HIDE DEF n
  <2>4. \A u \in DOMAIN refs : refs[u] \in 1 .. n
    BY DEF RefsInv, n
  <2>5. {refs'[u] : u \in DOMAIN refs'} = {refs[u] : u \in DOMAIN refs} \union {n + 1}
    BY <2>2
  <2>6. {refs'[u] : u \in DOMAIN refs'} = 1 .. n + 1
    <3>1. {refs[u] : u \in DOMAIN refs} = 1 .. n
      BY DEF RefsInv, n
    <3>2. (1 .. n) \union {n + 1} = 1 .. n + 1
      BY <2>1
    <3> QED
      BY <2>5, <3>1, <3>2
  <2>7. \A u, v \in DOMAIN refs' : refs'[u] = refs'[v] => u = v
    BY <2>1, <2>2, <2>4 DEF RefsInv
  <2>8. RefsInv'
    <3>1. DOMAIN refs' \subseteq Texts /\ IsFiniteSet(DOMAIN refs')
      BY <2>2, <2>3 DEF RefsInv
    <3>2. \A u \in DOMAIN refs' : Where[u.file] # "safe" /\ refs'[u] \in Nat
      BY <2>1, <2>2 DEF RefsInv
    <3> QED
      BY <2>3, <2>6, <2>7, <3>1, <3>2 DEF RefsInv
  <2> QED
    BY <2>2, <2>8
<1> QED
  BY <1>1, <1>2

(* What stood where a path was still does when more texts have numbers.      *)
LEMMA SourcedLater ==
  ASSUME NEW x, Sourced(refs, x), \A u \in DOMAIN refs : u \in DOMAIN refs' /\ refs'[u] = refs[u]
  PROVE  Sourced(refs', x)
BY DEF Sourced

(* What is put where a path was, and the number it needs.                    *)
LEMMA NormalizedFacts ==
  ASSUME RefsInv, NEW t \in Texts,
         refs' = IF Where[t.file] = "safe" THEN refs ELSE With(refs, Key(t))
  PROVE  /\ RefsInv' /\ NormalizePath(t) \in EntryType /\ Sourced(refs', NormalizePath(t))
         /\ \A u \in DOMAIN refs : u \in DOMAIN refs' /\ refs'[u] = refs[u]
<1>1. t.file \in Files /\ Key(t) \in Texts /\ Key(t).file = t.file
      /\ (Where[t.file] = "unsafe" => Key(t) = Resolved(t.file))
  BY DEF Texts, Key, Resolved
<1>2. CASE Where[t.file] = "safe"
  <2>1. NormalizePath(t) = Entry("path", 0, t.file) /\ refs' = refs
    BY <1>2 DEF NormalizePath, Alias
  <2>2. Entry("path", 0, t.file) \in EntryType /\ Entry("path", 0, t.file).kind = "path"
        /\ Entry("path", 0, t.file).file = t.file
    BY <1>1 DEF Entry, EntryType
  <2> QED
    BY <1>2, <2>1, <2>2 DEF Sourced, RefsInv
<1>3. CASE Where[t.file] # "safe"
  <2> DEFINE n == refs'[Key(t)]
  <2>1. /\ RefsInv' /\ Key(t) \in DOMAIN refs'
        /\ \A u \in DOMAIN refs : u \in DOMAIN refs' /\ refs'[u] = refs[u]
    BY <1>1, <1>3, WithFacts
  <2>2. NormalizePath(t) = Refers(n, t.file) /\ n \in Nat
    BY <1>3, <2>1 DEF NormalizePath, RefsInv
  <2>3. Refers(n, t.file) \in EntryType /\ Refers(n, t.file).kind = "path_ref"
        /\ Refers(n, t.file).number = n /\ Refers(n, t.file).file = t.file
    BY <1>1, <2>2 DEF Refers, Entry, EntryType
  <2>4. Sourced(refs', NormalizePath(t))
    BY <1>1, <2>1, <2>2, <2>3 DEF Sourced
  <2> QED
    BY <1>3, <2>1, <2>2, <2>3, <2>4
<1> QED
  BY <1>2, <1>3

(* One entry more.                                                           *)
LEMMA EntriesAppend ==
  ASSUME NEW s \in Seq(EntryType), NEW x \in EntryType
  PROVE  Append(s, x) \in Seq(EntryType) /\ Entries(Append(s, x)) = Entries(s) \union {x}
<1>1. Append(s, x) \in Seq(EntryType) /\ DOMAIN Append(s, x) = 1 .. Len(s) + 1 /\ DOMAIN s = 1 .. Len(s)
      /\ Len(s) \in Nat
  OBVIOUS
<1>2. Append(s, x)[Len(s) + 1] = x /\ \A i \in 1 .. Len(s) : Append(s, x)[i] = s[i]
  OBVIOUS
<1>3. \A i \in 1 .. Len(s) + 1 : i \in 1 .. Len(s) \/ i = Len(s) + 1
  BY <1>1
<1> QED
  BY <1>1, <1>2, <1>3 DEF Entries

LEMMA InitPathInv == PathInit => PathInv
<1> SUFFICES ASSUME PathInit PROVE PathInv
  OBVIOUS
<1>1. DOMAIN refs = {} /\ IsFiniteSet({}) /\ Cardinality({}) = 0
  BY FS_EmptySet DEF PathInit
<1>2. RefsInv
  BY <1>1 DEF RefsInv
<1> QED
  BY <1>2 DEF PathInit, PathInv, Entries

LEMMA NextPathInv == PathInv /\ [PathNext]_pathVars => PathInv'
<1> SUFFICES ASSUME PathInv, [PathNext]_pathVars PROVE PathInv'
  OBVIOUS
<1>1. ASSUME NEW t \in Texts, RecordArgs(t) PROVE PathInv'
  <2> DEFINE x == NormalizePath(t)
  <2>1. /\ RefsInv' /\ x \in EntryType /\ Sourced(refs', x)
        /\ \A u \in DOMAIN refs : u \in DOMAIN refs' /\ refs'[u] = refs[u]
    BY <1>1, NormalizedFacts DEF RecordArgs, PathInv
  <2>2. argued' = Append(argued, x) /\ UNCHANGED <<stored, published, keep>>
    BY <1>1 DEF RecordArgs
  <2> HIDE DEF x
  <2>3. argued' \in Seq(EntryType) /\ Entries(argued') = Entries(argued) \union {x}
    BY <2>1, <2>2, EntriesAppend DEF PathInv
  <2>4. ASSUME NEW y \in Entries(argued') \union Entries(stored') PROVE Sourced(refs', y)
    <3>1. y = x \/ Sourced(refs, y)
      BY <2>2, <2>3 DEF PathInv
    <3> QED
      BY <2>1, <3>1, SourcedLater
  <2> QED
    BY <2>1, <2>2, <2>3, <2>4 DEF PathInv
<1>2. ASSUME NEW t \in Texts, RecordVault(t) PROVE PathInv'
  <2> DEFINE x == ScrubText(t)
             y == Entry("text", 0, t.file)
  <2>1. stored' = Append(stored, x) /\ UNCHANGED <<argued, published, keep>>
    BY <1>2 DEF RecordVault
  <2>2. y \in EntryType /\ y.kind = "text" /\ y.file = t.file
    BY DEF Texts, Entry, EntryType
  <2>3. /\ RefsInv' /\ x \in EntryType /\ Sourced(refs', x)
        /\ \A u \in DOMAIN refs : u \in DOMAIN refs' /\ refs'[u] = refs[u]
    <3>1. CASE Where[t.file] = "outside" /\ ~t.resolved
      <4>1. x = y /\ refs' = refs
        BY <1>2, <2>2, <3>1 DEF ScrubText, RecordVault
      <4> HIDE DEF x, y
      <4> QED
        BY <2>2, <3>1, <4>1 DEF Sourced, PathInv, RefsInv
    <3>2. CASE ~(Where[t.file] = "outside" /\ ~t.resolved)
      <4>1. x = NormalizePath(t)
        BY <3>2 DEF ScrubText
      <4>2. NormalizePath(t).kind = "path_ref" <=> Where[t.file] # "safe"
        BY DEF NormalizePath, Alias, Refers, Entry
      <4>3. refs' = IF Where[t.file] = "safe" THEN refs ELSE With(refs, Key(t))
        BY <1>2, <4>1, <4>2 DEF RecordVault
      <4> QED
        BY <4>1, <4>3, NormalizedFacts DEF PathInv
    <3> QED
      BY <3>1, <3>2
  <2> HIDE DEF x
  <2>4. stored' \in Seq(EntryType) /\ Entries(stored') = Entries(stored) \union {x}
    BY <2>1, <2>3, EntriesAppend DEF PathInv
  <2>5. ASSUME NEW z \in Entries(argued') \union Entries(stored') PROVE Sourced(refs', z)
    <3>1. z = x \/ Sourced(refs, z)
      BY <2>1, <2>4 DEF PathInv
    <3> QED
      BY <2>3, <3>1, SourcedLater
  <2> QED
    BY <2>1, <2>3, <2>4, <2>5 DEF PathInv
<1>3. CASE Publish
  <2>1. published' = [i \in DOMAIN argued |-> Project(i)] /\ UNCHANGED <<refs, argued, stored, keep>>
    BY <1>3 DEF Publish
  <2>2. keep => published' = [i \in DOMAIN argued |-> argued[i]]
    BY <2>1 DEF Project
  <2>3. keep' => Entries(published') \subseteq Entries(argued')
    BY <2>1, <2>2 DEF Entries
  <2> QED
    BY <2>1, <2>3 DEF PathInv, RefsInv, Sourced
<1>4. CASE UNCHANGED pathVars
  BY <1>4 DEF pathVars, PathInv, RefsInv, Sourced
<1> QED
  BY <1>1, <1>2, <1>3, <1>4 DEF PathNext

(* Across the ledger and the vault, and a publication that keeps relative    *)
(* paths, a reference is one file, and a file under a root whose alias may    *)
(* not be shown has one reference, for any number of files and texts.        *)
THEOREM RefsTheorem == PathSpec => []RefsIdentify
<1>1. PathInv => PathTypeOK
  BY DEF PathInv, RefsInv, Sourced, PathTypeOK
<1>2. PathInv => RefsNameOneFile
  <2> SUFFICES ASSUME PathInv,
                      NEW x \in Entries(argued) \union Entries(stored),
                      NEW y \in Entries(argued) \union Entries(stored),
                      x.kind = "path_ref", y.kind = "path_ref", x.number = y.number
               PROVE  x.file = y.file
    BY DEF PathInv, RefsNameOneFile, Distinct
  <2>1. PICK t \in DOMAIN refs : refs[t] = x.number /\ t.file = x.file
    BY DEF PathInv, Sourced
  <2>2. PICK u \in DOMAIN refs : refs[u] = y.number /\ u.file = y.file
    BY DEF PathInv, Sourced
  <2> QED
    BY <2>1, <2>2 DEF PathInv, RefsInv
<1>3. PathInv => FilesHaveOneRef
  BY DEF PathInv, Sourced, FilesHaveOneRef
<1>4. PathInv => RefsIdentify
  BY <1>1, <1>2, <1>3 DEF RefsIdentify
<1> QED
  BY <1>4, InitPathInv, NextPathInv, PTL DEF PathSpec
=============================================================================
