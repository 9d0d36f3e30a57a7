------------------------------- MODULE Ledger -------------------------------
(***************************************************************************)
(* What TraceRecorder lets into the public ledger and into the vault:      *)
(* projection of events, masking in a bounded number of passes, omission,  *)
(* host annotations, and the scans that may still block the archive.       *)
(*                                                                         *)
(* A record is a sequence of fields, a place and what it holds. Texts are  *)
(* told apart by what the scanner finds in them; the ids of a record are   *)
(* the subject of TraceIds, paths and their references that of PathRefs.   *)
(***************************************************************************)
EXTENDS Naturals, Sequences, FiniteSets

CONSTANTS
  MaxPasses,   \* _MAX_MASK_PASSES
  MaxEntries,  \* LIMIT_EVENT_COUNT
  MaxWarnings, \* the warnings kept about dropped annotations
  Outputs,     \* stage outputs a run may have: sequences of output fields
  Results,     \* tool results: sequences of vault fields
  Messages,    \* model responses and tool failures: sequences of vault fields
  ToolUses,    \* what a tool_call_started shows: [tool, path]
  StageTexts,  \* what a stage id may hold
  MaxEvents,   \* bound on the events of a run
  MaxNotes     \* bound on the annotations made by the host directly

ASSUME LedgerAssumption ==
  /\ MaxPasses \in Nat \ {0} /\ {MaxEntries, MaxWarnings, MaxEvents, MaxNotes} \subseteq Nat

Scalars == {"number", "huge"}
Names == STRING \ Scalars  \* what a name or an id may be
VaultPlaces == {"/v", "/v/out", "/v/stdout", "/v/headers"}

ASSUME InputAssumption ==
  /\ Outputs \subseteq Seq([at : STRING, has : STRING, name : Names])
  /\ Results \union Messages \subseteq Seq([at : VaultPlaces, has : STRING])
  /\ StageTexts \subseteq Names /\ ToolUses \subseteq [tool : Names, path : Names]

\* The hook's or the host's annotation. Its payload may give raw ids, and
\* among them a text with a registered secret.
Specs == [name : {"trial"}, payload : {"refs", "ids", "leak", "bad"}]
           \union [name : {"other", "long", "secret"}, payload : {"refs"}]

VARIABLES
  seq,     \* sequence number of the last event
  stages,  \* per stage visit, what its stage id holds
  busy,    \* a tool is running
  ledger,  \* _events
  vault,   \* _vault_records: [kind, raw (history), kept]
  full,    \* _event_limit_exceeded
  dropped, \* _annotations_dropped
  warned,  \* length of _annotation_warnings
  given,   \* history: specs, good or bad, that came out of the hook
  noted,   \* history: annotations asked for by the host
  outcome, \* "open", "failing" when recording a value raised, or what finish_run came to
  setup    \* [replay, ir, label, fits]: the profile, the texts of manifest and model,
           \* and whether the vault can be put into bytes within max_vault_bytes

ledgerVars ==
  <<seq, stages, busy, ledger, vault, full, dropped, warned, given, noted, outcome, setup>>

visit == Len(stages) \* _current_visit

-----------------------------------------------------------------------------
(* The scanner *)

Field(place, held) == [at |-> place, has |-> held]

\* Keys no public record may have; the vault may, unless they hold credentials.
Prohibited == {"/output/stdout", "/v/stdout"}
CredentialKeys == {"/v/headers"}
Maskable == {"/args/content", "/output/score", "/output/stdout", "/output/other",
             "/annotation/payload/mechanism_id"}

\* What is found in a text that holds something of the kind.
Finding == [secret |-> "registered_secret", credential |-> "credential", home |-> "home_path"]
Rule(f) ==
  IF f.at \in Prohibited THEN IF f.has = "marker" THEN "none" ELSE "prohibited_field"
  ELSE IF f.has \in DOMAIN Finding THEN Finding[f.has] ELSE "none"

Registered == {"registered_secret"}
Detected == {"prohibited_field", "credential", "home_path"}
\* _vault_finding_excused
Unexcused == Detected \ {"prohibited_field"}

Hits(rec, rules) == {i \in DOMAIN rec : Rule(rec[i]) \in rules}
First(S) == CHOOSE i \in S : \A j \in S : i <= j

GivenUp == <<Field("/", "marker")>>

\* A pass masks the first finding, and gives up where it cannot be masked.
OnePass(rec, rules, places) ==
  LET h == Hits(rec, rules)
  IN  IF h = {} THEN rec
      ELSE IF rec[First(h)].at \notin places THEN GivenUp
      ELSE [rec EXCEPT ![First(h)].has = "marker"]

\* What is left of a record after k passes.
Passes(rec, rules, places, k) ==
  LET pass[n \in 0..k] == IF n = 0 THEN rec ELSE OnePass(pass[n - 1], rules, places)
  IN  pass[k]

\* Faulty variant of Masked: the last pass is trusted.
Masked_Trusts(rec, rules, places) == Passes(rec, rules, places, MaxPasses)
\* Faulty variant of Masked: it gives up a pass too early.
Masked_Early(rec, rules, places) ==
  LET last == Passes(rec, rules, places, MaxPasses - 2)
  IN  IF Hits(last, rules) = {} THEN last ELSE GivenUp
\* Each pass looks before it masks, and nothing looks after the last one: a
\* record with MaxPasses findings is given up although all could be masked.
Masked(rec, rules, places) ==
  LET last == Passes(rec, rules, places, MaxPasses - 1)
  IN  IF Hits(last, rules) = {} THEN last ELSE GivenUp

\* _apply_registry, then _scan_and_mask
Redacted(rec) == Masked(Masked(rec, Registered, Maskable), Detected, Maskable)

-----------------------------------------------------------------------------
(* The vault *)

ScrubNode(f) == IF f.at \in CredentialKeys THEN Field(f.at, "marker") ELSE f

Degraded(value) == IF value = GivenUp THEN <<Field("/v", "marker")>> ELSE value

\* Faulty variant of ScrubVaultValue: the registry is not consulted.
ScrubVaultValue_NoRegistry(value) ==
  Degraded(Masked([i \in DOMAIN value |-> ScrubNode(value[i])], Unexcused, VaultPlaces))
\* A value that cannot be cleaned becomes one marker; nothing is left out.
ScrubVaultValue(value) ==
  LET nodes == [i \in DOMAIN value |-> ScrubNode(value[i])]
      first == Degraded(Masked(nodes, Registered, VaultPlaces))
  IN  Degraded(Masked(first, Unexcused, VaultPlaces))

\* _to_jsonable refuses integers a reader may not keep apart. Of a stage output
\* that has one a marker is kept; of other values nothing is (RecordFails).
Unsafe(value) == \E i \in DOMAIN value : value[i].has = "huge"
Fixture(kind, value) ==
  [kind |-> kind, raw |-> value,
   kept |-> IF Unsafe(value) THEN Degraded(GivenUp) ELSE ScrubVaultValue(value)]
Kept(kind, value) == IF setup.replay THEN Append(vault, Fixture(kind, value)) ELSE vault

\* The same fields of a stage output, as the vault sees them
VaultFields(out) ==
  [i \in DOMAIN out |-> Field(IF out[i].at = "/output/stdout" THEN "/v/stdout" ELSE "/v/out", out[i].has)]

-----------------------------------------------------------------------------
(* Projection *)

\* Approved metrics that are numbers stay, all else becomes a marker, and
\* the name of what was removed is listed in redacted_fields.
Approved == {"/output/score", "/output/stdout"}
ProjectField(o) ==
  IF o.at \in Approved /\ o.has \in Scalars THEN <<Field(o.at, o.has)>>
  ELSE <<Field(o.at, "marker"), Field("/redacted_fields", o.name)>>

ProjectStageOutput(out) ==
  LET upTo[i \in 0..Len(out)] == IF i = 0 THEN <<>> ELSE upTo[i - 1] \o ProjectField(out[i])
  IN  upTo[Len(out)]

\* The arguments of a file write: the path under its alias, the content never.
ProjectToolArgs(use) == <<Field("/tool_name", use.tool), Field("/args/path", use.path),
                          Field("/args/content", "marker")>>

Record(kind, fields) ==
  [kind |-> kind, visit |-> visit, number |-> seq + 1, anchor |-> 0, hooked |-> FALSE,
   fields |-> <<Field("/stage_id", stages[visit])>> \o fields]

\* observe_workflow_event: the limit, masking, and omission.
Full(l) == full \/ Len(l) >= MaxEntries
Admits(l, rec) == ~Full(l) /\ Redacted(rec.fields) # GivenUp
Admit(l, rec) == Append(l, [rec EXCEPT !.fields = Redacted(rec.fields)])
Observed(rec) == IF Admits(ledger, rec) THEN Admit(ledger, rec) ELSE ledger

-----------------------------------------------------------------------------
(* Annotations *)

\* _visit_sequences: the events of visit v among the first n entries
Numbers(l, n, v) == {l[i].number : i \in {k \in 1..n : l[k].kind # "annotation" /\ l[k].visit = v}}
Known(l, v) == Numbers(l, Len(l), v)

\* An anchor belongs to the visit, if the visit has anything to anchor to.
Belongs(l, v, anchor) == anchor = 0 \/ Known(l, v) = {} \/ anchor \in Known(l, v)

\* _validate_autoresearch_payload, and the gate of the audit profile
Refused(spec) == spec.payload = "bad" \/ (~setup.replay /\ spec.payload \in {"ids", "leak"})

Payload(spec) ==
  IF spec.name # "trial" THEN <<Field("/annotation/payload", "marker")>>
  ELSE IF spec.payload = "ids" THEN <<Field("/annotation/payload/mechanism_id", "plain")>>
  ELSE IF spec.payload = "leak" THEN <<Field("/annotation/payload/mechanism_id", "secret")>>
  ELSE <<>>

Annotation(spec, v, anchor, hooked) ==
  [kind |-> "annotation", visit |-> v, number |-> 0, anchor |-> anchor, hooked |-> hooked,
   fields |-> <<Field("/stage_id", stages[v]), Field("/annotation/namespace", spec.name)>>
              \o Payload(spec)]

\* Neither refused, nor omitted, nor too late.
Persists(l, spec, v, anchor) ==
  Belongs(l, v, anchor) /\ ~Refused(spec) /\ Admits(l, Annotation(spec, v, anchor, FALSE))

\* record_annotation, on a ledger that ends with the event that called the hook
Note(l, spec, v, anchor, hooked) ==
  /\ ledger' = IF Persists(l, spec, v, anchor) THEN Admit(l, Annotation(spec, v, anchor, hooked)) ELSE l
  /\ full' = Full(l)

\* What the hook comes to: nothing, a failure (an exception, or something that
\* is no spec), or a spec, recorded at the event that called the hook.
Nothing == [name |-> "none", payload |-> "refs"]
Failure == [name |-> "none", payload |-> "bad"]
Answers == {Nothing, Failure} \union Specs
HookAnchor == seq + 1

\* Faulty variant of Lost: an annotation that the scanner omits is forgotten.
Lost_Raised(l, answer) ==
  answer = Failure \/ (answer # Nothing /\ (Refused(answer) \/ ~Belongs(l, visit, HookAnchor)))
Lost(l, answer) ==
  answer = Failure \/ (answer # Nothing /\ ~Persists(l, answer, visit, HookAnchor))

\* _maybe_emit_stage_annotation, _record_annotation_warning
Hook(l, answer) ==
  /\ IF answer \in Specs THEN Note(l, answer, visit, HookAnchor, TRUE)
     ELSE ledger' = l /\ UNCHANGED full
  /\ dropped' = IF Lost(l, answer) THEN dropped + 1 ELSE dropped
  /\ warned' = IF Lost(l, answer) /\ warned < MaxWarnings THEN warned + 1 ELSE warned
  /\ given' = IF answer = Nothing THEN given ELSE given + 1

-----------------------------------------------------------------------------
(* Operations *)

LedgerInit ==
  /\ seq = 0 /\ stages = <<>> /\ busy = FALSE
  /\ ledger = <<>> /\ vault = <<>> /\ full = FALSE
  /\ dropped = 0 /\ warned = 0 /\ given = 0 /\ noted = 0
  /\ outcome = "open"
  /\ setup \in [replay : BOOLEAN, ir : {"plain"}, label : {"plain"}, fits : {TRUE}]

Begun == outcome \in {"open", "failing"}
Event == outcome = "open" /\ seq < MaxEvents /\ seq' = seq + 1

\* What the replay profile cannot record. The call that would record it raises
\* before the event of its end: all that is left to the run is to fail.
Unrecordable(value) == setup.replay /\ Unsafe(value)

\* begin_stage_visit and stage_started
StageStarts(text) ==
  /\ Event /\ ~busy
  /\ stages' = Append(stages, text)
  /\ LET rec == [kind |-> "stage_started", visit |-> visit + 1, number |-> seq + 1, anchor |-> 0,
                 hooked |-> FALSE, fields |-> <<Field("/stage_id", text)>>]
     IN  ledger' = Observed(rec)
  /\ full' = Full(ledger)
  /\ UNCHANGED <<busy, vault, dropped, warned, given, noted, outcome, setup>>

\* tool_call_started
ToolStarts(use) ==
  /\ Event /\ visit > 0 /\ ~busy
  /\ busy' = TRUE
  /\ ledger' = Observed(Record("tool_call_started", ProjectToolArgs(use)))
  /\ full' = Full(ledger)
  /\ UNCHANGED <<stages, vault, dropped, warned, given, noted, outcome, setup>>

\* record_tool_result and tool_call_completed
ToolReturns(value) ==
  /\ Event /\ busy /\ ~Unrecordable(value)
  /\ busy' = FALSE
  /\ vault' = Kept("tool_result", value)
  /\ ledger' = Observed(Record("tool_call_completed", <<>>))
  /\ full' = Full(ledger)
  /\ UNCHANGED <<stages, dropped, warned, given, noted, outcome, setup>>

\* record_tool_error and tool_call_failed
ToolFails(value) ==
  /\ Event /\ busy /\ ~Unrecordable(value)
  /\ busy' = FALSE
  /\ vault' = Kept("tool_result", value)
  /\ ledger' = Observed(Record("tool_call_failed", <<>>))
  /\ full' = Full(ledger)
  /\ UNCHANGED <<stages, dropped, warned, given, noted, outcome, setup>>

\* record_model_response and model_completed
ModelResponds(value) ==
  /\ Event /\ visit > 0 /\ ~busy /\ ~Unrecordable(value)
  /\ vault' = Kept("model_response", value)
  /\ ledger' = Observed(Record("model_completed", <<>>))
  /\ full' = Full(ledger)
  /\ UNCHANGED <<stages, busy, dropped, warned, given, noted, outcome, setup>>

\* record_tool_result, record_tool_error or record_model_response raises
RecordFails(value) ==
  /\ outcome = "open" /\ visit > 0 /\ Unrecordable(value)
  /\ value \in Results => busy
  /\ outcome' = "failing"
  /\ UNCHANGED <<seq, stages, busy, ledger, vault, full, dropped, warned, given, noted, setup>>

\* stage_completed: only an admitted one has a snapshot and calls the hook.
Snapshot(rec, out) ==
  IF Admits(ledger, rec) THEN Kept("stage_snapshot", VaultFields(out)) ELSE vault
StageCompletes(out, answer) ==
  LET rec == Record("stage_completed", ProjectStageOutput(out)) IN
  /\ Event /\ visit > 0 /\ ~busy
  /\ vault' = Snapshot(rec, out)
  /\ IF Admits(ledger, rec) THEN Hook(Observed(rec), answer)
     ELSE /\ answer = Nothing /\ full' = Full(ledger)
          /\ UNCHANGED <<ledger, dropped, warned, given>>
  /\ UNCHANGED <<stages, busy, noted, outcome, setup>>

\* record_annotation, called by the host itself
Annotate(spec, v, anchor) ==
  /\ Begun /\ noted < MaxNotes /\ v \in 1..visit
  /\ noted' = noted + 1
  /\ Note(ledger, spec, v, anchor, FALSE)
  /\ UNCHANGED <<seq, stages, busy, vault, dropped, warned, given, outcome, setup>>

\* Entries and vault are put into canonical bytes, which not every text has (a
\* lone surrogate has none) nor every manifest, and the vault is limited in size:
\* fits says that its manifest has one and its size is within the limit.
Encodable(rec) == \A i \in DOMAIN rec : rec[i].has # "broken"
Unsealable(fits) ==
  \/ \E i \in DOMAIN ledger : ~Encodable(ledger[i].fields)
  \/ setup.replay /\ (~fits \/ \E i \in DOMAIN vault : ~Encodable(vault[i].kept))

\* The vault holds the manifest as it is, and is scanned once more.
VaultProblems(ir) ==
  setup.replay /\ (\/ ir # "plain"
                   \/ \E i \in DOMAIN vault : Hits(vault[i].kept, Registered \union Unexcused) # {})

\* scan_cleartext_entries: ledger, manifest and graph, and all their numbers
LedgerProblems(label) ==
  \/ label # "plain"
  \/ \E i \in DOMAIN ledger :
       \/ Hits(ledger[i].fields, Registered \union Detected) # {}
       \/ \E k \in DOMAIN ledger[i].fields : ledger[i].fields[k].has = "huge"

\* finish_run, which is the first to look at the fixed texts. An audit archive
\* has no manifest in a vault, and no vault.
FinishRun(ir, label, fits) ==
  /\ Begun /\ (setup.replay \/ (ir = "plain" /\ fits))
  /\ setup' = [setup EXCEPT !.ir = ir, !.label = label, !.fits = fits]
  /\ outcome' = IF full \/ Len(ledger) > MaxEntries THEN "limit"
                ELSE IF Unsealable(fits) THEN "refused"
                ELSE IF VaultProblems(ir) \/ LedgerProblems(label) THEN "blocked" ELSE "sealed"
  /\ UNCHANGED <<seq, stages, busy, ledger, vault, full, dropped, warned, given, noted>>

Finished == ~Begun /\ UNCHANGED ledgerVars

LedgerNext ==
  \/ \E text \in StageTexts : StageStarts(text)
  \/ \E use \in ToolUses : ToolStarts(use)
  \/ \E value \in Results : ToolReturns(value)
  \/ \E value \in Messages : ToolFails(value) \/ ModelResponds(value)
  \/ \E value \in Results \union Messages : RecordFails(value)
  \/ \E out \in Outputs, answer \in Answers : StageCompletes(out, answer)
  \/ \E spec \in Specs, v \in 1..MaxEvents, anchor \in 0..MaxEvents : Annotate(spec, v, anchor)
  \/ \E ir \in {"plain", "home"}, label \in {"plain", "credential"}, fits \in BOOLEAN :
       FinishRun(ir, label, fits)
  \/ Finished

LedgerSpec == LedgerInit /\ [][LedgerNext]_ledgerVars

-----------------------------------------------------------------------------
(* Correctness *)

(* Every record is of an event or annotation made in a visit that had begun, *)
(* entries never exceed the limit, and warnings are a bounded prefix of the  *)
(* annotations lost.                                                         *)
LedgerTypeOK ==
  /\ seq \in 0..MaxEvents /\ Len(ledger) <= MaxEntries
  /\ \A i \in 1..Len(ledger) : ledger[i].visit \in 1..visit /\ ledger[i].number \in 0..seq
  /\ warned = IF dropped < MaxWarnings THEN dropped ELSE MaxWarnings
  /\ outcome \in {"open", "failing", "limit", "refused", "blocked", "sealed"}

(* Nothing the scanner could find is in the ledger, nor, but for keys that   *)
(* are exempt there, in the vault (_scan_and_mask, _scrub_vault_value).      *)
NothingFound ==
  /\ \A i \in DOMAIN ledger : Hits(ledger[i].fields, Registered \union Detected) = {}
  /\ \A i \in DOMAIN vault : Hits(vault[i].kept, Registered \union Unexcused) = {}

(* What a tool or a stage returned is public only as a number that was       *)
(* approved, and the payload of an unknown annotation never is               *)
(* (_project_stage_output, record_annotation).                               *)
OnlyApprovedIsPublic ==
  \A i \in DOMAIN ledger : \A k \in DOMAIN ledger[i].fields :
    LET f == ledger[i].fields[k] IN
    f.at \in Maskable \union {"/annotation/payload"} /\ f.has # "marker" =>
      \/ f.at \in Approved /\ f.has \in Scalars
      \/ f.at = "/annotation/payload/mechanism_id" /\ setup.replay

(* The ledger is clean: nothing in it that the scanner finds, and of results  *)
(* nothing that was not approved (observe_workflow_event).                    *)
LedgerIsClean == NothingFound /\ OnlyApprovedIsPublic

(* "this never omits the enclosing record" (_scrub_vault_value): a value with *)
(* few findings loses those and nothing else, so that a replay finds the rest *)
(* of it, and the snapshots are those of the completions in the ledger.       *)
FixturesKeepTheRest ==
  /\ \A i \in DOMAIN vault :
       LET raw == vault[i].raw
           kept == vault[i].kept
           few(rules) == Cardinality(Hits(raw, rules)) < MaxPasses
       IN  (few(Registered) /\ few(Unexcused) /\ \A k \in DOMAIN raw : raw[k].has # "huge") =>
             /\ DOMAIN kept = DOMAIN raw
             /\ \A k \in DOMAIN raw :
                  \/ kept[k] = raw[k]
                  \/ kept[k].has = "marker" /\ (Rule(raw[k]) # "none" \/ raw[k].at \in CredentialKeys)
  /\ LET count(s, kind) == Cardinality({k \in DOMAIN s : s[k].kind = kind})
     IN  setup.replay => count(vault, "stage_snapshot") = count(ledger, "stage_completed")

(* An annotation with an anchor follows an event of its own visit, one of    *)
(* which it is anchored at; the hook's follows the very stage_completed that *)
(* called it (record_annotation, _maybe_emit_stage_annotation).              *)
AnchorsBelong ==
  \A i \in 1..Len(ledger) : ledger[i].kind = "annotation" =>
    LET known == Numbers(ledger, i - 1, ledger[i].visit) IN
    /\ ledger[i].anchor = 0 \/ known = {} \/ ledger[i].anchor \in known
    /\ ledger[i].hooked => /\ i > 1 /\ ledger[i - 1].kind = "stage_completed"
                           /\ ledger[i - 1].number = ledger[i].anchor
                           /\ ledger[i - 1].visit = ledger[i].visit

(* "Counted hook annotations lost" (annotations_dropped): whatever comes out *)
(* of the hook is in the ledger or counted.                                  *)
HookAccounted ==
  given = dropped + Cardinality({i \in 1..Len(ledger) : ledger[i].hooked})

(* The scans at the end find in what was admitted nothing that the scans at  *)
(* admission left: they block an archive for a fixed text, or for an approved *)
(* metric beyond the safe integers (_final_scan, _seal_vault_entries). Not    *)
(* the scans, but the limit, the size of the vault and what has no canonical  *)
(* form may still cost the run its archive.                                   *)
BlockedHasCause ==
  outcome = "blocked" =>
    \/ setup.label # "plain"
    \/ setup.replay /\ setup.ir # "plain"
    \/ \E i \in DOMAIN ledger : \E k \in DOMAIN ledger[i].fields :
         ledger[i].fields[k].at \in Approved /\ ledger[i].fields[k].has = "huge"

(* "approved scalar metrics survive" (_project_stage_output)                 *)
MetricsSurvive ==
  outcome = "blocked" => setup.label # "plain" \/ (setup.replay /\ setup.ir # "plain")

(* "secret/credential patterns are still enforced separately"                *)
(* (_vault_finding_excused): no text in the vault holds a registered secret. *)
VaultHoldsNoSecret ==
  \A i \in DOMAIN vault : \A k \in DOMAIN vault[i].kept : vault[i].kept[k].has # "secret"

\* What verify_archive asks of an annotation.
Readable(rec) ==
  \A k \in DOMAIN rec.fields :
    LET f == rec.fields[k] IN
    /\ f.at = "/annotation/namespace" => f.has # "long"
    /\ f.at = "/annotation/payload/mechanism_id" => f.has # "marker"

(* "A recognized namespace/kind must additionally pass its dedicated schema" *)
(* (schema/README.md): the reader accepts every record the writer admits.    *)
AdmittedIsReadable == outcome = "sealed" => \A i \in DOMAIN ledger : Readable(ledger[i])
=============================================================================
