------------------------------ MODULE PathRefs ------------------------------
(***************************************************************************)
(* The opaque references path-1, path-2, ... that stand for files in the   *)
(* ledger, in the vault and in a publication. The recorder numbers the     *)
(* paths of tool arguments and the strings of vault payloads from one      *)
(* table; the projection of a publication numbers those paths of the       *)
(* ledger that are not references yet from a table of its own.             *)
(*                                                                         *)
(* A text is an absolute path: a file, and whether it is written the way   *)
(* resolving it would write it.                                            *)
(***************************************************************************)
EXTENDS Naturals, Sequences, FiniteSets

CONSTANTS
  Files,     \* files a run may name
  Where,     \* per file: under a root with a safe alias, another root, or none
  MaxWritten \* bound on the arguments and payloads recorded

ASSUME PathAssumption ==
  /\ IsFiniteSet(Files) /\ MaxWritten \in Nat
  /\ Where \in [Files -> {"safe", "unsafe", "outside"}]

Texts == [file : Files, resolved : BOOLEAN]
Resolved(f) == [file |-> f, resolved |-> TRUE]

VARIABLES
  refs,      \* _path_refs: the texts that have a reference, and which
  argued,    \* the path arguments of the ledger's tool calls, in order
  stored,    \* the strings of the vault, in order
  published, \* those of the publication, in order
  keep       \* --keep-relative-paths

pathVars == <<refs, argued, stored, published, keep>>

\* What stands where a path was: its alias, its text, or a reference and its
\* number, and the file it is the path of (of a reference, history).
Entry(kind, number, f) == [kind |-> kind, number |-> number, file |-> f]
Alias(f) == Entry("path", 0, f)
Refers(n, f) == Entry("path_ref", n, f)

-----------------------------------------------------------------------------
(* TraceRecorder *)

NextNumber(known) == Cardinality(DOMAIN known) + 1
With(known, t) ==
  IF t \in DOMAIN known THEN known
  ELSE [u \in DOMAIN known \union {t} |-> IF u = t THEN NextNumber(known) ELSE known[u]]

\* Faulty variant of Key: a file is looked up by the text of the argument.
Key_Text(t) == t
\* What a reference is looked up by: the resolved path under a root.
Key(t) == IF Where[t.file] = "unsafe" THEN Resolved(t.file) ELSE t

\* _normalize_path
NormalizePath(t) ==
  IF Where[t.file] = "safe" THEN Alias(t.file) ELSE Refers(With(refs, Key(t))[Key(t)], t.file)

\* _scrub_vault_text: outside all roots a text that is not resolved stays.
ScrubText(t) ==
  IF Where[t.file] = "outside" /\ ~t.resolved THEN Entry("text", 0, t.file)
  ELSE NormalizePath(t)

Written == Len(argued) + Len(stored)

RecordArgs(t) ==
  /\ published = <<>> /\ Written < MaxWritten
  /\ argued' = Append(argued, NormalizePath(t))
  /\ refs' = IF Where[t.file] = "safe" THEN refs ELSE With(refs, Key(t))
  /\ UNCHANGED <<stored, published, keep>>

RecordVault(t) ==
  /\ published = <<>> /\ Written < MaxWritten
  /\ stored' = Append(stored, ScrubText(t))
  /\ refs' = IF ScrubText(t).kind # "path_ref" THEN refs ELSE With(refs, Key(t))
  /\ UNCHANGED <<argued, published, keep>>

-----------------------------------------------------------------------------
(* _ProjectionState.path_ref: the n-th path seen for the first time is path-n *)
PublicRef(i) ==
  LET seen == {argued[j].file : j \in {k \in 1..i : argued[k].kind = "path"}}
      first(f) == CHOOSE j \in 1..i : /\ argued[j].kind = "path" /\ argued[j].file = f
                                      /\ \A k \in 1..(j - 1) : argued[k].kind # "path" \/ argued[k].file # f
  IN  Cardinality({f \in seen : first(f) <= first(argued[i].file)})

\* _project_args: a reference the ledger holds already is passed on.
Project(i) ==
  IF argued[i].kind = "path" /\ ~keep THEN Refers(PublicRef(i), argued[i].file) ELSE argued[i]

\* Only an archive without a vault is published.
Publish ==
  /\ argued # <<>> /\ stored = <<>> /\ published = <<>>
  /\ published' = [i \in DOMAIN argued |-> Project(i)]
  /\ UNCHANGED <<refs, argued, stored, keep>>

-----------------------------------------------------------------------------
PathInit ==
  /\ refs = <<>> /\ argued = <<>> /\ stored = <<>> /\ published = <<>>
  /\ keep \in BOOLEAN

PathNext == (\E t \in Texts : RecordArgs(t) \/ RecordVault(t)) \/ Publish

PathSpec == PathInit /\ [][PathNext]_pathVars

-----------------------------------------------------------------------------
(* Correctness *)

Entries(s) == {s[i] : i \in DOMAIN s}
Distinct(entries) ==
  \A x, y \in entries : x.kind = "path_ref" /\ y.kind = "path_ref" /\ x.number = y.number
                          => x.file = y.file

(* The numbers given are 1 to their count, each to one text, and only texts  *)
(* of files without a safe alias have one.                                   *)
PathTypeOK ==
  /\ DOMAIN refs \subseteq Texts
  /\ {refs[t] : t \in DOMAIN refs} = 1..Cardinality(DOMAIN refs)
  /\ \A t \in DOMAIN refs : Where[t.file] # "safe"
  /\ \A x \in Entries(argued) \union Entries(stored) :
       x.kind = "path_ref" => \E t \in DOMAIN refs : refs[t] = x.number

(* A reference names one file, in the ledger and the vault together and,     *)
(* when relative paths are kept, in the publication (_path_refs).            *)
RefsNameOneFile ==
  Distinct(Entries(argued) \union Entries(stored) \union
           (IF keep THEN Entries(published) ELSE {}))

(* A file under a registered root whose alias may not be shown has one       *)
(* reference, however it is written and whether the ledger or the vault      *)
(* names it: the two can be joined.                                          *)
FilesHaveOneRef ==
  \A x, y \in Entries(argued) \union Entries(stored) :
    (x.file = y.file /\ Where[x.file] = "unsafe") => x = y

(* References identify: across the ledger and the vault (and a publication    *)
(* that keeps relative paths) one reference is one file, numbered without a   *)
(* gap, and a file under a root whose alias may not be shown is one reference.  *)
(* A file outside the roots may have several, or none in the vault            *)
(* (_path_refs).                                                              *)
RefsIdentify == PathTypeOK /\ RefsNameOneFile /\ FilesHaveOneRef

(* "alias-relative paths become opaque path-N refs" (publication.py): in a   *)
(* publication too a reference names one file.                               *)
PublishedRefsNameOneFile == Distinct(Entries(published))

(* "Alias registered paths; degrade unregistered absolutes to refs"          *)
(* (_scrub_vault_text): no absolute path is left in the vault.               *)
VaultDegrades == \A x \in Entries(stored) : x.kind # "text"
=============================================================================
