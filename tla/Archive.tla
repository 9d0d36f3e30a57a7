------------------------------- MODULE Archive -------------------------------
(***************************************************************************)
(* A trace archive on disk: what the recorder seals, what verify_archive   *)
(* reports of any file found there, and what unlock_archive makes of the   *)
(* vault. Before a reader starts, and between its two reads, another run   *)
(* may write the same path, or somebody may change, drop or re-index an    *)
(* entry.                                                                  *)
(*                                                                         *)
(* An entry is its parsed content with at most one flaw, and a digest is   *)
(* the content it was taken from: SHA-256 and the authenticated encryption *)
(* are perfect. The content identity is a digest of the index.             *)
(***************************************************************************)
EXTENDS Naturals, FiniteSets

CONSTANTS
  Traces,        \* trace ids, one per sealed archive
  Passphrases,   \* those an archive is sealed with
  Ledgers,       \* what a ledger holds that needs evidence: sets of Needs
  Captures,      \* the VaultCapture options considered: sets of Options
  MaxWrites      \* bound: archives written and entries edited

Options == {"messages", "results", "transitions"}
Needs == {"model_completed", "model_retry", "tool", "transition"}
Evidence == {"request", "response", "tool", "transition"}
None == "none"
Empty == "empty"

ASSUME ArchiveAssumption ==
  /\ Captures \subseteq SUBSET Options /\ Ledgers \subseteq SUBSET Needs
  /\ {None, Empty} \intersect Passphrases = {}
  /\ MaxWrites \in Nat

Required == {"manifest", "graph", "events"}
Vault == {"enc", "meta"}

VARIABLES
  file,       \* the archive at the path
  seals,      \* every archive sealed so far
  edits,
  reader,     \* "idle", "reread" (between the two reads of unlock) or "done"
  asked,      \* the passphrase of the unlock, or "none" for verify_archive
  verified,   \* the archive verify_archive read
  used,       \* the archive the second read of unlock_archive saw
  rep,        \* the VerificationReport
  records     \* the evidence in the returned records

archiveVars == <<file, seals, edits, reader, asked, verified, used, rep, records>>
readerVars == <<reader, asked, verified, used, rep, records>>

When(b, x) == IF b THEN {x} ELSE {}
Pick(f, S) == [x \in S |-> f[x]]
Joined(f, g) ==
  [x \in DOMAIN f \union DOMAIN g |-> IF x \in DOMAIN f THEN f[x] ELSE g[x]]

-----------------------------------------------------------------------------
(* Sealing.                                                                *)

\* What the vault is bound to: the digests of the public entries.
Aad(m, g, e) ==
  [manifest |-> m, graph |-> g, events |-> e, trace |-> m.trace, ir |-> m.ir]

\* The evidence the hooks append to the vault. A call that was retried has a
\* request and may have no response.
Captured(capture, needs) ==
  {x \in Evidence :
     \/ /\ "messages" \in capture
        /\ \/ x = "request" /\ needs \intersect {"model_completed", "model_retry"} # {}
           \/ x = "response" /\ "model_completed" \in needs
     \/ x = "tool" /\ "tool" \in needs /\ "results" \in capture
     \/ x = "transition" /\ "transition" \in needs /\ "transitions" \in capture}

Manifest(t, vault) ==
  [trace |-> t, ir |-> "ir", profile |-> IF vault THEN "replay" ELSE "audit",
   vault |-> vault, flaw |-> None]
Graph == [nodes |-> "drawn", flaw |-> None]

\* The recorder does not hold every ledger line to what the reader asks of it: a
\* namespace too long, a tool name it does not allow, or a field that was masked
\* where the schema wants a text are sealed as they are.
Lines == {None, "shape"}
Events(t, needs, lines) == [trace |-> t, needs |-> needs, nodes |-> "drawn", flaw |-> lines]

VaultEntries(m, e, pass, plain) ==
  [enc  |-> [pass |-> pass, aad |-> Aad(m, Graph, e), plain |-> plain, intact |-> TRUE],
   meta |-> [aad |-> Aad(m, Graph, e), flaw |-> None]]

Indexed(entries) ==
  [container |-> TRUE, entries |-> entries, index |-> entries, identity |-> entries,
   flaw |-> None]

\* Faulty variant of Sealed: the index is made before the vault is attached.
Sealed_EarlyIndex(t, pass, needs, lines, plain) ==
  LET m == Manifest(t, pass # None)
      e == Events(t, needs, lines)
      public == [manifest |-> m, graph |-> Graph, events |-> e,
                 summary |-> [of |-> e, flaw |-> None]]
      vault == IF pass = None THEN <<>> ELSE VaultEntries(m, e, pass, plain)
  IN  [Indexed(public) EXCEPT !.entries = Joined(public, vault)]

\* The archive of one run, with a vault when there is a passphrase.
Sealed(t, pass, needs, lines, plain) ==
  LET m == Manifest(t, pass # None)
      e == Events(t, needs, lines)
      public == [manifest |-> m, graph |-> Graph, events |-> e,
                 summary |-> [of |-> e, flaw |-> None]]
      vault == IF pass = None THEN <<>> ELSE VaultEntries(m, e, pass, plain)
  IN  Indexed(Joined(public, vault))

\* What is written may be larger than a reader takes: only events are counted,
\* and a vault alone may be as large as a whole archive is allowed to be.
\* One that is too large is refused before its lines are read: they are not told
\* apart.
Write(t, f) ==
  /\ reader # "done" /\ Cardinality(seals) + edits < MaxWrites
  /\ \A s \in seals : s.entries.manifest.trace # t
  /\ \E fits \in BOOLEAN :
       /\ fits \/ f.entries.events.flaw = None
       /\ LET s == [f EXCEPT !.container = fits]
          IN  file' = s /\ seals' = seals \union {s}
  /\ UNCHANGED <<edits, readerVars>>

\* finish_run: an audit archive, or a replay archive with its vault.
SealAudit(t, needs) == \E lines \in Lines : Write(t, Sealed(t, None, needs, lines, None))
SealReplay(t, needs, pass) ==
  \E capture \in Captures, lines \in Lines :
    Write(t, Sealed(t, pass, needs, lines,
                    [evidence |-> Captured(capture, needs), flaw |-> None]))

\* Another writer, through encrypt_vault_records: nothing checks its records.
\* Too many of them are refused like what cannot be parsed, and one that is no
\* object like one of a wrong shape: either comes before what the ledger needs.
SealUnchecked(t, pass) ==
  \E flaw \in {"unparsable", "shape"} :
    Write(t, Sealed(t, pass, UNION Ledgers, None, [evidence |-> Evidence, flaw |-> flaw]))

-----------------------------------------------------------------------------
(* Editing, by hand or by a tool that rebuilds the index.                  *)

Flawed(c, flaws) == {[c EXCEPT !.flaw = f] : f \in flaws}

Variants(n, c, f) ==
  CASE n = "manifest" ->
         Flawed(c, {"unparsable", "fields", "unsafe", "extra"}) \union
         {[c EXCEPT !.profile = p] : p \in {"audit", "replay", "publication", "other"}} \union
         {[c EXCEPT !.trace = t] : t \in Traces} \union
         {[c EXCEPT !.vault = ~@], [c EXCEPT !.ir = "other"]}
    [] n = "graph" -> Flawed(c, {"unparsable", "fields", "unsafe"}) \union
                      {[c EXCEPT !.nodes = "other"]}
    [] n = "events" ->
         Flawed(c, {"unparsable", "shape", "unsafe", "many", "extra"}) \union
         {[c EXCEPT !.trace = t] : t \in Traces} \union
         {[c EXCEPT !.needs = {}], [c EXCEPT !.nodes = "other"]}
    [] n = "summary" -> Flawed(c, {"unparsable", "unsafe"}) \union
                        {[c EXCEPT !.of.nodes = "other"]}
    [] n = "enc" -> {[c EXCEPT !.intact = FALSE]}
    [] n = "meta" ->
         Flawed(c, {"unparsable", "codec", "salt", "saltless"}) \union
         (IF Required \subseteq DOMAIN f
          THEN {[c EXCEPT !.aad = Aad(f.manifest, f.graph, f.events)]} ELSE {})

Edit(f, reindex) ==
  /\ reader # "done" /\ Cardinality(seals) + edits < MaxWrites
  /\ edits' = edits + 1
  /\ file' = IF reindex THEN [f EXCEPT !.index = f.entries, !.identity = f.entries] ELSE f
  /\ UNCHANGED <<seals, readerVars>>

EditEntry(n, reindex) ==
  /\ n \in DOMAIN file.entries
  /\ \E c \in Variants(n, file.entries[n], file.entries) \ {file.entries[n]} :
       Edit([file EXCEPT !.entries[n] = c], reindex)
DropEntry(n, reindex) ==
  /\ n \in DOMAIN file.entries
  /\ Edit([file EXCEPT !.entries = Pick(@, DOMAIN @ \ {n})], reindex)
EditIndex(n) ==
  \/ /\ n \in DOMAIN file.index
     /\ Edit([file EXCEPT !.index = Pick(@, DOMAIN @ \ {n})], FALSE)
  \/ \E flaw \in {"unparsable", "unsafe", "shape"} :
       Edit([file EXCEPT !.flaw = flaw], FALSE)
  \/ Edit([file EXCEPT !.container = FALSE], FALSE)

-----------------------------------------------------------------------------
(* verify_archive. An error says what is wrong, and of which entry.        *)

Error(says, of) == [says |-> says, of |-> of]

\* The cases with a report of its own: no archive (read_archive_entries: its
\* form, its entries or their sizes), incomplete, no index.
Unreadable(f) ==
  \/ ~f.container \/ f.flaw = "unparsable" \/ ~(Required \subseteq DOMAIN f.entries)

IndexErrors(f) ==
  {Error("shape", "index") : x \in When(f.flaw = "shape", 1)} \union
  {Error("unindexed", n) : n \in DOMAIN f.entries \ DOMAIN f.index} \union
  {Error("hash", n) : n \in {x \in DOMAIN f.entries \intersect DOMAIN f.index :
                               f.index[x] # f.entries[x]}}

IdentityErrors(f) == When(f.index # f.identity, Error("identity", "index"))
CountErrors(f) == When(f.entries.events.flaw = "many", Error("count", "ledger"))

\* The summary is a cache: a mismatch is a warning.
SummaryWarnings(f) ==
  When("summary" \in DOMAIN f.entries
         /\ (f.entries.summary.of # f.entries.events \/ f.entries.summary.flaw = "unparsable"
             \/ f.entries.events.flaw = "unparsable"), "summary")

ManifestErrors(m) ==
  When(m.flaw = "unparsable", Error("unparsable", "manifest")) \union
  When(m.flaw = "fields", Error("fields", "manifest"))
GraphErrors(g) ==
  When(g.flaw = "unparsable", Error("unparsable", "graph")) \union
  When(g.flaw = "fields", Error("fields", "graph"))

UnsafeErrors(f) ==
  {Error("unsafe", n) : n \in {x \in {"manifest", "graph", "summary"} \intersect DOMAIN f.entries :
                                 f.entries[x].flaw = "unsafe"}} \union
  When(f.flaw = "unsafe", Error("unsafe", "index"))

MembershipErrors(f) ==
  {Error("listed", n) : n \in DOMAIN f.index \ DOMAIN f.entries} \union
  {Error("unlisted", n) : n \in DOMAIN f.entries \ DOMAIN f.index}

\* A ledger line has its kind, its ids and well-typed fields ...
EventShapeErrors(e) == {Error(x, "events") : x \in {"shape", "unsafe"} \intersect {e.flaw}}

\* ... and its run id is the manifest's, when the manifest has one.
EventErrors(e, m) ==
  EventShapeErrors(e) \union
  When(e.flaw = "unparsable", Error("unparsable", "events")) \union
  When(m.flaw # "unparsable" /\ e.flaw # "unparsable" /\ e.trace # m.trace,
       Error("run_id", "events"))

\* Faulty variant of VaultErrors: a vault is missed, and never in excess.
VaultErrors_Undeclared(f) ==
  LET m == f.entries.manifest
      has == Vault \subseteq DOMAIN f.entries
      known == m.flaw # "unparsable"
  IN  When(known /\ m.vault /\ ~has, Error("declared", "manifest")) \union
      When(known /\ m.profile = "replay" /\ ~m.vault, Error("replay", "vault")) \union
      When(~known \/ m.profile = "other", Error("profile", "manifest"))

\* What the capture record promises, against the entries there are.
VaultErrors(f) ==
  LET m == f.entries.manifest
      has == Vault \subseteq DOMAIN f.entries
      known == m.flaw # "unparsable"
      declared == known /\ m.vault
  IN  When(("enc" \in DOMAIN f.entries) # ("meta" \in DOMAIN f.entries),
           Error("pair", "vault")) \union
      When(declared /\ ~has, Error("declared", "manifest")) \union
      When(has /\ ~declared, Error("undeclared", "manifest")) \union
      When(known /\ m.profile = "replay" /\ ~declared, Error("replay", "vault")) \union
      When(known /\ m.profile = "publication" /\ has, Error("publication", "vault")) \union
      When(~known \/ m.profile = "other", Error("profile", "manifest"))

\* Stages and edges of the ledger that the graph does not have: a warning.
StructuralNotes(f) ==
  LET g == f.entries.graph
      e == f.entries.events
  IN  When(g.flaw # "unparsable" /\ e.flaw # "unparsable" /\ e.nodes # g.nodes, "path")

Errors(f) ==
  IndexErrors(f) \union IdentityErrors(f) \union CountErrors(f)
    \union ManifestErrors(f.entries.manifest) \union GraphErrors(f.entries.graph)
    \union UnsafeErrors(f) \union MembershipErrors(f)
    \union EventErrors(f.entries.events, f.entries.manifest) \union VaultErrors(f)

\* The levels look for words in the texts of the errors: "hash mismatch",
\* "integrity index", "unparsable" and the like ...
IntegrityError(e) ==
  \/ e.says \in {"unindexed", "hash", "identity", "listed", "unlisted", "unparsable"}
  \/ e.of = "index"
\* ... and "events.ndjson", "manifest" (also in the names of those entries) or
\* "workflow graph" (not in the name workflow.graph.json).
LedgerError(e) ==
  \/ e.of \in {"events", "manifest"}
  \/ e.of = "graph" /\ e.says \in {"unparsable", "fields", "unsafe"}

Report(ok, integrity, structural, semantic, replayability, warned) ==
  [ok |-> ok, integrity |-> integrity, structural |-> structural,
   semantic |-> semantic, replayability |-> replayability, warned |-> warned]

VerifyReport(f) ==
  IF Unreadable(f) THEN Report(FALSE, "failed", "failed", "not-evaluated", None, FALSE)
  ELSE LET errors == Errors(f)
           ok == errors = {}
       IN  Report(ok,
                  IF \E e \in errors : IntegrityError(e) THEN "failed" ELSE "passed",
                  IF \E e \in errors : LedgerError(e) THEN "failed"
                  ELSE IF StructuralNotes(f) # {} THEN "passed-with-warnings" ELSE "passed",
                  "not-evaluated",
                  IF ~ok THEN None
                  ELSE IF Vault \subseteq DOMAIN f.entries THEN "taped-replay"
                  ELSE "playback-only",
                  SummaryWarnings(f) \union StructuralNotes(f) # {}
                    \/ "extra" \in {f.entries.manifest.flaw, f.entries.events.flaw})

-----------------------------------------------------------------------------
(* unlock_archive, and the exit code of the command line.                  *)

Failed(r) == [r EXCEPT !.ok = FALSE, !.semantic = "failed"]

\* The needs of a readable ledger without evidence. A request alone is
\* evidence for a model call.
Uncovered(e, evidence) ==
  IF e.flaw = "unparsable" THEN {}
  ELSE {n \in e.needs :
          CASE n \in {"model_completed", "model_retry"} ->
                 evidence \intersect {"request", "response"} = {}
            [] OTHER -> n \notin evidence}

Decrypts(f, pass) ==
  LET enc == f.entries.enc
  IN  /\ enc.intact /\ enc.pass = pass
      /\ enc.aad = Aad(f.entries.manifest, f.entries.graph, f.entries.events)

\* The stored descriptor must agree with the entries; its ir_sha256 is not read.
DescriptorAgrees(f) ==
  LET s == f.entries.meta.aad
      x == Aad(f.entries.manifest, f.entries.graph, f.entries.events)
  IN  /\ s.manifest = x.manifest /\ s.graph = x.graph /\ s.events = x.events
      /\ s.trace = x.trace

\* The refusals of the second half on f, and the entries it does not ask for
\* before it looks them up: an error nothing in it catches.
Refused(f) ==
  \/ ~f.container
  \/ ~({"meta", "manifest"} \subseteq DOMAIN f.entries)
  \/ f.entries.meta.flaw \in {"unparsable", "codec", "salt"}
  \/ f.entries.manifest.flaw = "unparsable"
Raises(f) ==
  \/ f.entries.meta.flaw = "saltless"
  \/ asked # Empty /\ ~(Required \subseteq DOMAIN f.entries)
  \/ asked # Empty /\ "enc" \notin DOMAIN f.entries /\ DescriptorAgrees(f)

Opens(f) ==
  asked # Empty /\ DescriptorAgrees(f) /\ "enc" \in DOMAIN f.entries /\ Decrypts(f, asked)

Return(r, recs) == rep' = r /\ records' = recs

\* Faulty variant of ReadVault: evidence is not looked for.
ReadVault_NoEvidence(f) ==
  IF ~Opens(f) \/ f.entries.enc.plain.flaw # None THEN Return(Failed(rep), {})
  ELSE Return([rep EXCEPT !.semantic = "passed"], f.entries.enc.plain.evidence)

\* A record of a wrong shape leaves ok as it was.
ReadVault(f) ==
  \/ ~Opens(f) /\ Return(Failed(rep), {})
  \/ /\ Opens(f)
     /\ LET plain == f.entries.enc.plain IN
        \/ plain.flaw = "unparsable" /\ Return(Failed(rep), {})
        \/ plain.flaw = "shape" /\ Return([rep EXCEPT !.semantic = "failed"], {})
        \/ /\ plain.flaw = None
           /\ Return(IF Uncovered(f.entries.events, plain.evidence) = {}
                       THEN [rep EXCEPT !.semantic = "passed"] ELSE Failed(rep),
                     plain.evidence)

\* verify_archive, alone or as the first half of unlock_archive. The empty
\* passphrase stands for those _normalize_passphrase refuses.
Verify(pass) ==
  LET r == VerifyReport(file)
  IN  /\ reader = "idle" /\ seals # {}
      /\ asked' = pass /\ verified' = file
      /\ \/ /\ pass = None
            /\ reader' = "done" /\ Return(r, {})
         \/ /\ pass # None /\ r.replayability # "taped-replay"
            /\ reader' = "done" /\ Return(Failed(r), {})
         \/ /\ pass # None /\ r.replayability = "taped-replay"
            /\ reader' = "reread" /\ Return(r, {})
      /\ UNCHANGED <<file, seals, edits, used>>

\* The second half, from a second read. A raised KeyError is the report the
\* command line falls back to.
Unlock ==
  /\ reader = "reread"
  /\ reader' = "done" /\ used' = file
  /\ IF Refused(file) THEN Return(Failed(rep), {})
     ELSE IF Raises(file)
       THEN Return(Report(FALSE, "failed", "failed", "failed", None, FALSE), {})
       ELSE ReadVault(file)
  /\ UNCHANGED <<file, seals, edits, asked, verified>>

\* nemotrace verify: 0 when the requested level passed.
ExitCode == IF rep.ok THEN 0 ELSE 1

NoFile == [container |-> FALSE, entries |-> <<>>, index |-> <<>>, identity |-> <<>>,
           flaw |-> None]

ArchiveInit ==
  /\ file = NoFile /\ seals = {} /\ edits = 0
  /\ reader = "idle" /\ asked = None /\ records = {}
  /\ verified = NoFile /\ used = NoFile
  /\ rep = Report(FALSE, "failed", "failed", "not-evaluated", None, FALSE)

ArchiveNext ==
  \/ \E t \in Traces, needs \in Ledgers :
       SealAudit(t, needs) \/ \E pass \in Passphrases : SealReplay(t, needs, pass)
  \/ \E t \in Traces, pass \in Passphrases : SealUnchecked(t, pass)
  \/ \E n \in Required \union Vault \union {"summary"} :
       \/ \E reindex \in BOOLEAN : EditEntry(n, reindex) \/ DropEntry(n, reindex)
       \/ EditIndex(n)
  \/ \E pass \in Passphrases \union {None, Empty} : Verify(pass)
  \/ Unlock

ArchiveSpec == ArchiveInit /\ [][ArchiveNext]_archiveVars

-----------------------------------------------------------------------------
(* Properties.                                                             *)

Done == reader = "done"
Unlocked == Done /\ asked # None

(* Records are evidence, and only the end of an unlock has them; a semantic  *)
(* verdict is given only to who asked for one.                               *)
ArchiveTypeOK ==
  /\ edits \in 0..MaxWrites /\ reader \in {"idle", "reread", "done"}
  /\ rep.integrity \in {"passed", "failed"}
  /\ rep.structural \in {"passed", "passed-with-warnings", "failed"}
  /\ rep.semantic \in {"not-evaluated", "passed", "failed"}
  /\ rep.replayability \in {None, "playback-only", "taped-replay"}
  /\ records \subseteq Evidence /\ (records # {} => Unlocked)
  /\ rep.semantic # "not-evaluated" => Unlocked

(* What the recorder seals, if it is of a size and its ledger of a form that  *)
(* the reader takes, the reader accepts at every level and without a warning; *)
(* with its passphrase and with the evidence its ledger needs the vault opens *)
(* and passes, and with another passphrase it never opens. A sealed archive   *)
(* that is too large, or whose ledger has a line the reader does not take, is *)
(* refused, whoever asks, and gives up no record (trace.py _build_entries,    *)
(* read_archive_entries, verify_archive, unlock_archive).                     *)
SealedVerifies ==
  Done /\ verified \in seals =>
    LET e == verified.entries
        taken == verified.container /\ e.events.flaw = None
    IN
    /\ ~taken => ~rep.ok /\ rep.semantic # "passed" /\ records = {}
    /\ taken /\ asked = None =>
         /\ rep.ok /\ ~rep.warned /\ rep.integrity = "passed" /\ rep.structural = "passed"
         /\ (rep.replayability = "taped-replay") = (e.manifest.profile = "replay")
    /\ taken /\ asked # None /\ "enc" \in DOMAIN e /\ used = verified =>
         IF e.enc.pass = asked
         THEN e.enc.plain.flaw = None /\ Uncovered(e.events, e.enc.plain.evidence) = {}
                => rep.ok /\ rep.semantic = "passed"
         ELSE ~rep.ok /\ rep.semantic = "failed" /\ records = {}

(* An archive that passes, and one whose integrity level alone passes, is    *)
(* byte for byte what its index and its identity were made from              *)
(* (trace.py:3271-3334, 3465-3474 and the words of the level summary).       *)
OkMeansIntact ==
  Done /\ (rep.ok \/ rep.integrity = "passed") =>
    verified.index = verified.entries /\ verified.identity = verified.entries

(* No accepted archive breaks the promise of its profile, however it was     *)
(* edited and re-indexed: a publication has no vault, a replay archive has   *)
(* one, and half a vault is never accepted (trace.py:3700-3713).             *)
ProfileHolds ==
  Done /\ rep.ok =>
    LET e == verified.entries
        vault == Vault \intersect DOMAIN e
    IN  /\ vault \in {{}, Vault} /\ (vault = Vault) = e.manifest.vault
        /\ e.manifest.profile = "publication" => vault = {}
        /\ e.manifest.profile = "replay" => vault = Vault

(* The summary is a cache: whatever it says, and even if it cannot be        *)
(* parsed or is gone, an archive that is otherwise as it was sealed, of a    *)
(* size and with a ledger that the reader takes, passes (trace.py:3343-3364, *)
(* "Summary is cache only").                                                 *)
SummaryIsCacheOnly ==
  Done /\ asked = None /\ verified.container /\ verified.flaw = None
    /\ verified.index = verified.entries /\ verified.identity = verified.entries
    /\ (\E s \in seals : /\ s.entries.events.flaw = None
                       /\ Pick(s.entries, DOMAIN s.entries \ {"summary"})
                            = Pick(verified.entries, DOMAIN verified.entries \ {"summary"}))
    /\ ("summary" \in DOMAIN verified.entries => verified.entries.summary.flaw # "unsafe")
  => rep.ok

(* Records come out of a vault only next to the manifest, the graph and the  *)
(* ledger it was sealed with and for the passphrase it was sealed with:      *)
(* whatever was exchanged between archives or between the two reads          *)
(* (trace.py _expected_vault_aad and the descriptor check).                  *)
UnlockAuthentic ==
  records # {} =>
    \E s \in seals :
      /\ Vault \subseteq DOMAIN s.entries
      /\ Pick(s.entries, Required) = Pick(used.entries, Required)
      /\ s.entries.enc.pass = asked /\ s.entries.enc.plain.evidence = records

(* An archive that nobody touched is accepted, and so is one of which only    *)
(* the summary was touched, exactly if it is of a size and has a ledger that  *)
(* the reader takes: neither is assured by the recorder. One that is refused  *)
(* gives up nothing of its vault (verify_archive, unlock_archive).            *)
AcceptsSealed == SealedVerifies /\ SummaryIsCacheOnly

(* An archive that passes agrees with its own index and its own identity, and *)
(* keeps the promise of its profile, however it was edited. Who made index    *)
(* and identity is not known: a mix of two archives, indexed anew, may pass   *)
(* (verify_archive).                                                          *)
PassMeansIntact == OkMeansIntact /\ ProfileHolds

(* A semantic pass, and a successful unlock that returns records, means the  *)
(* returned records hold evidence for every model, tool and transition event *)
(* of the ledger they belong to, whatever was captured (trace.py             *)
(* _check_vault_evidence).                                                   *)
PassedIsComplete ==
  Unlocked /\ (rep.semantic = "passed" \/ (rep.ok /\ records # {})) =>
    Uncovered(used.entries.events, records) = {}

(* What an unlock returns was sealed together, and what it passes has the     *)
(* evidence its ledger needs, whatever was written between its two reads      *)
(* (unlock_archive).                                                          *)
UnlockIsSound == UnlockAuthentic /\ PassedIsComplete

(* README.md: the exit code of nemotrace verify is 0 when the requested      *)
(* level passed, and the level requested with a passphrase is the semantic   *)
(* one. It does not hold: see the README of this project.                    *)
ExitMeansPassed == Unlocked /\ ExitCode = 0 => rep.semantic = "passed"

(* _expected_vault_aad, "Recompute the vault AAD from the verified public    *)
(* artifact": the records belong to the archive the report is about. It does *)
(* not hold when the path is written between the two reads.                  *)
VerifiedIsUsed == records # {} => used.identity = verified.identity
=============================================================================
