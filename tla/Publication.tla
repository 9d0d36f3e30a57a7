----------------------------- MODULE Publication -----------------------------
(***************************************************************************)
(* scan-publication, attest-publication and prepare-publication: an audit   *)
(* archive is projected and the projection reported, the report is          *)
(* attested, and the projection is made again and written when it is the    *)
(* attested one. Between any two steps another run may write the source     *)
(* path, somebody may edit the report or the attestation, and the command   *)
(* may be killed.                                                           *)
(*                                                                          *)
(* An archive is the texts it holds and the facts publication asks of it;   *)
(* a digest and a content identity are what they were taken from. A file    *)
(* that may be missing or unreadable is a set of at most one content.       *)
(***************************************************************************)
EXTENDS Naturals, FiniteSets

CONSTANTS
  Contents,      \* what may be found at the source path
  OptionSets,    \* review decisions: [tools |-> names kept, keep |-> paths kept]
  Flagged,       \* the texts the scanner's ruleset matches
  MaxChanges     \* bound: rewrites of the source and edits by hand

Places == {"events", "graph", "manifest", "summary"}

ASSUME PublicationAssumption ==
  /\ MaxChanges \in Nat
  /\ \A o \in OptionSets : o.keep \in BOOLEAN

VARIABLES
  source,        \* the archive at the source path
  report,        \* the report scan-publication wrote
  attestation,   \* the attestation file
  dest,          \* the published archive
  destReport,    \* the report next to it
  pc,            \* the command in progress and where it stands, or "idle"
  read,          \* its first read of the source
  options,       \* its review decisions
  loaded,        \* the attestation prepare-publication loaded
  made,          \* the report of the projection it made
  shown, written,    \* history: projections reported, archives written
  changes, orphan    \* orphan: killed between the archive and its report

files == <<report, attestation, dest, destReport>>
work == <<read, options, loaded, made>>
history == <<shown, written, orphan>>
publicationVars == <<source, files, pc, work, history, changes>>

-----------------------------------------------------------------------------
(* The projection.                                                         *)

\* Faulty variant of Fit: an interrupted run may be published.
Fit_AnyStatus(c) ==
  /\ c.profile = "audit" /\ ~c.vault
  /\ c.complete /\ c.known

\* What the source must be. "known": every field is one the projection
\* classifies, and has the shape it expects.
Fit(c) ==
  /\ c.profile = "audit" /\ ~c.vault
  /\ c.status \in {"complete", "failed"}
  /\ c.complete /\ c.known

\* Tool names are dropped unless allowed, paths become opaque unless kept.
Projected(c, o) ==
  [run |-> c.trace, events |-> c.events, graph |-> c.graph, options |-> o,
   tools |-> c.tools \intersect o.tools, paths |-> IF o.keep THEN c.paths ELSE {}]

\* The archive that would be written: the projection under the trace id that
\* is made from its digest, and the manifest and summary of the source.
Entries(c, o) ==
  [digest |-> Projected(c, o), manifest |-> c.manifest, status |-> c.status,
   summary |-> c.summary]

Texts(e) ==
  {e.digest.events, e.digest.graph, e.manifest, e.summary}
    \union e.digest.tools \union e.digest.paths

\* The disclosure report of first read c and second read v.
Disclosure(c, v, o, attested) ==
  [source |-> v, trace |-> c.trace, digest |-> Projected(c, o), options |-> o,
   identity |-> Entries(c, o), findings |-> Texts(Entries(c, o)) \intersect Flagged,
   attested |-> attested]

-----------------------------------------------------------------------------
(* scan-publication.                                                       *)

\* A command that ends leaves nothing but its files.
Ends == pc' = "idle" /\ read' = {} /\ options' = {} /\ loaded' = {} /\ made' = {}

ScanStart(o) ==
  /\ pc = "idle"
  /\ pc' = "scan" /\ read' = {source} /\ options' = {o}
  /\ UNCHANGED <<source, files, loaded, made, history, changes>>

\* The archive is verified by a second read, the first is projected.
Scan ==
  /\ pc = "scan"
  /\ \E c \in read, o \in options :
       IF source.verifies /\ Fit(c)
       THEN /\ pc' = "scanned" /\ made' = {Disclosure(c, source, o, FALSE)}
            /\ UNCHANGED <<read, options, loaded>>
       ELSE Ends
  /\ UNCHANGED <<source, files, history, changes>>

\* The report is written whatever the scanner found.
WriteScanReport ==
  /\ pc = "scanned"
  /\ Ends /\ report' = made /\ shown' = shown \union {r.digest : r \in made}
  /\ UNCHANGED <<source, attestation, dest, destReport, written, orphan, changes>>

-----------------------------------------------------------------------------
(* attest-publication: the digests come from a report, of the scan or of an *)
(* earlier publication.                                                     *)
Attest ==
  /\ pc = "idle"
  /\ \E r \in report \union destReport :
       /\ r.findings = {}
       /\ attestation' = {[source |-> r.source, trace |-> r.trace, digest |-> r.digest,
                           options |-> r.options]}
  /\ UNCHANGED <<source, report, dest, destReport, pc, work, history, changes>>

-----------------------------------------------------------------------------
(* prepare-publication.                                                    *)

PrepareStart ==
  /\ pc = "idle" /\ attestation # {}
  /\ options' = {a.options : a \in attestation}
  /\ pc' = "prepare" /\ loaded' = attestation /\ read' = {source}
  /\ UNCHANGED <<source, files, made, history, changes>>

\* Faulty variant of Covers: the projection is not compared.
Covers_AnyProjection(a, r) == r.findings = {} /\ r.source = a.source /\ r.trace = a.trace

\* Nothing is found, and the attestation is of this projection of this source.
Covers(a, r) ==
  r.findings = {} /\ r.digest = a.digest /\ r.source = a.source /\ r.trace = a.trace

Prepare ==
  /\ pc = "prepare"
  /\ \E c \in read, o \in options, a \in loaded :
       LET r == Disclosure(c, source, o, TRUE)
       IN  IF source.verifies /\ Fit(c) /\ Covers(a, r)
           THEN pc' = "write" /\ made' = {r} /\ UNCHANGED <<read, options, loaded>>
           ELSE Ends
  /\ UNCHANGED <<source, files, history, changes>>

\* Faulty variant of WriteArchive: a report that is there is left as it is.
WriteArchive_KeepsReport ==
  /\ pc = "write"
  /\ IF destReport = {} THEN pc' = "report" /\ UNCHANGED work ELSE Ends
  /\ \E r \in made, c \in read, a \in loaded :
       /\ dest' = {r.identity}
       /\ written' = written \union {[entries |-> r.identity, from |-> c, by |-> a]}
  /\ UNCHANGED <<source, report, attestation, destReport, shown, orphan, changes>>

\* The archive replaces what was at the destination in one step ...
WriteArchive ==
  /\ pc = "write"
  /\ pc' = "report"
  /\ \E r \in made, c \in read, a \in loaded :
       /\ dest' = {r.identity}
       /\ written' = written \union {[entries |-> r.identity, from |-> c, by |-> a]}
  /\ UNCHANGED <<source, report, attestation, destReport, work, shown, orphan, changes>>

\* ... and its report follows.
WriteReport ==
  /\ pc = "report"
  /\ Ends /\ destReport' = made /\ orphan' = FALSE
  /\ UNCHANGED <<source, report, attestation, dest, shown, written, changes>>

-----------------------------------------------------------------------------
(* The environment. A report is not written in one step: killed meanwhile,  *)
(* the old one or none can be read.                                         *)

Crash ==
  /\ pc # "idle" /\ changes < MaxChanges
  /\ Ends /\ changes' = changes + 1 /\ orphan' = (orphan \/ pc = "report")
  /\ report' \in {report} \union (IF pc = "scanned" THEN {{}} ELSE {})
  /\ destReport' \in {destReport} \union (IF pc = "report" THEN {{}} ELSE {})
  /\ UNCHANGED <<source, attestation, dest, shown, written>>

Change == changes < MaxChanges /\ changes' = changes + 1

RewriteSource ==
  /\ Change /\ source' \in Contents \ {source}
  /\ UNCHANGED <<files, pc, work, history>>

\* A reviewer clears the findings of a report, or widens an attestation.
EditReport ==
  /\ Change /\ \E r \in report : report' = {[r EXCEPT !.findings = {}]}
  /\ UNCHANGED <<source, attestation, dest, destReport, pc, work, history>>
EditAttestation ==
  /\ Change
  /\ \E a \in attestation, o \in OptionSets : attestation' = {[a EXCEPT !.options = o]}
  /\ UNCHANGED <<source, report, dest, destReport, pc, work, history>>

PublicationInit ==
  /\ source \in Contents /\ pc = "idle" /\ options = {}
  /\ report = {} /\ attestation = {} /\ dest = {} /\ destReport = {}
  /\ read = {} /\ loaded = {} /\ made = {}
  /\ shown = {} /\ written = {} /\ changes = 0 /\ orphan = FALSE

PublicationNext ==
  \/ \E o \in OptionSets : ScanStart(o)
  \/ Scan \/ WriteScanReport \/ Attest
  \/ PrepareStart \/ Prepare \/ WriteArchive \/ WriteReport
  \/ Crash \/ RewriteSource \/ EditReport \/ EditAttestation

PublicationSpec == PublicationInit /\ [][PublicationNext]_publicationVars

-----------------------------------------------------------------------------
(* Properties.                                                             *)

(* The files, and the work of the command in progress: what it read is a     *)
(* content, and an archive is written only for a passed projection.          *)
PublicationTypeOK ==
  /\ source \in Contents /\ read \subseteq Contents /\ options \subseteq OptionSets
  /\ changes \in 0..MaxChanges /\ orphan \in BOOLEAN
  /\ pc \in {"idle", "scan", "scanned", "prepare", "write", "report"}
  /\ pc \in {"write", "report"} => made # {} /\ \A r \in made : r.findings = {}

(* Whatever was edited or rewritten, the ledger, the graph and the review    *)
(* options of every archive written are those of a report a scan produced:   *)
(* no path leads from a wider attestation to a wider publication             *)
(* (publication.py _projection_digest, prepare_publication).                 *)
PublishedWasReviewed ==
  \A w \in written : w.entries.digest \in shown

(* No archive written holds a text the scanner matches, in any entry, or     *)
(* comes from a private, interrupted or unbound run, even if the report of   *)
(* the scan was edited to say it passed (publication.py scan_publication).   *)
NothingUnfitIsWritten ==
  \A w \in written :
    /\ Texts(w.entries) \intersect Flagged = {}
    /\ w.from.profile = "audit" /\ ~w.from.vault
    /\ w.from.status # "interrupted" /\ w.from.complete /\ w.from.known

(* The report next to the published archive describes it, unless the command *)
(* is at work between the two or was killed there (publication.py            *)
(* prepare_publication, "The disclosure report is written next to the        *)
(* artifact").                                                               *)
SidecarDescribes ==
  pc # "report" /\ ~orphan /\ dest # {} =>
    \E r \in destReport : dest = {r.identity} /\ r.attested

(* prepare_publication "refuses a projection whose digest, source identity,  *)
(* or source trace id does not match the attestation": what is written comes *)
(* from the archive that was attested. It does not hold when the source is   *)
(* written between the two reads.                                            *)
SourceMatches == \A w \in written : w.from = w.by.source
=============================================================================
