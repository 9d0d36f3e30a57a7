--------------------------- MODULE Archives_proofs ---------------------------
(***************************************************************************)
(* Theorems about what becomes of an archive: what a reader reports of it  *)
(* (Archive), what is published of it (Publication) and what is pushed and *)
(* verified again (Publish).                                               *)
(***************************************************************************)
EXTENDS MCArchives, FiniteSetTheorems, TLAPS

-----------------------------------------------------------------------------
(* Archive. Types: an archive maps some entry names to contents, and a       *)
(* content has the fields its entry has, however it was edited.              *)

EntryNames == Required \union Vault \union {"summary"}

ManifestType ==
  [trace : Traces, ir : {"ir", "other"},
   profile : {"audit", "replay", "publication", "other"}, vault : BOOLEAN,
   flaw : {None, "unparsable", "fields", "unsafe", "extra"}]
GraphType == [nodes : {"drawn", "other"}, flaw : {None, "unparsable", "fields", "unsafe"}]
EventsType ==
  [trace : Traces, needs : SUBSET Needs, nodes : {"drawn", "other"},
   flaw : {None, "unparsable", "shape", "unsafe", "many", "extra"}]
SummaryType == [of : EventsType, flaw : {None, "unparsable", "unsafe"}]
AadType ==
  [manifest : ManifestType, graph : GraphType, events : EventsType, trace : Traces,
   ir : {"ir", "other"}]
PlainType == [evidence : SUBSET Evidence, flaw : {None, "unparsable", "shape"}]
EncType == [pass : Passphrases, aad : AadType, plain : PlainType, intact : BOOLEAN]
MetaType == [aad : AadType, flaw : {None, "unparsable", "codec", "salt", "saltless"}]

ContentOf(n) ==
  CASE n = "manifest" -> ManifestType
    [] n = "graph" -> GraphType
    [] n = "events" -> EventsType
    [] n = "summary" -> SummaryType
    [] n = "enc" -> EncType
    [] n = "meta" -> MetaType

EntryMaps ==
  {e \in UNION {[D -> UNION {ContentOf(n) : n \in EntryNames}] : D \in SUBSET EntryNames} :
     \A n \in DOMAIN e : e[n] \in ContentOf(n)}

FileType ==
  [container : BOOLEAN, entries : EntryMaps, index : EntryMaps, identity : EntryMaps,
   flaw : {None, "unparsable", "unsafe", "shape"}]

ReportType ==
  [ok : BOOLEAN, integrity : {"passed", "failed"},
   structural : {"passed", "passed-with-warnings", "failed"},
   semantic : {"not-evaluated", "passed", "failed"},
   replayability : {None, "playback-only", "taped-replay"}, warned : BOOLEAN]

-----------------------------------------------------------------------------
(* The inductive invariant. An archive on disk has an intact vault only if   *)
(* it is one that was sealed; a reader's report is the one of the archive it *)
(* verified, until the second half of an unlock changes it as the archive it *)
(* read then says.                                                           *)

\* What Write is given, and what it leaves on disk: the same, of any size.
SealOf(s) ==
  \E t \in Traces, pass \in Passphrases \union {None}, needs \in SUBSET Needs, lines \in Lines,
     plain \in PlainType \union {None} :
    /\ s = Sealed(t, pass, needs, lines, plain)
    /\ pass # None => plain \in PlainType
SizedOf(s) == \E f : SealOf(f) /\ \E fits \in BOOLEAN : s = [f EXCEPT !.container = fits]

FilesInv ==
  /\ file \in FileType /\ edits \in 0 .. MaxWrites
  /\ IsFiniteSet(seals) /\ \A s \in seals : SizedOf(s)
  /\ ("enc" \in DOMAIN file.entries /\ file.entries.enc.intact) =>
       \E s \in seals : Vault \subseteq DOMAIN s.entries /\ s.entries.enc = file.entries.enc

Taped(f) == VerifyReport(f).replayability = "taped-replay"

\* What the second half of unlock_archive came to, of the archive it read.
Opened(f) == ~Refused(f) /\ ~Raises(f) /\ Opens(f)
UnlockedAs(f) ==
  LET first == VerifyReport(verified)
      plain == f.entries.enc.plain
  IN  \/ records = {} /\ ~rep.ok /\ rep.semantic = "failed" /\ (Opened(f) => plain.flaw # None)
      \/ Opened(f) /\ plain.flaw = "shape" /\ records = {} /\ rep = [first EXCEPT !.semantic = "failed"]
      \/ /\ Opened(f) /\ plain.flaw = None /\ records = plain.evidence
         /\ rep = IF Uncovered(f.entries.events, records) = {}
                  THEN [first EXCEPT !.semantic = "passed"] ELSE Failed(first)

ReaderInv ==
  /\ reader \in {"idle", "reread", "done"} /\ rep \in ReportType
  /\ records \subseteq Evidence
  /\ asked \in Passphrases \union {None, Empty}
  /\ reader = "idle" => records = {} /\ rep.semantic = "not-evaluated"
  /\ reader # "idle" => verified \in FileType
  /\ reader = "reread" => /\ records = {} /\ asked # None
                          /\ rep = VerifyReport(verified) /\ Taped(verified)
  /\ reader = "done" /\ asked = None => rep = VerifyReport(verified) /\ records = {}
  /\ reader = "done" /\ asked # None /\ ~Taped(verified) =>
       rep = Failed(VerifyReport(verified)) /\ records = {}
  /\ reader = "done" /\ asked # None /\ Taped(verified) =>
       /\ used = file /\ UnlockedAs(used)
       /\ rep.ok => VerifyReport(verified).ok
       /\ rep.integrity = "passed" => VerifyReport(verified).integrity = "passed"

ArchiveInv == FilesInv /\ ReaderInv

-----------------------------------------------------------------------------
(* A mapping of entry names to their contents, and back.                     *)
LEMMA EntryMapsIntro ==
  ASSUME NEW D \in SUBSET EntryNames, NEW e, e = [n \in D |-> e[n]],
         \A n \in D : e[n] \in ContentOf(n)
  PROVE  e \in EntryMaps /\ DOMAIN e = D
<1>1. DOMAIN e = D
  OBVIOUS
<1>2. e \in [D -> UNION {ContentOf(n) : n \in EntryNames}]
  OBVIOUS
<1> QED
  BY <1>1, <1>2 DEF EntryMaps

LEMMA EntryMapsElim ==
  ASSUME NEW e \in EntryMaps
  PROVE  /\ DOMAIN e \subseteq EntryNames /\ e = [n \in DOMAIN e |-> e[n]]
         /\ \A n \in DOMAIN e : e[n] \in ContentOf(n)
BY DEF EntryMaps

(* What the recorder seals: the public entries, and a vault where there is a *)
(* passphrase.                                                               *)
LEMMA SealedNames ==
  ASSUME NEW t, NEW pass, NEW needs, NEW lines, NEW plain
  PROVE  DOMAIN Sealed(t, pass, needs, lines, plain).entries =
           Required \union {"summary"} \union (IF pass = None THEN {} ELSE Vault)
<1> DEFINE m == Manifest(t, pass # None)
           e == Events(t, needs, lines)
           public == [manifest |-> m, graph |-> Graph, events |-> e, summary |-> [of |-> e, flaw |-> None]]
           vault == IF pass = None THEN <<>> ELSE VaultEntries(m, e, pass, plain)
<1>1. Sealed(t, pass, needs, lines, plain).entries = Joined(public, vault)
  BY DEF Sealed, Indexed
<1>2. DOMAIN public = Required \union {"summary"}
  BY DEF Required
<1>3. DOMAIN vault = IF pass = None THEN {} ELSE Vault
  BY DEF VaultEntries, Vault
<1> HIDE DEF public, vault
<1>4. DOMAIN Joined(public, vault) = DOMAIN public \union DOMAIN vault
  BY DEF Joined
<1> QED
  BY <1>1, <1>2, <1>3, <1>4

SealedAs(s, t, pass, needs, lines, plain) ==
  LET m == Manifest(t, pass # None)
      e == Events(t, needs, lines)
  IN  /\ s = Indexed(s.entries)
      /\ DOMAIN s.entries = Required \union {"summary"} \union (IF pass = None THEN {} ELSE Vault)
      /\ s.entries = [n \in DOMAIN s.entries |-> s.entries[n]]
      /\ s.entries.manifest = m /\ s.entries.graph = Graph /\ s.entries.events = e
      /\ s.entries.summary = [of |-> e, flaw |-> None]
      /\ pass # None => s.entries.enc = VaultEntries(m, e, pass, plain).enc
                        /\ s.entries.meta = VaultEntries(m, e, pass, plain).meta

LEMMA SealedEntries ==
  ASSUME NEW t \in Traces, NEW pass \in Passphrases \union {None}, NEW needs \in SUBSET Needs,
         NEW lines \in Lines, NEW plain, pass # None => plain \in PlainType
  PROVE  SealedAs(Sealed(t, pass, needs, lines, plain), t, pass, needs, lines, plain)
<1> SUFFICES LET s == Sealed(t, pass, needs, lines, plain)
                 m == Manifest(t, pass # None)
                 e == Events(t, needs, lines)
             IN  /\ s = Indexed(s.entries)
                 /\ DOMAIN s.entries = Required \union {"summary"} \union (IF pass = None THEN {} ELSE Vault)
                 /\ s.entries = [n \in DOMAIN s.entries |-> s.entries[n]]
                 /\ s.entries.manifest = m /\ s.entries.graph = Graph /\ s.entries.events = e
                 /\ s.entries.summary = [of |-> e, flaw |-> None]
                 /\ pass # None => s.entries.enc = VaultEntries(m, e, pass, plain).enc
                                   /\ s.entries.meta = VaultEntries(m, e, pass, plain).meta
  BY DEF SealedAs
<1> DEFINE m == Manifest(t, pass # None)
           e == Events(t, needs, lines)
           public == [manifest |-> m, graph |-> Graph, events |-> e, summary |-> [of |-> e, flaw |-> None]]
           vault == IF pass = None THEN <<>> ELSE VaultEntries(m, e, pass, plain)
           entries == Joined(public, vault)
<1>1. Sealed(t, pass, needs, lines, plain) = Indexed(entries)
  BY DEF Sealed
<1>2. entries = [n \in DOMAIN public \union DOMAIN vault |-> IF n \in DOMAIN public THEN public[n] ELSE vault[n]]
  BY DEF Joined
<1>3. CASE pass = None
  <2>1. DOMAIN vault = {}
    BY <1>3
  <2> QED
    BY <1>1, <1>2, <1>3, <2>1 DEF Indexed, Required, Vault
<1>4. CASE pass # None
  <2> DEFINE sealed == VaultEntries(m, e, pass, plain)
  <2>1. vault = sealed /\ DOMAIN sealed = Vault
    BY <1>4 DEF VaultEntries, Vault
  <2>2. DOMAIN public = Required \union {"summary"}
    BY DEF Required
  <2>3. entries = [n \in Required \union {"summary"} \union Vault |->
                     IF n \in Required \union {"summary"} THEN public[n] ELSE sealed[n]]
    BY <1>2, <2>1, <2>2
  <2>4. entries.enc = sealed.enc /\ entries.meta = sealed.meta
    <3> HIDE DEF sealed, public, entries
    <3> QED
      BY <2>3 DEF Vault, Required
  <2>5. /\ entries.manifest = m /\ entries.graph = Graph /\ entries.events = e
        /\ entries.summary = [of |-> e, flaw |-> None]
    <3> HIDE DEF sealed, entries, m, e
    <3> QED
      BY <2>3 DEF Vault, Required
  <2>6. Sealed(t, pass, needs, lines, plain).entries = entries
    BY <1>1 DEF Indexed
  <2> HIDE DEF sealed, public, entries, m, e
  <2>7. DOMAIN entries = Required \union {"summary"} \union Vault /\ entries = [n \in DOMAIN entries |-> entries[n]]
    BY <2>3
  <2> QED
    BY <1>1, <1>4, <2>4, <2>5, <2>6, <2>7 DEF sealed, m, e
<1> QED
  BY <1>3, <1>4

LEMMA SealedVault ==
  ASSUME NEW s, SealOf(s), "enc" \in DOMAIN s.entries
  PROVE  Vault \subseteq DOMAIN s.entries
<1>1. PICK t \in Traces, pass \in Passphrases \union {None}, needs \in SUBSET Needs, lines \in Lines,
         plain \in PlainType \union {None} :
         s = Sealed(t, pass, needs, lines, plain) /\ (pass # None => plain \in PlainType)
  BY DEF SealOf
<1> DEFINE names == Required \union {"summary"} \union (IF pass = None THEN {} ELSE Vault)
<1>2. DOMAIN Sealed(t, pass, needs, lines, plain).entries = names
  BY SealedNames
<1> QED
  BY <1>1, <1>2 DEF Required, Vault

LEMMA SealOfTyped ==
  ASSUME NEW s, SealOf(s)
  PROVE  /\ s \in FileType /\ s.container /\ s.flaw = None
         /\ s.index = s.entries /\ s.identity = s.entries
<1>1. PICK t \in Traces, pass \in Passphrases \union {None}, needs \in SUBSET Needs, lines \in Lines,
         plain \in PlainType \union {None} :
         s = Sealed(t, pass, needs, lines, plain) /\ (pass # None => plain \in PlainType)
  BY DEF SealOf
<1> DEFINE m == Manifest(t, pass # None)
           e == Events(t, needs, lines)
<1>2. m \in ManifestType /\ e \in EventsType /\ Graph \in GraphType
  BY DEF Manifest, Events, Lines, Graph, ManifestType, EventsType, GraphType
<1>3. Aad(m, Graph, e) \in AadType
  <2>1. m.trace \in Traces /\ m.ir \in {"ir", "other"}
    BY <1>2 DEF ManifestType
  <2> HIDE DEF m, e
  <2> QED
    BY <1>2, <2>1 DEF Aad, AadType
<1>4. [of |-> e, flaw |-> None] \in SummaryType
  BY <1>2 DEF SummaryType
<1>5. pass # None => VaultEntries(m, e, pass, plain).enc \in EncType /\ VaultEntries(m, e, pass, plain).meta \in MetaType
  <2> HIDE DEF m, e
  <2> QED
    BY <1>1, <1>3 DEF VaultEntries, EncType, MetaType
<1> HIDE DEF m, e
<1>. SealedAs(s, t, pass, needs, lines, plain)
  BY <1>1, SealedEntries
<1>6. /\ s = Indexed(s.entries)
      /\ DOMAIN s.entries = Required \union {"summary"} \union (IF pass = None THEN {} ELSE Vault)
      /\ s.entries = [n \in DOMAIN s.entries |-> s.entries[n]]
      /\ s.entries.manifest = m /\ s.entries.graph = Graph /\ s.entries.events = e
      /\ s.entries.summary = [of |-> e, flaw |-> None]
      /\ pass # None => s.entries.enc = VaultEntries(m, e, pass, plain).enc
                        /\ s.entries.meta = VaultEntries(m, e, pass, plain).meta
  BY DEF SealedAs, m, e
<1>7. DOMAIN s.entries \in SUBSET EntryNames /\ \A n \in DOMAIN s.entries : s.entries[n] \in ContentOf(n)
  BY <1>2, <1>4, <1>5, <1>6 DEF EntryNames, Required, Vault, ContentOf
<1>8. s.entries \in EntryMaps
  BY <1>6, <1>7, EntryMapsIntro
<1>9. \A x \in EntryMaps : Indexed(x) \in FileType /\ Indexed(x).container /\ Indexed(x).flaw = None
                           /\ Indexed(x).index = x /\ Indexed(x).identity = x
  BY DEF Indexed, FileType
<1> QED
  BY <1>6, <1>8, <1>9

(* Whatever its size, it has the entries and the index it was sealed with.   *)
LEMMA SizedTyped ==
  ASSUME NEW s, SizedOf(s)
  PROVE  /\ s \in FileType /\ s.flaw = None /\ s.index = s.entries /\ s.identity = s.entries
         /\ \E f : SealOf(f) /\ s.entries = f.entries
<1>1. PICK f : SealOf(f) /\ \E fits \in BOOLEAN : s = [f EXCEPT !.container = fits]
  BY DEF SizedOf
<1>2. f \in FileType /\ f.flaw = None /\ f.index = f.entries /\ f.identity = f.entries
  BY <1>1, SealOfTyped
<1>3. PICK fits \in BOOLEAN : s = [f EXCEPT !.container = fits]
  BY <1>1
<1>4. s \in FileType /\ s.flaw = f.flaw /\ s.entries = f.entries /\ s.index = f.index /\ s.identity = f.identity
  BY <1>2, <1>3 DEF FileType
<1> QED
  BY <1>1, <1>2, <1>4

-----------------------------------------------------------------------------
(* What verify_archive reports.                                              *)

(* A report of an archive is well formed and gives no semantic verdict.      *)
LEMMA ReportTyped ==
  ASSUME NEW f
  PROVE  VerifyReport(f) \in ReportType /\ VerifyReport(f).semantic = "not-evaluated"
BY DEF VerifyReport, Report, ReportType

(* Where no entry differs from the index and the index from its identity,    *)
(* the three are the same.                                                   *)
LEMMA PassIntact ==
  ASSUME NEW f \in FileType, VerifyReport(f).ok \/ VerifyReport(f).integrity = "passed"
  PROVE  f.index = f.entries /\ f.identity = f.entries
<1>1. ~Unreadable(f)
  BY DEF VerifyReport, Report
<1>2. \A n : \A says \in {"hash", "identity", "listed", "unlisted"} : Error(says, n) \notin Errors(f)
  <2>1. ~\E e \in Errors(f) : IntegrityError(e)
    BY <1>1 DEF VerifyReport, Report
  <2>2. \A n : \A says \in {"hash", "identity", "listed", "unlisted"} : IntegrityError(Error(says, n))
    BY DEF IntegrityError, Error
  <2> QED
    BY <2>1, <2>2
<1>3. f.index = f.identity
  <2>1. f.index # f.identity => Error("identity", "index") \in Errors(f)
    BY DEF Errors, IdentityErrors, When
  <2> QED
    BY <1>2, <2>1
<1>4. DOMAIN f.entries \subseteq DOMAIN f.index
  <2>1. \A n \in DOMAIN f.entries \ DOMAIN f.index : Error("unlisted", n) \in Errors(f)
    BY DEF Errors, MembershipErrors
  <2> QED
    BY <1>2, <2>1
<1>5. DOMAIN f.index \subseteq DOMAIN f.entries
  <2>1. \A n \in DOMAIN f.index \ DOMAIN f.entries : Error("listed", n) \in Errors(f)
    BY DEF Errors, MembershipErrors
  <2> QED
    BY <1>2, <2>1
<1>6. \A n \in DOMAIN f.entries : f.index[n] = f.entries[n]
  <2>1. \A n \in DOMAIN f.entries \intersect DOMAIN f.index :
          f.index[n] # f.entries[n] => Error("hash", n) \in Errors(f)
    BY DEF Errors, IndexErrors
  <2> QED
    BY <1>2, <1>4, <2>1
<1>7. f.entries \in EntryMaps /\ f.index \in EntryMaps
  BY DEF FileType
<1>8. f.entries = [n \in DOMAIN f.entries |-> f.entries[n]] /\ f.index = [n \in DOMAIN f.index |-> f.index[n]]
  BY <1>7, EntryMapsElim
<1> QED
  BY <1>3, <1>4, <1>5, <1>6, <1>8

(* What passes keeps the promise of its profile.                             *)
LEMMA PassKeepsProfile ==
  ASSUME NEW f \in FileType, VerifyReport(f).ok
  PROVE  LET vault == Vault \intersect DOMAIN f.entries
             m == f.entries.manifest
         IN  /\ vault \in {{}, Vault} /\ (vault = Vault) = m.vault
             /\ m.profile = "publication" => vault = {}
             /\ m.profile = "replay" => vault = Vault
<1>1. ~Unreadable(f) /\ VaultErrors(f) = {}
  BY DEF VerifyReport, Report, Errors
<1> DEFINE m == f.entries.manifest
           enc == "enc" \in DOMAIN f.entries
           meta == "meta" \in DOMAIN f.entries
           has == Vault \subseteq DOMAIN f.entries
<1>2. m.vault \in BOOLEAN
  <2>1. "manifest" \in DOMAIN f.entries /\ f.entries \in EntryMaps
    BY <1>1 DEF Unreadable, Required, FileType
  <2>2. f.entries["manifest"] \in ContentOf("manifest")
    BY <2>1, EntryMapsElim
  <2> QED
    BY <2>2 DEF ContentOf, ManifestType
<1>3. m.flaw # "unparsable" /\ enc = meta /\ has = m.vault
      /\ (m.profile = "replay" => has) /\ (m.profile = "publication" => ~has)
  BY <1>1, <1>2 DEF VaultErrors, When
<1>4. has <=> enc /\ meta
  BY DEF Vault
<1> QED
  BY <1>3, <1>4 DEF Vault

(* An archive that is as some run left it, but for its summary, has nothing  *)
(* wrong.                                                                    *)
LEMMA CleanPasses ==
  ASSUME NEW f, f.container, f.flaw = None, f.index = f.entries, f.identity = f.entries,
         NEW t, NEW needs, NEW vault \in BOOLEAN, Required \subseteq DOMAIN f.entries,
         f.entries.manifest = Manifest(t, vault), f.entries.graph = Graph,
         f.entries.events = Events(t, needs, None),
         ("enc" \in DOMAIN f.entries) = vault, ("meta" \in DOMAIN f.entries) = vault,
         "summary" \in DOMAIN f.entries => f.entries.summary.flaw # "unsafe"
  PROVE  VerifyReport(f) =
           Report(TRUE, "passed", "passed", "not-evaluated",
                  IF vault THEN "taped-replay" ELSE "playback-only", SummaryWarnings(f) # {})
<1> DEFINE m == f.entries.manifest
           e == f.entries.events
<1>1. m.trace = t /\ m.flaw = None /\ m.vault = vault /\ m.profile = IF vault THEN "replay" ELSE "audit"
  BY DEF Manifest
<1>2. e.trace = t /\ e.flaw = None /\ e.nodes = "drawn"
  BY DEF Events
<1>3. f.entries.graph.flaw = None /\ f.entries.graph.nodes = "drawn"
  BY DEF Graph
<1>4. ~Unreadable(f)
  BY DEF Unreadable, None
<1>5. IndexErrors(f) = {} /\ IdentityErrors(f) = {} /\ MembershipErrors(f) = {}
  BY DEF IndexErrors, IdentityErrors, MembershipErrors, When, None
<1>6. CountErrors(f) = {} /\ EventErrors(e, m) = {}
  BY <1>1, <1>2 DEF CountErrors, EventErrors, EventShapeErrors, When, None
<1>7. ManifestErrors(m) = {} /\ GraphErrors(f.entries.graph) = {}
  BY <1>1, <1>3 DEF ManifestErrors, GraphErrors, When, None
<1>8. UnsafeErrors(f) = {}
  BY <1>1, <1>3 DEF UnsafeErrors, When, None
<1>9. (Vault \subseteq DOMAIN f.entries) <=> vault
  BY DEF Vault
<1>10. VaultErrors(f) = {}
  BY <1>1, <1>9 DEF VaultErrors, When, None
<1>11. StructuralNotes(f) = {}
  BY <1>2, <1>3 DEF StructuralNotes, When
<1>12. Errors(f) = {}
  BY <1>5, <1>6, <1>7, <1>8, <1>10 DEF Errors
<1>13. "extra" \notin {m.flaw, e.flaw}
  BY <1>1, <1>2 DEF None
<1> HIDE DEF m, e
<1> QED
  BY <1>4, <1>9, <1>11, <1>12, <1>13 DEF VerifyReport, m, e

-----------------------------------------------------------------------------
(* An edit changes an entry to one with the same fields.                     *)
LEMMA AadTyped ==
  ASSUME NEW e \in EntryMaps, Required \subseteq DOMAIN e
  PROVE  Aad(e.manifest, e.graph, e.events) \in AadType
<1>1. e["manifest"] \in ManifestType /\ e["graph"] \in GraphType /\ e["events"] \in EventsType
  <2>1. \A n \in Required : e[n] \in ContentOf(n)
    BY EntryMapsElim
  <2> QED
    BY <2>1 DEF Required, ContentOf
<1> DEFINE m == e.manifest
<1>2. m.trace \in Traces /\ m.ir \in {"ir", "other"}
  BY <1>1 DEF ManifestType
<1> HIDE DEF m
<1>3. Aad(m, e.graph, e.events) \in AadType
  BY <1>1, <1>2 DEF Aad, AadType, m
<1> QED
  BY <1>3 DEF m

LEMMA FlawedTyped ==
  ASSUME NEW c, NEW flaws, NEW d \in Flawed(c, flaws)
  PROVE  \E x \in flaws : d = [c EXCEPT !.flaw = x]
BY DEF Flawed

LEMMA VariantsTyped ==
  ASSUME NEW e \in EntryMaps, NEW n \in DOMAIN e, NEW d \in Variants(n, e[n], e)
  PROVE  d \in ContentOf(n) /\ (n = "enc" => ~d.intact)
<1> DEFINE c == e[n]
<1>0. n \in EntryNames /\ c \in ContentOf(n)
  BY EntryMapsElim
<1>1. CASE n = "manifest"
  <2>1. c \in ManifestType
    BY <1>0, <1>1 DEF ContentOf
  <2>2. \/ d \in Flawed(c, {"unparsable", "fields", "unsafe", "extra"})
        \/ \E p \in {"audit", "replay", "publication", "other"} : d = [c EXCEPT !.profile = p]
        \/ \E t \in Traces : d = [c EXCEPT !.trace = t]
        \/ d = [c EXCEPT !.vault = ~c.vault] \/ d = [c EXCEPT !.ir = "other"]
    BY <1>1 DEF Variants
  <2>3. d \in ManifestType
    <3> HIDE DEF c
    <3>1. d \in Flawed(c, {"unparsable", "fields", "unsafe", "extra"}) => d \in ManifestType
      BY <2>1, FlawedTyped DEF ManifestType
    <3>2. c.vault \in BOOLEAN
      BY <2>1 DEF ManifestType
    <3>3. d = [c EXCEPT !.vault = ~c.vault] => d \in ManifestType
      BY <2>1, <3>2 DEF ManifestType
    <3>4. (\E p \in {"audit", "replay", "publication", "other"} : d = [c EXCEPT !.profile = p])
            => d \in ManifestType
      BY <2>1 DEF ManifestType
    <3>5. (d = [c EXCEPT !.ir = "other"] \/ \E t \in Traces : d = [c EXCEPT !.trace = t])
            => d \in ManifestType
      BY <2>1 DEF ManifestType
    <3> QED
      BY <2>2, <3>1, <3>3, <3>4, <3>5
  <2> QED
    BY <1>1, <2>3 DEF ContentOf
<1>2. CASE n = "graph"
  <2>1. c \in GraphType
    BY <1>0, <1>2 DEF ContentOf
  <2>2. d \in Flawed(c, {"unparsable", "fields", "unsafe"}) \/ d = [c EXCEPT !.nodes = "other"]
    BY <1>2 DEF Variants
  <2>3. d \in GraphType
    <3> HIDE DEF c
    <3> QED
      BY <2>1, <2>2, FlawedTyped DEF GraphType
  <2> QED
    BY <1>2, <2>3 DEF ContentOf
<1>3. CASE n = "events"
  <2>1. c \in EventsType
    BY <1>0, <1>3 DEF ContentOf
  <2>2. \/ d \in Flawed(c, {"unparsable", "shape", "unsafe", "many", "extra"})
        \/ \E t \in Traces : d = [c EXCEPT !.trace = t]
        \/ d = [c EXCEPT !.needs = {}] \/ d = [c EXCEPT !.nodes = "other"]
    BY <1>3 DEF Variants
  <2>3. d \in EventsType
    <3> HIDE DEF c
    <3> QED
      BY <2>1, <2>2, FlawedTyped DEF EventsType
  <2> QED
    BY <1>3, <2>3 DEF ContentOf
<1>4. CASE n = "summary"
  <2>1. c \in SummaryType
    BY <1>0, <1>4 DEF ContentOf
  <2>2. d \in Flawed(c, {"unparsable", "unsafe"}) \/ d = [c EXCEPT !.of.nodes = "other"]
    BY <1>4 DEF Variants
  <2>3. d \in SummaryType
    <3>1. c.of \in EventsType
      BY <2>1 DEF SummaryType
    <3>2. [c.of EXCEPT !.nodes = "other"] \in EventsType
      BY <3>1 DEF EventsType
    <3> HIDE DEF c
    <3> QED
      BY <2>1, <2>2, <3>2, FlawedTyped DEF SummaryType
  <2> QED
    BY <1>4, <2>3 DEF ContentOf
<1>5. CASE n = "enc"
  <2>1. c \in EncType
    BY <1>0, <1>5 DEF ContentOf
  <2>2. d = [c EXCEPT !.intact = FALSE]
    BY <1>5 DEF Variants
  <2>3. d \in EncType /\ ~d.intact
    <3> HIDE DEF c
    <3> QED
      BY <2>1, <2>2 DEF EncType
  <2> QED
    BY <1>5, <2>3 DEF ContentOf
<1>6. CASE n = "meta"
  <2>1. c \in MetaType
    BY <1>0, <1>6 DEF ContentOf
  <2>2. \/ d \in Flawed(c, {"unparsable", "codec", "salt", "saltless"})
        \/ Required \subseteq DOMAIN e /\ d = [c EXCEPT !.aad = Aad(e.manifest, e.graph, e.events)]
    <3>1. \/ d \in Flawed(c, {"unparsable", "codec", "salt", "saltless"})
          \/ d \in IF Required \subseteq DOMAIN e
                   THEN {[c EXCEPT !.aad = Aad(e.manifest, e.graph, e.events)]} ELSE {}
      BY <1>6 DEF Variants
    <3> QED
      BY <3>1
  <2>3. d \in MetaType
    <3> HIDE DEF c
    <3>1. d \in Flawed(c, {"unparsable", "codec", "salt", "saltless"}) => d \in MetaType
      BY <2>1, FlawedTyped DEF MetaType
    <3>2. \A x \in AadType : [c EXCEPT !.aad = x] \in MetaType
      BY <2>1 DEF MetaType
    <3> QED
      BY <2>2, <3>1, <3>2, AadTyped
  <2> QED
    BY <1>6, <2>3 DEF ContentOf
<1> QED
  BY <1>0, <1>1, <1>2, <1>3, <1>4, <1>5, <1>6 DEF EntryNames, Required, Vault

LEMMA EntryMapsPut ==
  ASSUME NEW e \in EntryMaps, NEW n \in DOMAIN e, NEW c \in ContentOf(n)
  PROVE  /\ [e EXCEPT ![n] = c] \in EntryMaps /\ DOMAIN [e EXCEPT ![n] = c] = DOMAIN e
         /\ [e EXCEPT ![n] = c][n] = c
         /\ \A x \in DOMAIN e : x # n => [e EXCEPT ![n] = c][x] = e[x]
<1> DEFINE d == [e EXCEPT ![n] = c]
<1>1. d = [x \in DOMAIN e |-> IF x = n THEN c ELSE e[x]]
  BY EntryMapsElim
<1> HIDE DEF d
<1>2. DOMAIN e \in SUBSET EntryNames /\ \A x \in DOMAIN e : e[x] \in ContentOf(x)
  BY EntryMapsElim
<1>3. d \in EntryMaps
  BY <1>1, <1>2, EntryMapsIntro
<1> QED
  BY <1>1, <1>3 DEF d

LEMMA EntryMapsPick ==
  ASSUME NEW e \in EntryMaps, NEW S \in SUBSET DOMAIN e
  PROVE  Pick(e, S) \in EntryMaps /\ DOMAIN Pick(e, S) = S /\ \A x \in S : Pick(e, S)[x] = e[x]
<1>1. S \in SUBSET EntryNames /\ \A x \in S : Pick(e, S)[x] \in ContentOf(x)
  BY EntryMapsElim DEF Pick
<1> QED
  BY <1>1, EntryMapsIntro DEF Pick

LEMMA EditTyped ==
  ASSUME FilesInv, NEW f \in FileType, NEW reindex \in BOOLEAN, Edit(f, reindex)
  PROVE  /\ file' \in FileType /\ file'.entries = f.entries /\ edits' \in 0 .. MaxWrites
         /\ UNCHANGED <<seals, readerVars>> /\ reader # "done"
<1>1. file' = IF reindex THEN [f EXCEPT !.index = f.entries, !.identity = f.entries] ELSE f
  BY DEF Edit
<1>2. file' \in FileType /\ file'.entries = f.entries
  BY <1>1 DEF FileType
<1>3. edits' \in 0 .. MaxWrites
  <2>1. Cardinality(seals) \in Nat /\ edits \in Nat /\ MaxWrites \in Nat
    <3>1. IsFiniteSet(seals) /\ edits \in 0 .. MaxWrites /\ MaxWrites \in Nat
      BY ArchiveAssumption DEF FilesInv, ArchiveAssumption
    <3>2. Cardinality(seals) \in Nat
      BY <3>1, FS_CardinalityType
    <3> QED
      BY <3>1, <3>2
  <2>2. Cardinality(seals) + edits < MaxWrites /\ edits' = edits + 1
    BY DEF Edit
  <2> QED
    BY <2>1, <2>2
<1> QED
  BY <1>2, <1>3 DEF Edit

LEMMA EditKeepsFiles ==
  ASSUME FilesInv, NEW n \in EntryNames,
         (\E reindex \in BOOLEAN : EditEntry(n, reindex) \/ DropEntry(n, reindex)) \/ EditIndex(n)
  PROVE  FilesInv' /\ UNCHANGED readerVars /\ reader # "done"
<1>1. file \in FileType /\ file.entries \in EntryMaps /\ file.index \in EntryMaps
  BY DEF FilesInv, FileType
<1> DEFINE Sealed1(e) == \E s \in seals : Vault \subseteq DOMAIN s.entries /\ s.entries.enc = e
<1> SUFFICES ASSUME NEW f \in FileType, NEW reindex \in BOOLEAN, Edit(f, reindex),
                    ("enc" \in DOMAIN f.entries /\ f.entries.enc.intact) => Sealed1(f.entries.enc)
             PROVE  FilesInv' /\ UNCHANGED readerVars /\ reader # "done"
  <2>1. ASSUME NEW reindex \in BOOLEAN, EditEntry(n, reindex)
        PROVE  \E f \in FileType :
                 /\ Edit(f, reindex)
                 /\ ("enc" \in DOMAIN f.entries /\ f.entries.enc.intact) => Sealed1(f.entries.enc)
    <3>1. n \in DOMAIN file.entries
      BY <2>1 DEF EditEntry
    <3>2. PICK c \in Variants(n, file.entries[n], file.entries) :
            Edit([file EXCEPT !.entries[n] = c], reindex)
      BY <2>1 DEF EditEntry
    <3>3. c \in ContentOf(n) /\ (n = "enc" => ~c.intact)
      BY <1>1, <3>1, VariantsTyped
    <3> DEFINE e == [file.entries EXCEPT ![n] = c]
               f == [file EXCEPT !.entries = e]
    <3>4. /\ e \in EntryMaps /\ DOMAIN e = DOMAIN file.entries /\ e[n] = c
          /\ \A x \in DOMAIN e : x # n => e[x] = file.entries[x]
      BY <1>1, <3>1, <3>3, EntryMapsPut
    <3>5. f = [file EXCEPT !.entries[n] = c]
      BY <1>1 DEF FileType
    <3> HIDE DEF e
    <3>6. f \in FileType /\ f.entries = e
      BY <1>1, <3>4 DEF FileType
    <3>7. ("enc" \in DOMAIN e /\ e.enc.intact) => Sealed1(e.enc)
      BY <3>3, <3>4 DEF FilesInv
    <3> HIDE DEF f, Sealed1
    <3> QED
      BY <3>2, <3>5, <3>6, <3>7
  <2>2. ASSUME NEW reindex \in BOOLEAN, DropEntry(n, reindex)
        PROVE  \E f \in FileType :
                 /\ Edit(f, reindex)
                 /\ ("enc" \in DOMAIN f.entries /\ f.entries.enc.intact) => Sealed1(f.entries.enc)
    <3> DEFINE e == Pick(file.entries, DOMAIN file.entries \ {n})
               f == [file EXCEPT !.entries = e]
    <3>1. /\ e \in EntryMaps /\ DOMAIN e \subseteq DOMAIN file.entries
          /\ \A x \in DOMAIN e : e[x] = file.entries[x]
      BY <1>1, EntryMapsPick
    <3>2. Edit(f, reindex)
      BY <2>2 DEF DropEntry
    <3> HIDE DEF e
    <3>3. f \in FileType /\ f.entries = e
      BY <1>1, <3>1 DEF FileType
    <3>4. ("enc" \in DOMAIN e /\ e.enc.intact) => Sealed1(e.enc)
      BY <3>1 DEF FilesInv
    <3> HIDE DEF f, Sealed1
    <3> QED
      BY <3>2, <3>3, <3>4
  <2>3. ASSUME EditIndex(n)
        PROVE  \E f \in FileType :
                 /\ Edit(f, FALSE)
                 /\ ("enc" \in DOMAIN f.entries /\ f.entries.enc.intact) => Sealed1(f.entries.enc)
    <3>1. PICK f : /\ Edit(f, FALSE)
                   /\ \/ f = [file EXCEPT !.index = Pick(file.index, DOMAIN file.index \ {n})]
                      \/ \E flaw \in {"unparsable", "unsafe", "shape"} : f = [file EXCEPT !.flaw = flaw]
                      \/ f = [file EXCEPT !.container = FALSE]
      BY <2>3 DEF EditIndex
    <3>2. Pick(file.index, DOMAIN file.index \ {n}) \in EntryMaps
      BY <1>1, EntryMapsPick
    <3>3. f \in FileType /\ f.entries = file.entries
      BY <1>1, <3>1, <3>2 DEF FileType
    <3> QED
      BY <3>1, <3>3 DEF FilesInv
  <2> HIDE DEF Sealed1
  <2> QED
    BY <2>1, <2>2, <2>3
<1>2. /\ file' \in FileType /\ file'.entries = f.entries /\ edits' \in 0 .. MaxWrites
      /\ UNCHANGED <<seals, readerVars>> /\ reader # "done"
  BY EditTyped
<1> QED
  BY <1>2 DEF FilesInv

-----------------------------------------------------------------------------
LEMMA SealTyped ==
  ASSUME NEW t \in Traces, NEW f,
         \/ \E needs \in Ledgers, lines \in Lines : f = Sealed(t, None, needs, lines, None)
         \/ \E pass \in Passphrases, needs \in Ledgers, capture \in Captures, lines \in Lines :
              f = Sealed(t, pass, needs, lines, [evidence |-> Captured(capture, needs), flaw |-> None])
         \/ \E pass \in Passphrases, flaw \in {"unparsable", "shape"} :
              f = Sealed(t, pass, UNION Ledgers, None, [evidence |-> Evidence, flaw |-> flaw])
  PROVE  SealOf(f)
<1>1. \A needs \in Ledgers : needs \in SUBSET Needs
  BY ArchiveAssumption DEF ArchiveAssumption
<1>2. UNION Ledgers \in SUBSET Needs
  BY <1>1
<1>3. ASSUME NEW capture, NEW needs
      PROVE  [evidence |-> Captured(capture, needs), flaw |-> None] \in PlainType
  BY DEF Captured, PlainType
<1>4. \A flaw \in {"unparsable", "shape"} : [evidence |-> Evidence, flaw |-> flaw] \in PlainType
  BY DEF PlainType
<1>5. ASSUME NEW pass \in Passphrases \union {None}, NEW needs \in SUBSET Needs, NEW lines \in Lines,
             NEW plain \in PlainType \union {None}, pass # None => plain \in PlainType,
             f = Sealed(t, pass, needs, lines, plain)
      PROVE  SealOf(f)
  BY <1>5 DEF SealOf
<1>6. CASE \E needs \in Ledgers, lines \in Lines : f = Sealed(t, None, needs, lines, None)
  BY <1>1, <1>5, <1>6
<1>7. CASE \E pass \in Passphrases, needs \in Ledgers, capture \in Captures, lines \in Lines :
             f = Sealed(t, pass, needs, lines, [evidence |-> Captured(capture, needs), flaw |-> None])
  <2>1. PICK pass \in Passphrases, needs \in Ledgers, capture \in Captures, lines \in Lines :
          f = Sealed(t, pass, needs, lines, [evidence |-> Captured(capture, needs), flaw |-> None])
    BY <1>7
  <2>2. [evidence |-> Captured(capture, needs), flaw |-> None] \in PlainType
    BY <1>3
  <2> QED
    BY <1>1, <1>5, <2>1, <2>2
<1>8. CASE \E pass \in Passphrases, flaw \in {"unparsable", "shape"} :
             f = Sealed(t, pass, UNION Ledgers, None, [evidence |-> Evidence, flaw |-> flaw])
  <2>1. PICK pass \in Passphrases, flaw \in {"unparsable", "shape"} :
          f = Sealed(t, pass, UNION Ledgers, None, [evidence |-> Evidence, flaw |-> flaw])
    BY <1>8
  <2>2. [evidence |-> Evidence, flaw |-> flaw] \in PlainType /\ None \in Lines
    BY <1>4 DEF Lines
  <2> QED
    BY <1>2, <1>5, <2>1, <2>2
<1> QED
  BY <1>6, <1>7, <1>8

LEMMA WriteKeeps ==
  ASSUME FilesInv, NEW t, NEW f, SealOf(f), Write(t, f)
  PROVE  FilesInv' /\ UNCHANGED readerVars /\ reader # "done"
<1>1. PICK fits \in BOOLEAN :
        /\ file' = [f EXCEPT !.container = fits]
        /\ seals' = seals \union {[f EXCEPT !.container = fits]}
        /\ UNCHANGED <<edits, readerVars>> /\ reader # "done"
  BY DEF Write
<1> DEFINE sized == [f EXCEPT !.container = fits]
<1>2. sized \in FileType /\ sized.entries = f.entries
  BY SealOfTyped DEF FileType
<1>3. "enc" \in DOMAIN f.entries => Vault \subseteq DOMAIN f.entries
  BY SealedVault
<1>4. IsFiniteSet(seals') /\ \A s \in seals' : SizedOf(s)
  <2>1. SizedOf(sized)
    BY DEF SizedOf
  <2> HIDE DEF sized
  <2> QED
    BY <1>1, <2>1, FS_AddElement DEF FilesInv, sized
<1> HIDE DEF sized
<1>5. file' = sized /\ seals' = seals \union {sized} /\ edits' = edits
  BY <1>1 DEF sized
<1> QED
  BY <1>1, <1>2, <1>3, <1>4, <1>5 DEF FilesInv

LEMMA VerifyKeeps ==
  ASSUME ArchiveInv, NEW pass \in Passphrases \union {None, Empty}, Verify(pass)
  PROVE  ReaderInv' /\ UNCHANGED <<file, seals, edits>>
<1> DEFINE r == VerifyReport(file)
<1>1. r \in ReportType /\ r.semantic = "not-evaluated"
  BY ReportTyped
<1>2. Failed(r) \in ReportType
  <2> HIDE DEF r
  <2> QED
    BY <1>1 DEF Failed, ReportType
<1>3. /\ reader = "idle" /\ records' = {} /\ asked' = pass /\ verified' = file
      /\ UNCHANGED <<file, seals, edits, used>> /\ file \in FileType
      /\ \/ pass = None /\ reader' = "done" /\ rep' = r
         \/ pass # None /\ r.replayability # "taped-replay" /\ reader' = "done" /\ rep' = Failed(r)
         \/ pass # None /\ r.replayability = "taped-replay" /\ reader' = "reread" /\ rep' = r
  BY DEF Verify, Return, ArchiveInv, FilesInv
<1>4. VerifyReport(verified)' = r
  BY <1>3 DEF VerifyReport
<1> HIDE DEF r
<1> QED
  BY <1>1, <1>2, <1>3, <1>4 DEF ReaderInv, Taped, UnlockedAs

LEMMA UnlockKeeps ==
  ASSUME ArchiveInv, Unlock
  PROVE  ReaderInv' /\ UNCHANGED <<file, seals, edits>>
<1> DEFINE first == VerifyReport(verified)
<1>1. /\ reader = "reread" /\ reader' = "done" /\ used' = file
      /\ UNCHANGED <<file, seals, edits, asked, verified>>
      /\ rep = first /\ Taped(verified) /\ asked # None /\ asked \in Passphrases \union {None, Empty}
      /\ verified \in FileType
  BY DEF Unlock, ArchiveInv, ReaderInv
<1>2. first' = first /\ Taped(verified)' = Taped(verified) /\ Opened(file)' = Opened(file)
  BY <1>1 DEF VerifyReport, Taped, Opened, Refused, Raises, Opens
<1>3. first \in ReportType
  BY ReportTyped
<1>4. Failed(first) \in ReportType /\ ~Failed(first).ok /\ Failed(first).semantic = "failed"
      /\ Failed(first).integrity = first.integrity
  <2> HIDE DEF first
  <2> QED
    BY <1>3 DEF Failed, ReportType
<1>5. \A says \in {"passed", "failed"} :
        /\ [first EXCEPT !.semantic = says] \in ReportType
        /\ [first EXCEPT !.semantic = says].ok = first.ok
        /\ [first EXCEPT !.semantic = says].integrity = first.integrity
  <2> HIDE DEF first
  <2> QED
    BY <1>3 DEF ReportType
<1> DEFINE plain == file.entries.enc.plain
<1>6. Opened(file) => plain \in PlainType
  <2>1. file.entries \in EntryMaps
    BY DEF ArchiveInv, FilesInv, FileType
  <2>2. Opened(file) => file.entries["enc"] \in ContentOf("enc")
    BY <2>1, EntryMapsElim DEF Opened, Opens
  <2> QED
    BY <2>2 DEF ContentOf, EncType
<1> DEFINE fails == records' = {} /\ (rep' = Failed(first) \/ rep' = Report(FALSE, "failed", "failed", "failed", None, FALSE))
           shapeless == Opened(file) /\ plain.flaw = "shape" /\ records' = {} /\ rep' = [first EXCEPT !.semantic = "failed"]
           reads == /\ Opened(file) /\ plain.flaw = None /\ records' = plain.evidence
                    /\ rep' = IF Uncovered(file.entries.events, plain.evidence) = {}
                              THEN [first EXCEPT !.semantic = "passed"] ELSE Failed(first)
<1>7. (fails /\ (Opened(file) => plain.flaw # None)) \/ shapeless \/ reads
  <2> USE DEF None
  <2>1. CASE Refused(file)
    BY <1>1, <2>1 DEF Unlock, Return, Opened
  <2>2. CASE ~Refused(file) /\ Raises(file)
    BY <1>1, <2>2 DEF Unlock, Return, Opened
  <2>3. CASE ~Refused(file) /\ ~Raises(file)
    <3>1. ReadVault(file) /\ (Opens(file) <=> Opened(file))
      BY <2>3 DEF Unlock, Opened
    <3> QED
      BY <1>1, <3>1 DEF ReadVault, Return
  <2> QED
    BY <2>1, <2>2, <2>3
<1>8. UnlockedAs(used)' /\ rep' \in ReportType /\ records' \subseteq Evidence
      /\ (rep'.ok => first.ok) /\ (rep'.integrity = "passed" => first.integrity = "passed")
  <2> DEFINE failed == Report(FALSE, "failed", "failed", "failed", None, FALSE)
  <2>1. failed \in ReportType /\ ~failed.ok /\ failed.semantic = "failed" /\ failed.integrity = "failed"
    BY DEF Report, ReportType
  <2> HIDE DEF failed
  <2>2. CASE fails /\ (Opened(file) => plain.flaw # None)
    <3>1. records' = {} /\ ~rep'.ok /\ rep'.semantic = "failed" /\ rep' \in ReportType
          /\ (rep'.integrity = "passed" => first.integrity = "passed")
      <4> HIDE DEF first
      <4> QED
        BY <1>4, <2>1, <2>2 DEF failed
    <3>2. UnlockedAs(used)'
      BY <1>1, <1>2, <2>2, <3>1 DEF UnlockedAs
    <3> QED
      BY <3>1, <3>2
  <2>3. CASE shapeless
    <3>1. UnlockedAs(used)'
      BY <1>1, <1>2, <2>3 DEF UnlockedAs
    <3> HIDE DEF first
    <3> QED
      BY <1>5, <2>3, <3>1
  <2>4. CASE reads
    <3>1. UnlockedAs(used)'
      BY <1>1, <1>2, <2>4 DEF UnlockedAs
    <3>2. plain.evidence \subseteq Evidence
      BY <1>6, <2>4 DEF PlainType
    <3> HIDE DEF first, plain
    <3> QED
      BY <1>4, <1>5, <2>4, <3>1, <3>2
  <2> QED
    BY <1>7, <2>2, <2>3, <2>4
<1> QED
  BY <1>1, <1>2, <1>8 DEF ReaderInv

LEMMA InitArchiveInv == ArchiveInit => ArchiveInv
<1> SUFFICES ASSUME ArchiveInit PROVE ArchiveInv
  OBVIOUS
<1>1. <<>> \in EntryMaps
  <2>1. <<>> = [n \in {} |-> <<>>[n]]
    OBVIOUS
  <2> QED
    BY <2>1, EntryMapsIntro
<1>2. NoFile \in FileType /\ NoFile.entries = <<>>
  BY <1>1 DEF NoFile, FileType
<1>3. "enc" \notin DOMAIN <<>>
  OBVIOUS
<1>4. Report(FALSE, "failed", "failed", "not-evaluated", None, FALSE) \in ReportType
      /\ Report(FALSE, "failed", "failed", "not-evaluated", None, FALSE).semantic = "not-evaluated"
  BY DEF Report, ReportType
<1>5. FilesInv
  BY <1>2, <1>3, FS_EmptySet, ArchiveAssumption DEF ArchiveInit, FilesInv, ArchiveAssumption
<1>6. ReaderInv
  BY <1>4 DEF ArchiveInit, ReaderInv
<1> QED
  BY <1>5, <1>6 DEF ArchiveInv

LEMMA ReaderStays ==
  ASSUME ReaderInv, UNCHANGED readerVars, reader # "done" \/ UNCHANGED file
  PROVE  ReaderInv'
<1>1. UNCHANGED <<reader, asked, verified, used, rep, records>>
  BY DEF readerVars
<1>2. VerifyReport(verified)' = VerifyReport(verified) /\ Taped(verified)' = Taped(verified)
      /\ UnlockedAs(used)' = UnlockedAs(used)
  BY <1>1 DEF VerifyReport, Taped, UnlockedAs, Opened, Refused, Raises, Opens
<1> QED
  BY <1>1, <1>2 DEF ReaderInv

LEMMA NextArchiveInv == ArchiveInv /\ [ArchiveNext]_archiveVars => ArchiveInv'
<1> SUFFICES ASSUME ArchiveInv, [ArchiveNext]_archiveVars PROVE ArchiveInv'
  OBVIOUS
<1> USE DEF ArchiveInv
<1>1. ASSUME NEW t \in Traces, NEW f, SealOf(f), Write(t, f) PROVE ArchiveInv'
  BY <1>1, WriteKeeps, ReaderStays
<1>2. ASSUME NEW t \in Traces, NEW needs \in Ledgers,
             SealAudit(t, needs) \/ \E pass \in Passphrases : SealReplay(t, needs, pass)
      PROVE  ArchiveInv'
  BY <1>1, <1>2, SealTyped DEF SealAudit, SealReplay
<1>3. ASSUME NEW t \in Traces, NEW pass \in Passphrases, SealUnchecked(t, pass) PROVE ArchiveInv'
  BY <1>1, <1>3, SealTyped DEF SealUnchecked
<1>4. ASSUME NEW n \in Required \union Vault \union {"summary"},
             (\E reindex \in BOOLEAN : EditEntry(n, reindex) \/ DropEntry(n, reindex)) \/ EditIndex(n)
      PROVE  ArchiveInv'
  BY <1>4, EditKeepsFiles, ReaderStays DEF EntryNames
<1>5. ASSUME NEW pass \in Passphrases \union {None, Empty}, Verify(pass) PROVE ArchiveInv'
  <2>1. ReaderInv' /\ UNCHANGED <<file, seals, edits>>
    BY <1>5, VerifyKeeps
  <2> QED
    BY <2>1 DEF FilesInv
<1>6. CASE Unlock
  <2>1. ReaderInv' /\ UNCHANGED <<file, seals, edits>>
    BY <1>6, UnlockKeeps
  <2> QED
    BY <2>1 DEF FilesInv
<1>7. CASE UNCHANGED archiveVars
  <2>1. UNCHANGED readerVars /\ UNCHANGED <<file, seals, edits>>
    BY <1>7 DEF archiveVars, readerVars
  <2> QED
    BY <2>1, ReaderStays DEF FilesInv
<1> QED
  BY <1>2, <1>3, <1>4, <1>5, <1>6, <1>7 DEF ArchiveNext

LEMMA ArchiveInvariance == ArchiveSpec => []ArchiveInv
  BY InitArchiveInv, NextArchiveInv, PTL DEF ArchiveSpec

-----------------------------------------------------------------------------
(* Types are kept, and records come only out of an unlock.                   *)
LEMMA ArchiveTyped == ArchiveInv => ArchiveTypeOK
<1> SUFFICES ASSUME ArchiveInv PROVE ArchiveTypeOK
  OBVIOUS
<1>1. VerifyReport(verified) \in ReportType /\ VerifyReport(verified).semantic = "not-evaluated"
  BY ReportTyped
<1>2. records # {} \/ rep.semantic # "not-evaluated" => Unlocked
  BY <1>1 DEF ArchiveInv, ReaderInv, Unlocked, Done
<1> QED
  BY <1>2 DEF ArchiveInv, FilesInv, ReaderInv, ReportType, ArchiveTypeOK

(* The file is an archive or none, every seal is one a recorder can make, and  *)
(* verify_archive and unlock_archive answer in their own terms.               *)
THEOREM ArchiveTypeCorrect == ArchiveSpec => []ArchiveTypeOK
  BY ArchiveTyped, ArchiveInvariance, PTL

(* A report that passes, or whose level of integrity does, is no better than *)
(* that of the archive that was verified.                                    *)
LEMMA PassedWhenVerified ==
  ASSUME ArchiveInv, Done
  PROVE  /\ verified \in FileType
         /\ rep.ok => VerifyReport(verified).ok
         /\ rep.integrity = "passed" => VerifyReport(verified).integrity = "passed"
<1>1. VerifyReport(verified) \in ReportType
  BY ReportTyped
<1>2. ~Failed(VerifyReport(verified)).ok
      /\ Failed(VerifyReport(verified)).integrity = VerifyReport(verified).integrity
  BY <1>1 DEF Failed, ReportType
<1> QED
  BY <1>2 DEF ArchiveInv, ReaderInv, Done

(* An archive that passes agrees with its own index and identity and keeps   *)
(* the promise of its profile, for any number of archives, passphrases and   *)
(* edits.                                                                    *)
THEOREM PassTheorem == ArchiveSpec => []PassMeansIntact
<1>1. ArchiveInv => PassMeansIntact
  <2> SUFFICES ASSUME ArchiveInv, Done PROVE PassMeansIntact
    BY DEF PassMeansIntact, OkMeansIntact, ProfileHolds
  <2>1. OkMeansIntact
    BY PassedWhenVerified, PassIntact DEF OkMeansIntact
  <2>2. ProfileHolds
    <3> SUFFICES ASSUME rep.ok PROVE ProfileHolds
      BY DEF ProfileHolds
    <3>1. verified \in FileType /\ VerifyReport(verified).ok
      BY PassedWhenVerified
    <3> DEFINE vault == Vault \intersect DOMAIN verified.entries
               m == verified.entries.manifest
    <3>2. /\ vault \in {{}, Vault} /\ (vault = Vault) = m.vault
          /\ m.profile = "publication" => vault = {}
          /\ m.profile = "replay" => vault = Vault
      BY <3>1, PassKeepsProfile
    <3> QED
      BY <3>2 DEF ProfileHolds
  <2> QED
    BY <2>1, <2>2 DEF PassMeansIntact
<1> QED BY <1>1, ArchiveInvariance, PTL

(* The vault of a sealed archive is bound to the entries it was sealed with. *)
LEMMA SealedBinding ==
  ASSUME NEW s, SealOf(s)
  PROVE  \E t \in Traces, needs \in SUBSET Needs, lines \in Lines, vault \in BOOLEAN :
           LET e == s.entries
           IN  /\ DOMAIN e = Required \union {"summary"} \union (IF vault THEN Vault ELSE {})
               /\ e.manifest = Manifest(t, vault) /\ e.graph = Graph /\ e.events = Events(t, needs, lines)
               /\ e.summary = [of |-> e.events, flaw |-> None]
               /\ vault => /\ e.enc.pass \in Passphrases /\ e.enc.intact
                           /\ e.enc.aad = Aad(e.manifest, e.graph, e.events)
                           /\ e.meta = [aad |-> e.enc.aad, flaw |-> None]
<1>1. PICK t \in Traces, pass \in Passphrases \union {None}, needs \in SUBSET Needs, lines \in Lines,
         plain \in PlainType \union {None} :
         s = Sealed(t, pass, needs, lines, plain) /\ (pass # None => plain \in PlainType)
  BY DEF SealOf
<1> DEFINE m == Manifest(t, pass # None)
           v == Events(t, needs, lines)
<1> HIDE DEF m, v
<1>. SealedAs(s, t, pass, needs, lines, plain)
  BY <1>1, SealedEntries
<1>2. /\ s = Indexed(s.entries)
      /\ DOMAIN s.entries = Required \union {"summary"} \union (IF pass = None THEN {} ELSE Vault)
      /\ s.entries = [n \in DOMAIN s.entries |-> s.entries[n]]
      /\ s.entries.manifest = m /\ s.entries.graph = Graph /\ s.entries.events = v
      /\ s.entries.summary = [of |-> v, flaw |-> None]
      /\ pass # None => s.entries.enc = VaultEntries(m, v, pass, plain).enc
                        /\ s.entries.meta = VaultEntries(m, v, pass, plain).meta
  BY DEF SealedAs, m, v
<1>3. pass # None => /\ s.entries.enc.pass = pass /\ s.entries.enc.intact
                     /\ s.entries.enc.aad = Aad(m, Graph, v)
                     /\ s.entries.meta = [aad |-> Aad(m, Graph, v), flaw |-> None]
  BY <1>2 DEF VaultEntries
<1>4. CASE pass = None
  <2>1. m = Manifest(t, FALSE)
    BY <1>4 DEF m
  <2> DEFINE e == s.entries
  <2>2. /\ DOMAIN e = Required \union {"summary"} \union {}
        /\ e.manifest = Manifest(t, FALSE) /\ e.graph = Graph /\ e.events = Events(t, needs, lines)
        /\ e.summary = [of |-> e.events, flaw |-> None]
    BY <1>2, <1>4, <2>1 DEF v
  <2> HIDE DEF e
  <2>3. FALSE \in BOOLEAN /\ (IF FALSE THEN Vault ELSE {}) = {}
    OBVIOUS
  <2> QED
    BY <2>2, <2>3, Zenon DEF e
<1>5. CASE pass # None
  <2>1. m = Manifest(t, TRUE) /\ pass \in Passphrases
    BY <1>5 DEF m
  <2> DEFINE e == s.entries
  <2>2. /\ DOMAIN e = Required \union {"summary"} \union Vault
        /\ e.manifest = Manifest(t, TRUE) /\ e.graph = Graph /\ e.events = Events(t, needs, lines)
        /\ e.summary = [of |-> e.events, flaw |-> None]
    BY <1>2, <1>5, <2>1 DEF v
  <2>3. /\ e.enc.pass \in Passphrases /\ e.enc.intact
        /\ e.enc.aad = Aad(e.manifest, e.graph, e.events)
        /\ e.meta = [aad |-> e.enc.aad, flaw |-> None]
    BY <1>2, <1>3, <1>5, <2>1
  <2> HIDE DEF e
  <2>4. TRUE \in BOOLEAN /\ (IF TRUE THEN Vault ELSE {}) = Vault
    OBVIOUS
  <2> QED
    BY <2>2, <2>3, <2>4, Zenon DEF e
<1> QED
  BY <1>4, <1>5

LEMMA SizedBinding ==
  ASSUME NEW s, SizedOf(s)
  PROVE  \E t \in Traces, needs \in SUBSET Needs, lines \in Lines, vault \in BOOLEAN :
           LET e == s.entries
           IN  /\ DOMAIN e = Required \union {"summary"} \union (IF vault THEN Vault ELSE {})
               /\ e.manifest = Manifest(t, vault) /\ e.graph = Graph /\ e.events = Events(t, needs, lines)
               /\ e.summary = [of |-> e.events, flaw |-> None]
               /\ vault => /\ e.enc.pass \in Passphrases /\ e.enc.intact
                           /\ e.enc.aad = Aad(e.manifest, e.graph, e.events)
                           /\ e.meta = [aad |-> e.enc.aad, flaw |-> None]
<1>1. PICK f : SealOf(f) /\ s.entries = f.entries
  BY SizedTyped
<1> QED
  BY <1>1, SealedBinding

(* Records come out of a vault only next to the entries it was sealed with,  *)
(* and a pass means that they hold what the ledger needs: for any number of  *)
(* archives, whatever was written between the two reads.                     *)
THEOREM UnlockTheorem == ArchiveSpec => []UnlockIsSound
<1>1. ArchiveInv => UnlockIsSound
  <2> SUFFICES ASSUME ArchiveInv PROVE UnlockAuthentic /\ PassedIsComplete
    BY DEF UnlockIsSound
  <2> USE DEF ArchiveInv
  <2>1. VerifyReport(verified) \in ReportType /\ VerifyReport(verified).semantic = "not-evaluated"
    BY ReportTyped
  <2>2. ~Failed(VerifyReport(verified)).ok /\ Failed(VerifyReport(verified)).semantic = "failed"
    BY <2>1 DEF Failed, ReportType
  <2>3. records # {} => /\ asked # None /\ reader = "done" /\ used = file /\ Opened(used)
                        /\ records = used.entries.enc.plain.evidence
    BY DEF ReaderInv, UnlockedAs
  <2>4. UnlockAuthentic
    <3> SUFFICES ASSUME records # {}
                 PROVE  \E s \in seals :
                          /\ Vault \subseteq DOMAIN s.entries
                          /\ Pick(s.entries, Required) = Pick(used.entries, Required)
                          /\ s.entries.enc.pass = asked /\ s.entries.enc.plain.evidence = records
      BY DEF UnlockAuthentic
    <3> DEFINE u == used.entries
    <3>1. "enc" \in DOMAIN u /\ u.enc.intact /\ u.enc.pass = asked /\ u.enc.aad = Aad(u.manifest, u.graph, u.events)
      BY <2>3 DEF Opened, Opens, Decrypts
    <3>2. PICK s \in seals : Vault \subseteq DOMAIN s.entries /\ s.entries.enc = u.enc
      BY <2>3, <3>1 DEF FilesInv
    <3> DEFINE e == s.entries
    <3>3. e.enc.aad = Aad(e.manifest, e.graph, e.events)
      <4>1. SizedOf(s) /\ "enc" \in DOMAIN e
        BY <3>2 DEF FilesInv, Vault
      <4>2. PICK vault \in BOOLEAN :
              /\ DOMAIN e = Required \union {"summary"} \union (IF vault THEN Vault ELSE {})
              /\ vault => e.enc.aad = Aad(e.manifest, e.graph, e.events)
        BY <4>1, SizedBinding
      <4>3. vault
        BY <4>1, <4>2 DEF Required, Vault
      <4> QED
        BY <4>2, <4>3
    <3>4. e.manifest = u.manifest /\ e.graph = u.graph /\ e.events = u.events
      <4>1. Aad(e.manifest, e.graph, e.events) = Aad(u.manifest, u.graph, u.events)
        BY <3>1, <3>2, <3>3
      <4>2. \A a, b, c : Aad(a, b, c).manifest = a /\ Aad(a, b, c).graph = b /\ Aad(a, b, c).events = c
        BY DEF Aad
      <4> QED
        BY <4>1, <4>2
    <3>5. Pick(e, Required) = Pick(u, Required)
      BY <3>4 DEF Pick, Required
    <3> QED
      BY <2>3, <3>1, <3>2, <3>5
  <2>5. PassedIsComplete
    <3> DEFINE first == VerifyReport(verified)
    <3> SUFFICES ASSUME Unlocked, rep.semantic = "passed" \/ (rep.ok /\ records # {})
                 PROVE  Uncovered(used.entries.events, records) = {}
      BY DEF PassedIsComplete
    <3>1. Taped(verified)
      BY <2>2 DEF Unlocked, Done, ReaderInv
    <3>2. UnlockedAs(used)
      BY <3>1 DEF Unlocked, Done, ReaderInv
    <3>3. [first EXCEPT !.semantic = "failed"].semantic = "failed"
      <4> HIDE DEF first
      <4> QED
        BY <2>1 DEF first, ReportType
    <3>4. ~(rep = [first EXCEPT !.semantic = "failed"] /\ records = {})
      BY <3>3
    <3>5. rep # Failed(first)
      BY <2>2
    <3> QED
      BY <3>2, <3>4, <3>5 DEF UnlockedAs
  <2> QED
    BY <2>4, <2>5
<1> QED BY <1>1, ArchiveInvariance, PTL

(* What the recorder sealed, and what only lost or changed its summary, its  *)
(* own reader accepts.                                                       *)
LEMMA SealedPasses ==
  ASSUME ArchiveInv, Done, verified \in seals, verified.container, verified.entries.events.flaw = None
  PROVE  /\ VerifyReport(verified).ok /\ ~VerifyReport(verified).warned
         /\ VerifyReport(verified).integrity = "passed" /\ VerifyReport(verified).structural = "passed"
         /\ (VerifyReport(verified).replayability = "taped-replay") = (verified.entries.manifest.profile = "replay")
         /\ "enc" \in DOMAIN verified.entries => Taped(verified)
<1>1. SizedOf(verified)
  BY DEF ArchiveInv, FilesInv
<1>2. /\ verified.container /\ verified.flaw = None
      /\ verified.index = verified.entries /\ verified.identity = verified.entries
  BY <1>1, SizedTyped
<1> DEFINE e == verified.entries
<1>3. PICK t \in Traces, needs \in SUBSET Needs, lines \in Lines, vault \in BOOLEAN :
        /\ DOMAIN e = Required \union {"summary"} \union (IF vault THEN Vault ELSE {})
        /\ e.manifest = Manifest(t, vault) /\ e.graph = Graph /\ e.events = Events(t, needs, lines)
        /\ e.summary = [of |-> e.events, flaw |-> None]
  BY <1>1, SizedBinding
<1>. lines = None
  BY <1>3 DEF Events
<1>4. ("enc" \in DOMAIN e) = vault /\ ("meta" \in DOMAIN e) = vault /\ Required \subseteq DOMAIN e
  BY <1>3 DEF Required, Vault
<1>5. VerifyReport(verified) =
        Report(TRUE, "passed", "passed", "not-evaluated",
               IF vault THEN "taped-replay" ELSE "playback-only", SummaryWarnings(verified) # {})
  <2>1. e.summary.flaw # "unsafe"
    BY <1>3 DEF None
  <2> QED
    BY <1>2, <1>3, <1>4, <2>1, CleanPasses
<1>6. SummaryWarnings(verified) = {}
  <2>1. e.summary.of = e.events /\ e.summary.flaw = None /\ e.events.flaw = None
    BY <1>3 DEF Events
  <2> QED
    BY <2>1 DEF SummaryWarnings, When, None
<1>7. (e.manifest.profile = "replay") = vault
  BY <1>3 DEF Manifest
<1> DEFINE r == VerifyReport(verified)
<1>8. /\ r.ok /\ ~r.warned /\ r.integrity = "passed" /\ r.structural = "passed"
      /\ r.replayability = IF vault THEN "taped-replay" ELSE "playback-only"
  <2>1. (SummaryWarnings(verified) # {}) = FALSE
    BY <1>6
  <2>2. r = Report(TRUE, "passed", "passed", "not-evaluated",
                   IF vault THEN "taped-replay" ELSE "playback-only", FALSE)
    BY <1>5, <2>1, Zenon
  <2> HIDE DEF r
  <2> QED
    BY <2>2 DEF Report
<1> HIDE DEF r
<1>9. CASE vault
  <2>1. r.replayability = "taped-replay" /\ e.manifest.profile = "replay"
    BY <1>7, <1>8, <1>9
  <2> QED
    BY <1>8, <2>1 DEF r, Taped
<1>10. CASE ~vault
  <2>1. r.replayability # "taped-replay" /\ e.manifest.profile # "replay" /\ "enc" \notin DOMAIN e
    BY <1>4, <1>7, <1>8, <1>10
  <2> QED
    BY <1>8, <2>1 DEF r
<1> QED
  BY <1>9, <1>10

(* An archive that is too large, or whose ledger has a line the reader does  *)
(* not take, is refused, and nothing is read of its vault.                   *)
LEMMA RefusedFails ==
  ASSUME ArchiveInv, Done, verified \in seals,
         ~(verified.container /\ verified.entries.events.flaw = None)
  PROVE  ~rep.ok /\ rep.semantic # "passed" /\ records = {}
<1> DEFINE first == VerifyReport(verified)
           e == verified.entries.events
<1>1. /\ ~first.ok /\ first.semantic = "not-evaluated" /\ first.replayability = None
  <2>1. CASE Unreadable(verified)
    BY <2>1 DEF VerifyReport, Report
  <2>2. CASE ~Unreadable(verified)
    <3>1. verified.container
      BY <2>2 DEF Unreadable
    <3>2. e.flaw = "shape"
      <4>1. SizedOf(verified)
        BY DEF ArchiveInv, FilesInv
      <4>2. PICK t \in Traces, needs \in SUBSET Needs, lines \in Lines : e = Events(t, needs, lines)
        BY <4>1, SizedBinding
      <4> QED
        BY <3>1, <4>2 DEF Events, Lines
    <3>3. Error("shape", "events") \in EventShapeErrors(e)
      BY <3>2 DEF EventShapeErrors
    <3>4. Errors(verified) # {}
      BY <3>3 DEF Errors, EventErrors
    <3> QED
      BY <2>2, <3>4 DEF VerifyReport, Report
  <2> QED
    BY <2>1, <2>2
<1>2. first \in ReportType
  BY ReportTyped
<1>3. ~Failed(first).ok /\ Failed(first).semantic = "failed"
  <2> HIDE DEF first
  <2> QED
    BY <1>2 DEF ReportType, Failed
<1>4. ~Taped(verified)
  BY <1>1 DEF Taped, None
<1>5. (rep = first \/ rep = Failed(first)) /\ records = {}
  BY <1>4 DEF ArchiveInv, ReaderInv, Done
<1> QED
  BY <1>1, <1>3, <1>5

(* An archive as finish_run wrote it passes verify_archive, and its vault     *)
(* opens and passes with its passphrase and the evidence it needs, exactly if *)
(* it is of a size and has a ledger that the reader takes; else it is refused *)
(* and gives up nothing (verify_archive, unlock_archive).                     *)
THEOREM AcceptTheorem == ArchiveSpec => []AcceptsSealed
<1>1. ArchiveInv => SealedVerifies
  <2> SUFFICES ASSUME ArchiveInv, Done, verified \in seals, verified.container,
                      verified.entries.events.flaw = None
               PROVE  SealedVerifies
    BY RefusedFails DEF SealedVerifies
  <2> USE DEF ArchiveInv
  <2> DEFINE e == verified.entries
             first == VerifyReport(verified)
  <2>1. /\ first.ok /\ ~first.warned /\ first.integrity = "passed" /\ first.structural = "passed"
        /\ (first.replayability = "taped-replay") = (e.manifest.profile = "replay")
        /\ "enc" \in DOMAIN e => Taped(verified)
    BY SealedPasses
  <2>2. asked = None => rep = first
    BY DEF ReaderInv, Done
  <2>3. ASSUME asked # None, "enc" \in DOMAIN e, used = verified
        PROVE  IF e.enc.pass = asked
               THEN e.enc.plain.flaw = None /\ Uncovered(e.events, e.enc.plain.evidence) = {}
                      => rep.ok /\ rep.semantic = "passed"
               ELSE ~rep.ok /\ rep.semantic = "failed" /\ records = {}
    <3>1. UnlockedAs(used)
      BY <2>1, <2>3 DEF ReaderInv, Done
    <3>2. SizedOf(verified)
      BY DEF FilesInv
    <3>3. /\ Required \subseteq DOMAIN e /\ "meta" \in DOMAIN e /\ e.manifest.flaw = None
          /\ e.enc.pass \in Passphrases /\ e.enc.intact
          /\ e.enc.aad = Aad(e.manifest, e.graph, e.events)
          /\ e.meta = [aad |-> e.enc.aad, flaw |-> None]
      <4>1. PICK t \in Traces, needs \in SUBSET Needs, lines \in Lines, vault \in BOOLEAN :
              /\ DOMAIN e = Required \union {"summary"} \union (IF vault THEN Vault ELSE {})
              /\ e.manifest = Manifest(t, vault)
              /\ vault => /\ e.enc.pass \in Passphrases /\ e.enc.intact
                          /\ e.enc.aad = Aad(e.manifest, e.graph, e.events)
                          /\ e.meta = [aad |-> e.enc.aad, flaw |-> None]
        BY <3>2, SizedBinding
      <4>2. vault
        BY <2>3, <4>1 DEF Required, Vault
      <4> QED
        BY <4>1, <4>2 DEF Required, Vault, Manifest
    <3>4. DescriptorAgrees(verified)
      BY <3>3 DEF DescriptorAgrees
    <3>5. ~Refused(verified) /\ ~Raises(verified)
      BY <2>3, <3>3 DEF Refused, Raises, Required, None
    <3>6. Opened(verified) <=> e.enc.pass = asked
      <4>1. e.enc.pass # Empty
        BY <3>3, ArchiveAssumption DEF ArchiveAssumption
      <4> QED
        BY <2>3, <3>3, <3>4, <3>5, <4>1 DEF Opened, Opens, Decrypts
    <3>7. first \in ReportType
      BY ReportTyped
    <3>8. [first EXCEPT !.semantic = "passed"].ok = first.ok
          /\ [first EXCEPT !.semantic = "passed"].semantic = "passed"
      <4> HIDE DEF first
      <4> QED
        BY <3>7 DEF ReportType
    <3>9. CASE e.enc.pass # asked
      BY <2>3, <3>1, <3>6, <3>9 DEF UnlockedAs
    <3>10. CASE e.enc.pass = asked
      <4> SUFFICES ASSUME e.enc.plain.flaw = None, Uncovered(e.events, e.enc.plain.evidence) = {}
                   PROVE  rep.ok /\ rep.semantic = "passed"
        BY <3>10
      <4>1. rep = [first EXCEPT !.semantic = "passed"]
        BY <2>3, <3>1, <3>6, <3>10 DEF UnlockedAs, None
      <4> HIDE DEF first
      <4> QED
        BY <2>1, <3>8, <4>1
    <3> QED
      BY <3>9, <3>10
  <2> HIDE DEF first
  <2> QED
    BY <2>1, <2>2, <2>3 DEF SealedVerifies
<1>2. ArchiveInv => SummaryIsCacheOnly
  <2> SUFFICES ASSUME ArchiveInv, Done, asked = None, verified.container, verified.flaw = None,
                      verified.index = verified.entries, verified.identity = verified.entries,
                      NEW s \in seals, s.entries.events.flaw = None,
                      Pick(s.entries, DOMAIN s.entries \ {"summary"})
                        = Pick(verified.entries, DOMAIN verified.entries \ {"summary"}),
                      "summary" \in DOMAIN verified.entries => verified.entries.summary.flaw # "unsafe"
               PROVE  rep.ok
    BY DEF SummaryIsCacheOnly
  <2> DEFINE e == s.entries
             d == verified.entries
  <2>1. DOMAIN e \ {"summary"} = DOMAIN d \ {"summary"} /\ \A n \in DOMAIN e \ {"summary"} : e[n] = d[n]
    <3>1. \A f, S : DOMAIN Pick(f, S) = S /\ \A n \in S : Pick(f, S)[n] = f[n]
      BY DEF Pick
    <3> QED
      BY <3>1
  <2>2. PICK t \in Traces, needs \in SUBSET Needs, lines \in Lines, vault \in BOOLEAN :
          /\ DOMAIN e = Required \union {"summary"} \union (IF vault THEN Vault ELSE {})
          /\ e.manifest = Manifest(t, vault) /\ e.graph = Graph /\ e.events = Events(t, needs, lines)
    BY SizedBinding DEF ArchiveInv, FilesInv
  <2>. lines = None
    BY <2>2 DEF Events
  <2>3. Required \subseteq DOMAIN e \ {"summary"} /\ Required \subseteq DOMAIN d
    BY <2>1, <2>2 DEF Required
  <2>4. d.manifest = Manifest(t, vault) /\ d.graph = Graph /\ d.events = Events(t, needs, lines)
    BY <2>1, <2>2, <2>3 DEF Required
  <2>5. ("enc" \in DOMAIN d) = vault /\ ("meta" \in DOMAIN d) = vault
    BY <2>1, <2>2 DEF Required, Vault
  <2>6. VerifyReport(verified) =
          Report(TRUE, "passed", "passed", "not-evaluated",
                 IF vault THEN "taped-replay" ELSE "playback-only", SummaryWarnings(verified) # {})
    BY <2>3, <2>4, <2>5, CleanPasses
  <2>7. rep = VerifyReport(verified)
    BY DEF ArchiveInv, ReaderInv, Done
  <2> QED
    BY <2>6, <2>7 DEF Report
<1>3. SealedVerifies /\ SummaryIsCacheOnly => AcceptsSealed
  BY DEF AcceptsSealed
<1> QED BY <1>1, <1>2, <1>3, ArchiveInvariance, PTL

-----------------------------------------------------------------------------
(* Publication. Neither PublishedWasReviewed nor NothingUnfitIsWritten is    *)
(* inductive: a digest is written because the attestation in memory has it,  *)
(* which had it from a file, which had it from a report, which had it from a *)
(* scan; the inductive invariant says so of each of those places.            *)

(* A report or attestation is of a projection some scan has reported.        *)
Reported(r) == "digest" \in DOMAIN r /\ r.digest \in shown

(* A report is of the archive it announces.                                  *)
Named(r) == "digest" \in DOMAIN r /\ r.identity.digest = r.digest

Provenance ==
  /\ \A r \in report \union destReport : Reported(r)
  /\ \A a \in attestation \union loaded : Reported(a)

(* What the command in progress has made so far.                             *)
WorkInv ==
  /\ pc \in {"idle", "scan", "scanned", "prepare", "write", "report"}
  /\ pc \in {"idle", "scan", "prepare"} => made = {}
  /\ \A c, d \in read : c = d
  /\ \A r \in made : Named(r)
  /\ pc \in {"write", "report"} =>
       /\ \A r \in made : r.digest \in shown /\ Texts(r.identity) \intersect Flagged = {}
       /\ \A c \in read : Fit(c)

\* The review decisions of a report are among those there are, wherever it went.
Decided(r) == "options" \in DOMAIN r /\ r.options \in OptionSets

DecisionsInv ==
  /\ source \in Contents /\ read \subseteq Contents /\ options \subseteq OptionSets
  /\ changes \in 0 .. MaxChanges /\ orphan \in BOOLEAN
  /\ \A r \in report \union destReport \union made : Decided(r)
  /\ \A a \in attestation \union loaded : Decided(a)

\* The command that writes an archive still has the report it will write.
SidecarInv ==
  /\ \A q, r \in made : q = r
  /\ pc \in {"write", "report"} => made # {} /\ \A r \in made : r.findings = {} /\ r.attested
  /\ pc = "report" => \A r \in made : dest = {r.identity}
  /\ SidecarDescribes

ReviewedInv == Provenance /\ WorkInv /\ PublishedWasReviewed /\ NothingUnfitIsWritten

PublicationInv == ReviewedInv /\ DecisionsInv /\ SidecarInv

-----------------------------------------------------------------------------
(* The report of a projection names that projection and its findings.        *)
LEMMA ReportShape ==
  ASSUME NEW c, NEW v, NEW o, NEW b
  PROVE  /\ Named(Disclosure(c, v, o, b))
         /\ Disclosure(c, v, o, b).findings = Texts(Disclosure(c, v, o, b).identity) \intersect Flagged
  BY DEF Named, Disclosure, Entries

(* Clearing its findings or widening its options does not change what a      *)
(* report or an attestation is of.                                           *)
LEMMA EditKeepsDigest ==
  ASSUME NEW r, Reported(r), NEW x
  PROVE  Reported([r EXCEPT !.findings = {}]) /\ Reported([r EXCEPT !.options = x])
  BY DEF Reported

LEMMA InitReviewedInv == PublicationInit => ReviewedInv
  BY DEF PublicationInit, ReviewedInv, Provenance, WorkInv, PublishedWasReviewed,
         NothingUnfitIsWritten

(* Every step keeps the invariant.                                           *)
LEMMA NextReviewedInv == ReviewedInv /\ [PublicationNext]_publicationVars => ReviewedInv'
<1> SUFFICES ASSUME ReviewedInv, [PublicationNext]_publicationVars PROVE ReviewedInv'
  OBVIOUS
<1> USE DEF ReviewedInv
<1>1. ASSUME NEW o \in OptionSets, ScanStart(o) PROVE ReviewedInv'
  BY <1>1 DEF ScanStart, files, history, Provenance, Reported, WorkInv,
             PublishedWasReviewed, NothingUnfitIsWritten
<1>2. CASE Scan
  <2>1. Provenance' /\ PublishedWasReviewed' /\ NothingUnfitIsWritten'
    BY <1>2 DEF Scan, Ends, files, history, Provenance, Reported, PublishedWasReviewed,
                NothingUnfitIsWritten
  <2>2. WorkInv'
    <3>1. CASE Ends
      BY <1>2, <3>1 DEF Scan, Ends, WorkInv
    <3>2. CASE ~Ends
      <4>1. PICK c \in read, o \in options :
              /\ pc' = "scanned" /\ made' = {Disclosure(c, source, o, FALSE)}
              /\ UNCHANGED <<read, options, loaded>>
        BY <1>2, <3>2 DEF Scan
      <4>2. Named(Disclosure(c, source, o, FALSE))
        BY ReportShape
      <4> QED BY <4>1, <4>2 DEF WorkInv
    <3> QED BY <3>1, <3>2
  <2> QED BY <2>1, <2>2
<1>3. CASE WriteScanReport
  <2>1. Provenance'
    BY <1>3 DEF WriteScanReport, Ends, Provenance, Reported, Named, WorkInv
  <2>2. WorkInv'
    BY <1>3 DEF WriteScanReport, Ends, WorkInv
  <2>3. PublishedWasReviewed' /\ NothingUnfitIsWritten'
    BY <1>3 DEF WriteScanReport, PublishedWasReviewed, NothingUnfitIsWritten
  <2> QED BY <2>1, <2>2, <2>3
<1>4. CASE Attest
  <2>1. Provenance'
    BY <1>4 DEF Attest, work, history, Provenance, Reported
  <2>2. WorkInv' /\ PublishedWasReviewed' /\ NothingUnfitIsWritten'
    BY <1>4 DEF Attest, work, history, WorkInv, PublishedWasReviewed, NothingUnfitIsWritten
  <2> QED BY <2>1, <2>2
<1>5. CASE PrepareStart
  BY <1>5 DEF PrepareStart, files, history, Provenance, Reported, WorkInv,
              PublishedWasReviewed, NothingUnfitIsWritten
<1>6. CASE Prepare
  <2>1. Provenance' /\ PublishedWasReviewed' /\ NothingUnfitIsWritten'
    BY <1>6 DEF Prepare, Ends, files, history, Provenance, Reported, PublishedWasReviewed,
                NothingUnfitIsWritten
  <2>2. CASE Ends
    BY <2>1, <2>2 DEF Ends, WorkInv
  <2>3. CASE ~Ends
    <3>1. PICK c \in read, o \in options, a \in loaded :
            /\ Fit(c) /\ Covers(a, Disclosure(c, source, o, TRUE)) /\ pc' = "write"
            /\ made' = {Disclosure(c, source, o, TRUE)} /\ UNCHANGED <<read, options, loaded>>
      BY <1>6, <2>3 DEF Prepare
    <3> DEFINE r == Disclosure(c, source, o, TRUE)
    <3>2. Named(r) /\ r.findings = Texts(r.identity) \intersect Flagged
      BY ReportShape
    <3>3. r.findings = {} /\ r.digest = a.digest
      BY <3>1 DEF Covers
    <3>4. a.digest \in shown /\ shown' = shown
      BY <1>6 DEF Prepare, history, Provenance, Reported
    <3> HIDE DEF r
    <3>5. made' = {r} /\ read' = read /\ \A d \in read : Fit(d)
      BY <3>1 DEF r, WorkInv
    <3> QED BY <2>1, <3>1, <3>2, <3>3, <3>4, <3>5 DEF WorkInv
  <2> QED BY <2>1, <2>2, <2>3
<1>7. CASE WriteArchive
  <2>1. Provenance'
    BY <1>7 DEF WriteArchive, work, Provenance, Reported
  <2>2. WorkInv'
    BY <1>7 DEF WriteArchive, work, WorkInv
  <2>3. \A w \in written' \ written :
          /\ w.entries.digest \in shown
          /\ Texts(w.entries) \intersect Flagged = {}
          /\ Fit(w.from)
    BY <1>7 DEF WriteArchive, WorkInv, Named
  <2>4. PublishedWasReviewed' /\ NothingUnfitIsWritten'
    BY <1>7, <2>3 DEF WriteArchive, PublishedWasReviewed, NothingUnfitIsWritten, Fit
  <2> QED BY <2>1, <2>2, <2>4
<1>8. CASE WriteReport
  <2>1. Provenance'
    BY <1>8 DEF WriteReport, Ends, Provenance, Reported, Named, WorkInv
  <2>2. WorkInv' /\ PublishedWasReviewed' /\ NothingUnfitIsWritten'
    BY <1>8 DEF WriteReport, Ends, WorkInv, PublishedWasReviewed, NothingUnfitIsWritten
  <2> QED BY <2>1, <2>2
<1>9. CASE Crash
  <2>1. report' \subseteq report /\ destReport' \subseteq destReport
    BY <1>9 DEF Crash
  <2>2. Provenance'
    BY <1>9, <2>1 DEF Crash, Ends, Provenance, Reported
  <2>3. WorkInv' /\ PublishedWasReviewed' /\ NothingUnfitIsWritten'
    BY <1>9 DEF Crash, Ends, WorkInv, PublishedWasReviewed, NothingUnfitIsWritten
  <2> QED BY <2>2, <2>3
<1>10. CASE RewriteSource
  BY <1>10 DEF RewriteSource, files, work, history, Provenance, Reported, WorkInv,
               PublishedWasReviewed, NothingUnfitIsWritten
<1>11. CASE EditReport
  <2>1. shown' = shown /\ \A r \in report' : Reported(r)
    BY <1>11, EditKeepsDigest DEF EditReport, history, Provenance
  <2>2. Provenance'
    BY <1>11, <2>1 DEF EditReport, work, Provenance, Reported
  <2>3. WorkInv' /\ PublishedWasReviewed' /\ NothingUnfitIsWritten'
    BY <1>11 DEF EditReport, work, history, WorkInv, PublishedWasReviewed,
                 NothingUnfitIsWritten
  <2> QED BY <2>2, <2>3
<1>12. CASE EditAttestation
  <2>1. shown' = shown /\ \A b \in attestation' : Reported(b)
    <3>1. PICK a \in attestation, o \in OptionSets :
            attestation' = {[a EXCEPT !.options = o]}
      BY <1>12 DEF EditAttestation
    <3>2. Reported([a EXCEPT !.options = o])
      BY EditKeepsDigest DEF Provenance
    <3> QED BY <1>12, <3>1, <3>2 DEF EditAttestation, history
  <2>2. Provenance'
    BY <1>12, <2>1 DEF EditAttestation, work, Provenance, Reported
  <2>3. WorkInv' /\ PublishedWasReviewed' /\ NothingUnfitIsWritten'
    BY <1>12 DEF EditAttestation, work, history, WorkInv, PublishedWasReviewed,
                 NothingUnfitIsWritten
  <2> QED BY <2>2, <2>3
<1>13. CASE UNCHANGED publicationVars
  BY <1>13 DEF publicationVars, files, work, history, Provenance, Reported, WorkInv,
               PublishedWasReviewed, NothingUnfitIsWritten
<1> QED
  BY <1>1, <1>2, <1>3, <1>4, <1>5, <1>6, <1>7, <1>8, <1>9, <1>10, <1>11, <1>12, <1>13
     DEF PublicationNext

(* A step of any command keeps the review decisions in their set ...         *)
LEMMA NextDecisionsInv ==
  ASSUME PublicationInv, [PublicationNext]_publicationVars
  PROVE  DecisionsInv'
<1> USE DEF PublicationInv, DecisionsInv
<1>1. CASE \E o \in OptionSets : ScanStart(o)
  BY <1>1 DEF ScanStart, files, history
<1>2. \A c, v : \A o \in OptionSets :
        Decided(Disclosure(c, v, o, FALSE)) /\ Decided(Disclosure(c, v, o, TRUE))
  BY DEF Disclosure, Decided
<1>3. CASE Scan
  <2>1. source' = source /\ changes' = changes /\ orphan' = orphan /\ UNCHANGED files
        /\ read' \subseteq read /\ options' \subseteq options /\ loaded' \subseteq loaded
    BY <1>3 DEF Scan, Ends, history
  <2>2. \A r \in made' : Decided(r)
    <3> SUFFICES ASSUME made' # {} PROVE \A r \in made' : Decided(r)
      OBVIOUS
    <3>1. PICK c \in read, o \in options : made' = {Disclosure(c, source, o, FALSE)}
      BY <1>3 DEF Scan, Ends
    <3> DEFINE d == Disclosure(c, source, o, FALSE)
    <3>2. Decided(d)
      BY <1>2
    <3> HIDE DEF d
    <3> QED
      BY <3>1, <3>2 DEF d
  <2> QED
    BY <2>1, <2>2 DEF files
<1>4. CASE WriteScanReport
  BY <1>4 DEF WriteScanReport, Ends
<1>5. CASE Attest
  <2>1. PICK r \in report \union destReport :
          attestation' = {[source |-> r.source, trace |-> r.trace, digest |-> r.digest, options |-> r.options]}
    BY <1>5 DEF Attest
  <2>2. \A q \in attestation' : Decided(q)
    BY <2>1 DEF Decided
  <2> QED
    BY <1>5, <2>2 DEF Attest, work, history
<1>6. CASE PrepareStart
  BY <1>6 DEF PrepareStart, files, history, Decided
<1>7. CASE Prepare
  <2>1. source' = source /\ changes' = changes /\ orphan' = orphan /\ UNCHANGED files
        /\ read' \subseteq read /\ options' \subseteq options /\ loaded' \subseteq loaded
    BY <1>7 DEF Prepare, Ends, history
  <2>2. \A r \in made' : Decided(r)
    <3> SUFFICES ASSUME made' # {} PROVE \A r \in made' : Decided(r)
      OBVIOUS
    <3>1. PICK c \in read, o \in options : made' = {Disclosure(c, source, o, TRUE)}
      BY <1>7 DEF Prepare, Ends
    <3> DEFINE d == Disclosure(c, source, o, TRUE)
    <3>2. Decided(d)
      BY <1>2
    <3> HIDE DEF d
    <3> QED
      BY <3>1, <3>2 DEF d
  <2> QED
    BY <2>1, <2>2 DEF files
<1>8. CASE WriteArchive
  BY <1>8 DEF WriteArchive, work
<1>9. CASE WriteReport
  BY <1>9 DEF WriteReport, Ends
<1>10. CASE Crash
  <2>1. report' \subseteq report /\ destReport' \subseteq destReport
    BY <1>10 DEF Crash
  <2>2. changes' \in 0 .. MaxChanges /\ orphan' \in BOOLEAN
    BY <1>10, PublicationAssumption DEF Crash, PublicationAssumption
  <2> QED
    BY <1>10, <2>1, <2>2 DEF Crash, Ends
<1>11. CASE RewriteSource \/ EditReport \/ EditAttestation
  <2>1. changes' \in 0 .. MaxChanges
    BY <1>11, PublicationAssumption DEF RewriteSource, EditReport, EditAttestation, Change, PublicationAssumption
  <2>2. \A r, x : Decided(r) => Decided([r EXCEPT !.findings = x])
    BY DEF Decided
  <2>3. \A r, o : Decided(r) /\ o \in OptionSets => Decided([r EXCEPT !.options = o])
    BY DEF Decided
  <2>4. CASE RewriteSource
    BY <2>1, <2>4 DEF RewriteSource, files, work, history
  <2>5. CASE EditReport
    <3>1. \A r \in report' : Decided(r)
      BY <2>2, <2>5 DEF EditReport
    <3> QED
      BY <2>1, <2>5, <3>1 DEF EditReport, work, history
  <2>6. CASE EditAttestation
    <3>1. \A q \in attestation' : Decided(q)
      BY <2>3, <2>6 DEF EditAttestation
    <3> QED
      BY <2>1, <2>6, <3>1 DEF EditAttestation, work, history
  <2> QED
    BY <1>11, <2>4, <2>5, <2>6
<1>12. CASE UNCHANGED publicationVars
  BY <1>12 DEF publicationVars, files, work, history
<1> QED
  BY <1>1, <1>3, <1>4, <1>5, <1>6, <1>7, <1>8, <1>9, <1>10, <1>11, <1>12 DEF PublicationNext

(* ... and the report next to a publication the report of it.                *)
LEMMA NextSidecarInv ==
  ASSUME PublicationInv, [PublicationNext]_publicationVars
  PROVE  SidecarInv'
<1> USE DEF PublicationInv, SidecarInv, SidecarDescribes
<1>1. CASE \E o \in OptionSets : ScanStart(o)
  BY <1>1 DEF ScanStart, files, history
<1>2. CASE Scan
  BY <1>2 DEF Scan, Ends, files, history
<1>3. CASE WriteScanReport
  BY <1>3 DEF WriteScanReport, Ends
<1>4. CASE Attest
  BY <1>4 DEF Attest, work, history
<1>5. CASE PrepareStart
  BY <1>5 DEF PrepareStart, files, history
<1>6. CASE Prepare
  <2>1. \A c, v, o : Disclosure(c, v, o, TRUE).attested
    BY DEF Disclosure
  <2>2. \/ made' = {} /\ pc' = "idle"
        \/ pc' = "write" /\ \E r : made' = {r} /\ r.findings = {} /\ r.attested
    <3>1. \/ made' = {} /\ pc' = "idle"
          \/ \E c, o, a : LET r == Disclosure(c, source, o, TRUE)
                          IN  pc' = "write" /\ made' = {r} /\ Covers(a, r)
      BY <1>6 DEF Prepare, Ends
    <3>2. \A a, r : Covers(a, r) => r.findings = {}
      BY DEF Covers
    <3> QED
      BY <2>1, <3>1, <3>2
  <2>3. UNCHANGED <<dest, destReport, orphan>> /\ pc = "prepare"
    BY <1>6 DEF Prepare, files, history
  <2> QED
    BY <2>2, <2>3
<1>7. CASE WriteArchive
  <2>1. PICK r \in made : dest' = {r.identity}
    BY <1>7 DEF WriteArchive
  <2> QED
    BY <1>7, <2>1 DEF WriteArchive, work
<1>8. CASE WriteReport
  BY <1>8 DEF WriteReport, Ends
<1>9. CASE Crash
  <2>1. pc' = "idle" /\ made' = {} /\ dest' = dest /\ orphan' = (orphan \/ pc = "report")
        /\ (pc # "report" => destReport' = destReport)
    BY <1>9 DEF Crash, Ends
  <2> QED
    BY <2>1
<1>10. CASE RewriteSource \/ EditReport \/ EditAttestation
  BY <1>10 DEF RewriteSource, EditReport, EditAttestation, files, work, history
<1>11. CASE UNCHANGED publicationVars
  BY <1>11 DEF publicationVars, files, work, history
<1> QED
  BY <1>1, <1>2, <1>3, <1>4, <1>5, <1>6, <1>7, <1>8, <1>9, <1>10, <1>11 DEF PublicationNext

LEMMA InitPublicationInv == PublicationInit => PublicationInv
<1>1. PublicationInit => DecisionsInv
  <2>1. 0 \in 0 .. MaxChanges
    BY PublicationAssumption DEF PublicationAssumption
  <2> QED
    BY <2>1 DEF PublicationInit, DecisionsInv
<1>2. PublicationInit => SidecarInv
  BY DEF PublicationInit, SidecarInv, SidecarDescribes
<1> QED
  BY <1>1, <1>2, InitReviewedInv DEF PublicationInv

LEMMA NextPublicationInv == PublicationInv /\ [PublicationNext]_publicationVars => PublicationInv'
  BY NextReviewedInv, NextDecisionsInv, NextSidecarInv DEF PublicationInv

LEMMA PublicationInvariance == PublicationSpec => []PublicationInv
  BY InitPublicationInv, NextPublicationInv, PTL DEF PublicationSpec

(* Every archive written has the ledger, the graph and the options of a      *)
(* projection some scan reported.                                            *)
THEOREM ReviewTheorem == PublicationSpec => []PublishedWasReviewed
<1>1. PublicationInv => PublishedWasReviewed
  BY DEF PublicationInv, ReviewedInv
<1> QED BY <1>1, PublicationInvariance, PTL

(* No archive written holds a text the scanner matches or comes from a run   *)
(* that may not be published.                                                *)
THEOREM FitnessTheorem == PublicationSpec => []NothingUnfitIsWritten
<1>1. PublicationInv => NothingUnfitIsWritten
  BY DEF PublicationInv, ReviewedInv
<1> QED BY <1>1, PublicationInvariance, PTL

(* The files and the work of every command have their types, and an archive  *)
(* is written only for a projection in which nothing was found.              *)
THEOREM PublicationTypeCorrect == PublicationSpec => []PublicationTypeOK
<1>1. PublicationInv => PublicationTypeOK
  BY DEF PublicationInv, ReviewedInv, WorkInv, DecisionsInv, SidecarInv, PublicationTypeOK
<1> QED BY <1>1, PublicationInvariance, PTL

(* The report next to a published archive describes it, unless the command   *)
(* that writes them was killed between the two.                              *)
THEOREM SidecarTheorem == PublicationSpec => []SidecarDescribes
<1>1. PublicationInv => SidecarDescribes
  BY DEF PublicationInv, SidecarInv
<1> QED BY <1>1, PublicationInvariance, PTL

-----------------------------------------------------------------------------
(* Publish.                                                                  *)

-----------------------------------------------------------------------------
(* The inductive invariant: what each step of a verification has established *)
(* about the revision it cites. Revisions never change, so it stays true.    *)

Revision(r) ==
  /\ IsFiniteSet(DOMAIN r)
  /\ \A name \in DOMAIN r : r[name] \in Archives

Revisions == {r \in UNION {[S -> Archives] : S \in SUBSET Names} : Revision(r)}

GistInv ==
  /\ gist \in Seq(Revisions) /\ DOMAIN gist = 1 .. Len(gist)
  /\ Len(gist) \in 0 .. MaxRevisions
  /\ \A r \in DOMAIN gist : Revision(gist[r])

\* The file c is the one a request a names, or the only one.
Answered(a, c) ==
  /\ c.revision \in DOMAIN gist /\ c.file \in DOMAIN gist[c.revision]
  /\ a.pinned # Anything => c.revision = a.pinned
  /\ a.name # Anything => c.file = a.name
  /\ a.name = Anything => DOMAIN gist[c.revision] = {c.file}

CitedInv == \A c \in cited : Answered(request, c)

CheckInv ==
  \A k \in check :
    /\ Answered(k.request, k.cited)
    /\ Passes(gist[k.cited.revision][k.cited.file], k.request.expected)

PlanInv ==
  /\ local \in Archives /\ writes \in 0 .. MaxRewrites
  /\ planner \in {"idle", "gate", "count"} /\ (planner = "count") = (draft # {})
  /\ verifier \in {"idle", "download"} /\ (verifier = "download") = (cited # {})

PublishInv == GistInv /\ CitedInv /\ CheckInv /\ PlanInv

-----------------------------------------------------------------------------
(* The file chosen is in the revision and is the one that was named, or the  *)
(* only one there is.                                                        *)
LEMMA ChosenFile ==
  ASSUME NEW r, IsFiniteSet(DOMAIN r), NEW name, NEW f \in Chosen(r, name)
  PROVE  /\ f \in DOMAIN r
         /\ name # Anything => f = name
         /\ name = Anything => DOMAIN r = {f}
<1>1. CASE name # Anything
  BY <1>1 DEF Chosen
<1>2. CASE name = Anything
  <2>1. Cardinality(DOMAIN r) = 1 /\ f \in DOMAIN r
    BY <1>2 DEF Chosen
  <2> QED
    BY <1>2, <2>1, FS_Singleton
<1> QED
  BY <1>1, <1>2

(* Damaged bytes never pass: no archive states the identity they have.       *)
LEMMA DamagedFails ==
  ASSUME NEW a \in Archives, NEW x
  PROVE  ~Passes([a EXCEPT !.holds = Anything], x)
<1>1. a.states # Anything /\ DOMAIN a = {"holds", "states", "public", "small"}
  BY PublishAssumption DEF PublishAssumption
<1>2. [a EXCEPT !.holds = Anything].holds = Anything /\ [a EXCEPT !.holds = Anything].states = a.states
  BY <1>1
<1> QED
  BY <1>1, <1>2 DEF Passes, Verifies

(* A push adds a revision and leaves those before it as they were.           *)
LEMMA PushKeeps ==
  ASSUME GistInv, NEW name \in Names, NEW a \in Archives, Push(name, a)
  PROVE  GistInv' /\ \A r \in DOMAIN gist : r \in DOMAIN gist' /\ gist'[r] = gist[r]
<1> DEFINE before == IF gist = <<>> THEN <<>> ELSE gist[Len(gist)]
           pushed == [n \in DOMAIN before \union {name} |-> IF n = name THEN a ELSE before[n]]
<1>1. gist' = Append(gist, pushed) /\ Len(gist) < MaxRevisions
  BY DEF Push
<1>2. Revision(before) /\ DOMAIN before \subseteq Names
  <2>1. CASE gist = <<>>
    BY <2>1, FS_EmptySet DEF Revision
  <2>2. CASE gist # <<>>
    BY <2>2 DEF GistInv, Revisions
  <2> QED
    BY <2>1, <2>2
<1>3. Revision(pushed)
  BY <1>2, FS_AddElement DEF Revision
<1>4. pushed \in Revisions
  BY <1>2, <1>3 DEF Revision, Revisions
<1>5. gist' \in Seq(Revisions) /\ Len(gist') = Len(gist) + 1 /\ DOMAIN gist' = 1 .. Len(gist')
      /\ gist'[Len(gist) + 1] = pushed
      /\ \A r \in 1 .. Len(gist) : gist'[r] = gist[r]
  BY <1>1, <1>4 DEF GistInv
<1>6. Len(gist) \in Nat /\ Len(gist') \in 0 .. MaxRevisions
  BY <1>1, <1>5, PublishAssumption DEF GistInv, PublishAssumption
<1>7. \A r \in DOMAIN gist' : r \in DOMAIN gist \/ r = Len(gist) + 1
  BY <1>5, <1>6 DEF GistInv
<1>8. \A r \in DOMAIN gist : r \in DOMAIN gist' /\ gist'[r] = gist[r]
  BY <1>5, <1>6 DEF GistInv
<1>9. \A r \in DOMAIN gist' : Revision(gist'[r])
  BY <1>3, <1>5, <1>7, <1>8 DEF GistInv
<1> HIDE DEF pushed, before
<1> QED
  BY <1>5, <1>6, <1>8, <1>9 DEF GistInv

(* What a request was answered with stays its answer.                        *)
LEMMA AnsweredKept ==
  ASSUME NEW b, NEW c, Answered(b, c),
         \A r \in DOMAIN gist : r \in DOMAIN gist' /\ gist'[r] = gist[r]
  PROVE  Answered(b, c)'
BY DEF Answered

LEMMA InitPublishInv == PublishInit => PublishInv
BY PublishAssumption
   DEF PublishInit, PublishInv, GistInv, CitedInv, CheckInv, PlanInv, PublishAssumption

LEMMA NextPublishInv == PublishInv /\ [PublishNext]_publishVars => PublishInv'
<1> SUFFICES ASSUME PublishInv, [PublishNext]_publishVars PROVE PublishInv'
  OBVIOUS
<1> USE DEF PublishInv
<1>1. ASSUME NEW a \in Archives, RewriteLocal(a) PROVE PublishInv'
  BY <1>1, PublishAssumption
     DEF RewriteLocal, planVars, verifyVars, GistInv, CitedInv, CheckInv, PlanInv, Answered, PublishAssumption
<1>2. CASE PlanVerify
  BY <1>2 DEF PlanVerify, verifyVars, GistInv, CitedInv, CheckInv, PlanInv, Answered
<1>3. CASE PlanGate
  BY <1>3 DEF PlanGate, verifyVars, GistInv, CitedInv, CheckInv, PlanInv, Answered
<1>4. CASE PlanCount
  BY <1>4 DEF PlanCount, verifyVars, GistInv, CitedInv, CheckInv, PlanInv, Answered
<1>5. ASSUME NEW a \in Archives, NEW name \in Names, Push(name, a) PROVE PublishInv'
  <2>1. GistInv' /\ \A r \in DOMAIN gist : r \in DOMAIN gist' /\ gist'[r] = gist[r]
    BY <1>5, PushKeeps
  <2>2. UNCHANGED <<local, writes, plans, planner, draft, verifier, request, cited, check>>
    BY <1>5 DEF Push, planVars, verifyVars
  <2>3. CitedInv'
    BY <2>1, <2>2 DEF CitedInv, Answered
  <2>4. CheckInv'
    BY <2>1, <2>2 DEF CheckInv, Answered
  <2>5. PlanInv'
    BY <2>2 DEF PlanInv
  <2> QED
    BY <2>1, <2>3, <2>4, <2>5
<1>6. ASSUME NEW pinned, NEW name, NEW expected, VerifyStart(pinned, name, expected) PROVE PublishInv'
  <2>1. PICK r \in 1 .. Len(gist) : \E f \in Chosen(gist[r], name) :
          /\ Answers(pinned, r)
          /\ verifier' = "download"
          /\ cited' = {[revision |-> r, file |-> f]}
          /\ request' = [pinned |-> pinned, name |-> name, expected |-> expected]
    BY <1>6 DEF VerifyStart
  <2>2. PICK f \in Chosen(gist[r], name) :
          /\ Answers(pinned, r)
          /\ verifier' = "download"
          /\ cited' = {[revision |-> r, file |-> f]}
          /\ request' = [pinned |-> pinned, name |-> name, expected |-> expected]
    BY <2>1
  <2>3. UNCHANGED <<local, writes, plans, planner, draft, gist, check>>
    BY <1>6 DEF VerifyStart, planVars
  <2>4. /\ r \in DOMAIN gist /\ f \in DOMAIN gist[r]
        /\ name # Anything => f = name
        /\ name = Anything => DOMAIN gist[r] = {f}
    <3>1. r \in DOMAIN gist /\ IsFiniteSet(DOMAIN gist[r])
      BY DEF GistInv, Revision
    <3> QED
      BY <3>1, <2>2, ChosenFile
  <2>5. CitedInv'
    BY <2>2, <2>3, <2>4 DEF CitedInv, Answered, Answers
  <2> QED
    BY <2>2, <2>3, <2>5 DEF GistInv, CheckInv, PlanInv, Answered
<1>7. CASE Download
  <2>1. UNCHANGED <<local, writes, plans, planner, draft, gist>>
        /\ verifier' = "idle" /\ cited' = {}
    BY <1>7 DEF Download, planVars
  <2>2. PICK c \in cited, damaged \in BOOLEAN :
          LET blob == gist[c.revision][c.file]
              a == IF damaged THEN [blob EXCEPT !.holds = Anything] ELSE blob
          IN  check' = IF Passes(a, request.expected) THEN {[request |-> request, cited |-> c]} ELSE {}
    BY <1>7 DEF Download
  <2>3. Answered(request, c) /\ gist[c.revision][c.file] \in Archives
    BY DEF CitedInv, GistInv, Revision, Answered
  <2>4. CASE damaged
    BY <2>1, <2>2, <2>3, <2>4, DamagedFails DEF GistInv, CitedInv, CheckInv, PlanInv
  <2>5. CASE ~damaged
    <3>1. \A k \in check' : k.request = request /\ k.cited = c
                            /\ Passes(gist[c.revision][c.file], request.expected)
      BY <2>2, <2>5
    <3>2. CheckInv'
      BY <3>1, <2>1, <2>3 DEF CheckInv, Answered
    <3> QED
      BY <3>2, <2>1 DEF GistInv, CitedInv, PlanInv
  <2> QED
    BY <2>4, <2>5
<1>8. CASE NoAnswer
  BY <1>8 DEF NoAnswer, planVars, GistInv, CitedInv, CheckInv, PlanInv
<1>9. CASE UNCHANGED publishVars
  BY <1>9 DEF publishVars, planVars, verifyVars, GistInv, CitedInv, CheckInv, PlanInv, Answered
<1> QED
  BY <1>1, <1>2, <1>3, <1>4, <1>5, <1>6, <1>7, <1>8, <1>9 DEF PublishNext

LEMMA PublishInvariance == PublishSpec => []PublishInv
  BY InitPublishInv, NextPublishInv, PTL DEF PublishSpec

-----------------------------------------------------------------------------
(* Every variable has its type, and what a verification cites is there.      *)
THEOREM PublishTypeCorrect == PublishSpec => []PublishTypeOK
<1>1. PublishInv => PublishTypeOK
  BY DEF PublishInv, GistInv, CitedInv, PlanInv, Answered, PublishTypeOK
<1> QED BY <1>1, PublishInvariance, PTL

(* The link of a successful verification leads to an archive that verifies,  *)
(* passes the gate and has the identity, revision and name asked for.          *)
THEOREM CitedTheorem == PublishSpec => []CitedIsVerified
<1>1. PublishInv => CitedIsVerified
  BY DEF PublishInv, CheckInv, Answered, Passes, Verifies, Gated, CitedIsVerified
<1> QED BY <1>1, PublishInvariance, PTL

(* Without a name, the file verified is the only one of its revision.        *)
THEOREM GuessTheorem == PublishSpec => []NeverGuesses
<1>1. PublishInv => NeverGuesses
  BY DEF PublishInv, CheckInv, Answered, NeverGuesses
<1> QED BY <1>1, PublishInvariance, PTL

-----------------------------------------------------------------------------
(* The sum. A step of one component is a step of its own specification and a *)
(* stutter of the others', so what holds of each alone holds of the three.   *)
LEMMA SumImplements == SumSpec => ArchiveSpec /\ PublicationSpec /\ PublishSpec
<1>1. SumInit => ArchiveInit /\ PublicationInit /\ PublishInit
  BY DEF SumInit
<1>2. [SumNext]_partVars =>
        /\ [ArchiveNext]_archiveVars
        /\ [PublicationNext]_publicationVars
        /\ [PublishNext]_publishVars
  BY DEF SumNext, ArchiveStep, PublicationStep, PublishStep, partVars
<1> QED
  BY <1>1, <1>2, PTL DEF SumSpec, ArchiveSpec, PublicationSpec, PublishSpec

(* The three components keep their types, and the report is of the archive   *)
(* beside it unless a command is, or was killed, between the two writes.     *)
THEOREM FilesTheorem == SumSpec => []FilesInOrder
<1>1. ArchiveTypeOK /\ PublicationTypeOK /\ SidecarDescribes /\ PublishTypeOK => FilesInOrder
  BY DEF FilesInOrder
<1> QED
  BY <1>1, SumImplements, ArchiveTypeCorrect, PublicationTypeCorrect, SidecarTheorem,
     PublishTypeCorrect, PTL
=============================================================================
