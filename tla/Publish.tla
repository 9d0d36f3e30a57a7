------------------------------- MODULE Publish -------------------------------
(***************************************************************************)
(* publish-plan and publish-verify: an archive is gated and its identity    *)
(* planned, a maintainer pushes it to a Gist, and what the Gist serves is   *)
(* downloaded and verified against the plan. The archive may be rewritten   *)
(* between the reads of the plan, the Gist may get revisions while it is    *)
(* verified, and the service may answer with an old revision, with damaged  *)
(* bytes or not at all.                                                     *)
(*                                                                          *)
(* An archive is the identity of what it holds, the identity its index      *)
(* states, and the facts the gate asks for; a Gist is a sequence of         *)
(* revisions, each a function from file names to archives.                  *)
(***************************************************************************)
EXTENDS Naturals, Sequences, FiniteSets

CONSTANTS
  Archives,       \* [holds, states : identities; public, small : BOOLEAN]
  Names,          \* file names ending in .nemotrace
  Anything,       \* no revision, no file name or no identity asked for
  MaxRevisions,   \* bound: revisions of the Gist
  MaxRewrites     \* bound: rewrites of the local archive

ASSUME PublishAssumption ==
  /\ Anything \notin Nat /\ Anything \notin Names
  /\ \A a \in Archives : a.states # Anything /\ DOMAIN a = {"holds", "states", "public", "small"}
  /\ MaxRevisions \in Nat /\ MaxRewrites \in Nat
  /\ \A a \in Archives : a.public \in BOOLEAN /\ a.small \in BOOLEAN

VARIABLES
  local,     \* the archive at the local path
  writes,
  plans,     \* the identities of the plans printed
  planner,   \* "idle", "gate" or "count": between the reads of publish-plan
  draft,     \* the identity of the plan being made: {} or {identity}
  open,      \* the Gist is public
  gist,      \* its revisions
  verifier,  \* "idle" or "download"
  request,   \* of the verification in progress
  cited,     \* the revision and file its metadata answered: {} or one record
  check      \* the last report that was ok: {} or one record

planVars == <<plans, planner, draft>>
verifyVars == <<verifier, request, cited, check>>
publishVars == <<local, writes, planVars, open, gist, verifyVars>>

\* verify_archive; the index of a damaged archive states what it does not hold.
Verifies(a) == a.states = a.holds

\* An attested publication without a vault, scanned, within the budget.
Gated(a) == a.public /\ a.small

-----------------------------------------------------------------------------
(* publish-plan reads the archive three times: to verify it, for its        *)
(* manifest and its identity, and to count its events.                      *)

PlanVerify ==
  /\ planner = "idle"
  /\ planner' = IF Verifies(local) THEN "gate" ELSE "idle"
  /\ UNCHANGED <<plans, draft, local, writes, open, gist, verifyVars>>

PlanGate ==
  /\ planner = "gate"
  /\ IF Gated(local)
     THEN planner' = "count" /\ draft' = {local.states}
     ELSE planner' = "idle" /\ UNCHANGED draft
  /\ UNCHANGED <<plans, local, writes, open, gist, verifyVars>>

\* Faulty variant of PlanCount: the draft stays with the next plan.
PlanCount_KeepsDraft ==
  /\ planner = "count"
  /\ planner' = "idle" /\ plans' = plans \union draft
  /\ UNCHANGED <<draft, local, writes, open, gist, verifyVars>>

\* The count comes from whatever is there by then.
PlanCount ==
  /\ planner = "count"
  /\ planner' = "idle" /\ plans' = plans \union draft /\ draft' = {}
  /\ UNCHANGED <<local, writes, open, gist, verifyVars>>

RewriteLocal(a) ==
  /\ writes < MaxRewrites
  /\ local' = a /\ writes' = writes + 1
  /\ UNCHANGED <<planVars, open, gist, verifyVars>>

-----------------------------------------------------------------------------
(* The Gist: the runbook copies the local archive, and others push too.     *)

Push(name, a) ==
  /\ Len(gist) < MaxRevisions
  /\ LET files == IF gist = <<>> THEN <<>> ELSE gist[Len(gist)]
     IN  gist' = Append(gist, [n \in DOMAIN files \union {name} |->
                                 IF n = name THEN a ELSE files[n]])
  /\ UNCHANGED <<local, writes, planVars, open, verifyVars>>

-----------------------------------------------------------------------------
(* publish-verify.                                                          *)

Nothing == [pinned |-> Anything, name |-> Anything, expected |-> Anything]

\* The file to download: the one named, or the only one.
Chosen(files, name) ==
  IF name # Anything THEN {name} \intersect DOMAIN files
  ELSE IF Cardinality(DOMAIN files) = 1 THEN DOMAIN files ELSE {}

\* Faulty variant of Answers: the revision that came back is not compared.
Answers_AnyRevision(pinned, r) == r \in 1..Len(gist)

\* A metadata answer that is used: for a pinned revision only its own.
Answers(pinned, r) == r \in 1..Len(gist) /\ (pinned # Anything => r = pinned)

\* The metadata of the pinned or of the latest revision, which a cache may
\* have from before the last push. Everything else is refused with an error.
VerifyStart(pinned, name, expected) ==
  /\ verifier = "idle" /\ open
  /\ \E r \in 1..Len(gist) : \E f \in Chosen(gist[r], name) :
       /\ Answers(pinned, r)
       /\ verifier' = "download"
       /\ cited' = {[revision |-> r, file |-> f]}
       /\ request' = [pinned |-> pinned, name |-> name, expected |-> expected]
  /\ UNCHANGED <<local, writes, planVars, open, gist, check>>

\* What is checked of the bytes, in a temporary file.
Passes(a, expected) ==
  Verifies(a) /\ Gated(a) /\ (expected # Anything => a.states = expected)

\* The raw URL of a revision's file serves its bytes, or damaged ones.
Download ==
  /\ verifier = "download"
  /\ \E c \in cited, damaged \in BOOLEAN :
       LET blob == gist[c.revision][c.file]
           a == IF damaged THEN [blob EXCEPT !.holds = Anything] ELSE blob
       IN  check' = IF Passes(a, request.expected) THEN {[request |-> request, cited |-> c]}
                    ELSE {}
  /\ verifier' = "idle" /\ cited' = {} /\ request' = Nothing
  /\ UNCHANGED <<local, writes, planVars, open, gist>>

\* No answer in time, an error status, an answer over the budget, another host.
NoAnswer ==
  /\ verifier = "download"
  /\ verifier' = "idle" /\ cited' = {} /\ request' = Nothing /\ check' = {}
  /\ UNCHANGED <<local, writes, planVars, open, gist>>

PublishInit ==
  /\ local \in Archives /\ writes = 0
  /\ plans = {} /\ draft = {} /\ planner = "idle" /\ open \in BOOLEAN /\ gist = <<>>
  /\ verifier = "idle" /\ cited = {} /\ check = {} /\ request = Nothing

PublishNext ==
  \/ PlanVerify \/ PlanGate \/ PlanCount
  \/ \E a \in Archives : RewriteLocal(a) \/ \E name \in Names : Push(name, a)
  \/ \E pinned \in (1..MaxRevisions) \union {Anything}, name \in Names \union {Anything},
        expected \in plans \union {Anything} :
       VerifyStart(pinned, name, expected)
  \/ Download \/ NoAnswer

PublishSpec == PublishInit /\ [][PublishNext]_publishVars

-----------------------------------------------------------------------------
(* Properties.                                                             *)

PublishTypeOK ==
  /\ local \in Archives /\ writes \in 0..MaxRewrites /\ Len(gist) <= MaxRevisions
  /\ planner \in {"idle", "gate", "count"} /\ (planner = "count") = (draft # {})
  /\ verifier \in {"idle", "download"} /\ (verifier = "download") = (cited # {})
  /\ \A c \in cited : c.revision \in DOMAIN gist /\ c.file \in DOMAIN gist[c.revision]

(* Whatever is pushed afterwards, the link a successful verification prints  *)
(* leads to an archive that verifies and passes the gate, at the revision    *)
(* that was asked for, and with the expected identity: neither a damaged or  *)
(* unfit archive, nor an archive that only states the planned identity, nor  *)
(* an old answer can pass for it (publish.py verify_published).              *)
CitedIsVerified ==
  \A k \in check :
    LET a == gist[k.cited.revision][k.cited.file] IN
    /\ a.holds = a.states /\ a.public /\ a.small
    /\ k.request.expected # Anything => a.holds = k.request.expected
    /\ k.request.pinned # Anything => k.cited.revision = k.request.pinned
    /\ k.request.name # Anything => k.cited.file = k.request.name

(* With a single file in the Gist, or with its name, and without a name when *)
(* there are more, the file verified is never one of several candidates.     *)
NeverGuesses ==
  \A k \in check :
    k.request.name = Anything => DOMAIN gist[k.cited.revision] = {k.cited.file}

(* _artifact_facts, "Verified manifest + integrity facts, or a refusal": the *)
(* planned identity is that of an archive that verifies. It does not hold    *)
(* when the archive is rewritten between the reads.                          *)
PlanIsVerified ==
  \A i \in plans : \E a \in Archives : Verifies(a) /\ Gated(a) /\ a.states = i
=============================================================================
