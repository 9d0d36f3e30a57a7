----------------------------- MODULE MCArchives -----------------------------
(***************************************************************************)
(* What becomes of an archive, one component at a time: it is verified and *)
(* unlocked, it is published, and the publication is pushed and verified   *)
(* again. Each has its own notion of an archive and shares no state with   *)
(* the others, so a behaviour is one of a single component, the part, and  *)
(* the others stay in one of their initial states.                         *)
(***************************************************************************)
EXTENDS MCArchive, MCPublication, MCPublish, TLC

MCSymmetry == Permutations(Traces) \union Permutations(Passphrases)

VARIABLE part

partVars == <<part, archiveVars, publicationVars, publishVars>>

SumInit ==
  /\ part \in {"archive", "publication", "publish"}
  /\ part # "publication" => source = Clean
  /\ part # "publish" => local = Small /\ open = TRUE
  /\ ArchiveInit /\ PublicationInit /\ PublishInit

ArchiveStep ==
  part = "archive" /\ ArchiveNext /\ UNCHANGED <<part, publicationVars, publishVars>>
PublicationStep ==
  part = "publication" /\ PublicationNext /\ UNCHANGED <<part, archiveVars, publishVars>>
PublishStep ==
  part = "publish" /\ PublishNext /\ UNCHANGED <<part, archiveVars, publicationVars>>

SumNext == ArchiveStep \/ PublicationStep \/ PublishStep

SumSpec == SumInit /\ [][SumNext]_partVars

(* Whatever commands are interrupted or overtaken, the state of the three     *)
(* components has its types, and the report next to a published archive is of *)
(* that archive, but between the two writes and after a command was killed    *)
(* there: then an old report, or none, may stand beside a new archive         *)
(* (prepare_publication).                                                     *)
FilesInOrder == ArchiveTypeOK /\ PublicationTypeOK /\ SidecarDescribes /\ PublishTypeOK
=============================================================================
