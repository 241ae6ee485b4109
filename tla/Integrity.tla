------------------------------ MODULE Integrity --------------------------------
(***************************************************************************)
(* The sentinel of scripts/verify.js, which only reads: the release and    *)
(* the project manifest against the files they list, the active tree, the  *)
(* hash chain of the adoption log and its anchor in the project manifest,  *)
(* and from these the failure domain.  The capability profiles that it     *)
(* draws up are in CapabilityReports.                                      *)
(*                                                                         *)
(* Promotions, which are modelled in PromotionTx, extend the log and its   *)
(* anchor.  Damage happens to files, manifests, the tree and the log.  A   *)
(* digest is the value it is the digest of.                                *)
(***************************************************************************)
EXTENDS Integers, SequencesExt

CONSTANTS
  ReleaseFiles, ProjectFiles,   \* the files either manifest lists
  Constitutional,               \* the constitutional set of the release
  Dir,                          \* the top directory of each file
  OtherDirs,                    \* directories in which nothing is listed
  MaxEntries, MaxLosses         \* bounds on the log and on what goes wrong

IntegrityAssumption ==
  /\ Constitutional \subseteq ReleaseFiles /\ {MaxEntries, MaxLosses} \subseteq Nat
  /\ DOMAIN Dir = ReleaseFiles \cup ProjectFiles

VARIABLES
  status,     \* of each listed file: "ok", "missing", "symlink-refused", "hash-mismatch"
  extra,      \* directories that hold a file nobody lists
  release, projectManifest,   \* the manifests: "present" or what is wrong with them
  parent,     \* whether the project manifest still names this release
  tree,       \* the active tree: "ok", "no_pointer", "unverified", "uninitialized"
  adoptionLog, anchoredHead,  \* the adoption log and the digest that the project manifest anchors
  written,    \* the log as the promotions wrote it
  losses, integrityReport

integrityVars == <<status, extra, release, projectManifest, parent, tree, adoptionLog,
                   anchoredHead, written, losses, integrityReport>>
filesOnDisk == <<status, extra, release, projectManifest, parent, tree>>

NoIntegrityReport == [domain |-> "unknown"]
Null == <<>>

-----------------------------------------------------------------------------
(* The adoption log.                                                        *)

Digest(entry) == <<entry.seq, entry.body, entry.prev>>

Entry(seq, body, prev) ==
  [seq |-> seq, body |-> body, prev |-> prev, digest |-> <<seq, body, prev>>, shaped |-> TRUE]

Linked(entries) ==
  /\ entries[1].prev = Null
  /\ \A i \in 2..Len(entries) : /\ entries[i].prev = entries[i - 1].digest
                                /\ entries[i].seq = entries[i - 1].seq + 1

\* Mutant of ContentsMatch: the linkage fields are trusted to cover the body.
ContentsUnread(entries) == TRUE

ContentsMatch(entries) == \A i \in DOMAIN entries : entries[i].digest = Digest(entries[i])

\* A last line cut short is skipped; a line that does not parse elsewhere, or an
\* entry without its fields, makes the log corrupt.
VerifyAdoptionLog(entries, anchor) ==
  IF \E i \in DOMAIN entries : ~entries[i].shaped THEN "corrupt"
  ELSE IF entries = <<>> THEN "empty"
  ELSE IF Linked(entries) /\ ContentsMatch(entries)
          /\ anchor \in {Null, Last(entries).digest} THEN "ok"
  ELSE "chain-broken"

-----------------------------------------------------------------------------
(* Manifests.                                                               *)

Mismatched(listed) == {f \in listed : status[f] # "ok"}

\* Extra files are looked for below the directories that hold a listed file.
ExtraDirs(listed) == extra \cap {Dir[f] : f \in listed}

Unreadable == {"corrupt", "malformed"}

VerifyRelease ==
  CASE release = "absent" -> "unavailable"
    [] release = "present" /\ Mismatched(ReleaseFiles) = {} /\ ExtraDirs(ReleaseFiles) = {} -> "yes"
    [] OTHER -> "no"

\* Extra files weigh as constitutional ones where the set has a file of that directory.
ConstitutionalHit ==
  /\ release # "absent"
  /\ \/ release \in Unreadable
     \/ Mismatched(Constitutional) # {}
     \/ ExtraDirs(ReleaseFiles) \cap {Dir[f] : f \in Constitutional} # {}

\* "other-release": the manifest names a parent that is not the release found.
VerifyProjectManifest ==
  IF /\ projectManifest = "present" /\ Mismatched(ProjectFiles) = {} /\ ExtraDirs(ProjectFiles) = {}
     /\ release = "absent" \/ parent
    THEN "yes" ELSE "no"

-----------------------------------------------------------------------------
(* The report.                                                              *)

\* The head counts only when the manifest that carries it can be read.
Anchor == IF projectManifest \in {"present", "old-schema"} THEN anchoredHead ELSE Null

FailureDomain ==
  IF VerifyRelease = "no" /\ ConstitutionalHit THEN "trusted-core"
  ELSE IF \/ VerifyRelease = "no"
          \/ VerifyProjectManifest = "no" /\ projectManifest # "not-initialized"
          \/ tree \in {"no_pointer", "unverified"}
          \/ VerifyAdoptionLog(adoptionLog, Anchor) \in {"chain-broken", "corrupt"}
       THEN "evolvable-surface"
  ELSE "none"

RunIntegrity ==
  /\ integrityReport = NoIntegrityReport
  /\ integrityReport' = [domain |-> FailureDomain, release |-> VerifyRelease,
                project |-> VerifyProjectManifest, log |-> VerifyAdoptionLog(adoptionLog, Anchor)]
  /\ UNCHANGED <<filesOnDisk, adoptionLog, anchoredHead, written, losses>>

-----------------------------------------------------------------------------
(* What happens to the disk.                                                *)

LogPromotion ==
  /\ Len(adoptionLog) < MaxEntries /\ losses = 0 /\ projectManifest = "present"
  /\ LET entry == Entry(Len(adoptionLog) + 1, "as adopted",
                        IF adoptionLog = <<>> THEN Null ELSE Last(adoptionLog).digest) IN
     /\ adoptionLog' = Append(adoptionLog, entry) /\ written' = adoptionLog' /\ anchoredHead' = entry.digest
  /\ integrityReport' = NoIntegrityReport
  /\ UNCHANGED <<filesOnDisk, losses>>

Harm ==
  /\ losses < MaxLosses /\ losses' = losses + 1
  /\ integrityReport' = NoIntegrityReport
  /\ UNCHANGED <<anchoredHead, written>>

DamageFiles ==
  /\ \/ \E f \in DOMAIN status, s \in {"missing", "symlink-refused", "hash-mismatch"} :
          status' = [status EXCEPT ![f] = s] /\ UNCHANGED <<extra, release, projectManifest, parent, tree>>
     \/ \E d \in {Dir[f] : f \in DOMAIN Dir} \cup OtherDirs :
          extra' = extra \cup {d} /\ UNCHANGED <<status, release, projectManifest, parent, tree>>
     \/ \E bad \in Unreadable \cup {"old-schema", "absent"} :
          release' = bad /\ parent' = FALSE /\ UNCHANGED <<status, extra, projectManifest, tree>>
     \/ \E bad \in Unreadable \cup {"old-schema", "missing"} :
          projectManifest' = bad /\ UNCHANGED <<status, extra, release, parent, tree>>
     \/ parent' = FALSE /\ UNCHANGED <<status, extra, release, projectManifest, tree>>
     \/ \E bad \in {"no_pointer", "unverified"} :
          tree' = bad /\ UNCHANGED <<status, extra, release, projectManifest, parent>>
  /\ Harm /\ UNCHANGED adoptionLog

\* An entry is altered, lost, repeated, swapped with the next or torn.
DamageAdoptions ==
  /\ \E i \in DOMAIN adoptionLog :
       \/ adoptionLog' = [adoptionLog EXCEPT ![i].body = "as altered"]
       \/ adoptionLog' = [adoptionLog EXCEPT ![i].shaped = FALSE]
       \/ adoptionLog' = RemoveAt(adoptionLog, i)
       \/ adoptionLog' = InsertAt(adoptionLog, i, adoptionLog[i])
       \/ /\ i < Len(adoptionLog)
          /\ adoptionLog' = [adoptionLog EXCEPT ![i] = adoptionLog[i + 1],
                                                ![i + 1] = adoptionLog[i]]
       \/ adoptionLog' = <<>>
  /\ Harm /\ UNCHANGED filesOnDisk

IntegrityInit ==
  /\ status = [f \in DOMAIN Dir |-> "ok"] /\ extra = {} /\ release \in {"present", "absent"}
  /\ projectManifest \in {"present", "not-initialized"}
  /\ tree = IF projectManifest = "present" THEN "ok" ELSE "uninitialized"
  /\ parent = TRUE /\ adoptionLog = <<>> /\ anchoredHead = Null /\ written = <<>>
  /\ losses = 0 /\ integrityReport = NoIntegrityReport

IntegrityNext == RunIntegrity \/ LogPromotion \/ DamageFiles \/ DamageAdoptions

IntegritySpec == IntegrityInit /\ [][IntegrityNext]_integrityVars

-----------------------------------------------------------------------------
\* No alteration of an anchored adoption log passes: a log that is reported in order
\* is the one that the promotions wrote.  A log lost as a whole reads as "empty".
AlteredLogIsSeen ==
  /\ integrityReport # NoIntegrityReport /\ projectManifest = "present"
  /\ integrityReport.log = "ok"
  => adoptionLog = written
=============================================================================
