----------------------------- MODULE ActiveTree --------------------------------
(***************************************************************************)
(* The active tree as a reader sees it: scripts/loaders.js resolves ACTIVE *)
(* and loads the appendix and the prompts, scripts/manifest.js makes and   *)
(* verifies the inventory of a tree, and scripts/verify.js reports on both *)
(* without the lock, while a promotion (scripts/promote.js) builds trees,  *)
(* moves ACTIVE and collects the trees that are no longer needed.          *)
(*                                                                         *)
(* A tree is named by the hash of its manifest, so a name IS an inventory: *)
(* the function from the paths it lists to their contents.                 *)
(***************************************************************************)
EXTENDS Naturals, Functions, SequencesExt

CONSTANTS
  Contents,             \* what a file can hold
  Unfit,                \* contents a loader quarantines (a marker, too long, not UTF-8)
  MaxEvents,            \* bound on promotions and damage together, where damage counts twice
  MaxDamage, MaxReports

ActiveTreeAssumption ==
  Unfit \subseteq Contents /\ {MaxEvents, MaxDamage, MaxReports} \subseteq Nat

VARIABLES
  active,       \* the pointer: the inventory it names, or Unreadable
  trees,        \* name -> the manifest and the files in its directory
  history,      \* the trees of the completed transactions
  previous,     \* the tree a rollback of the active transaction would need, or NoTree
  promoter,     \* the promotion: at, staged inventory and payload, garbage
  reader,       \* the verify command: at, the pointer it read, the inventory it read
  report,
  promotions, damage, reports, concurrent       \* promotions begun since the report began

treeVars == <<active, trees, history, previous, promoter, reader, report, promotions, damage, reports, concurrent>>

Appendix == "graphsmith.learned.md"
Prompt == "workers/gather.prompt.md"
Paths == {Appendix, Prompt}
NoTree == [p \in {"none"} |-> "none"]
Unreadable == [p \in {"unreadable"} |-> "unreadable"]
First == [p \in Paths |-> CHOOSE c \in Contents \ Unfit : TRUE]
NoReport == [tree |-> "none"]

\* generate("tree"): the inventory of the files that are there.
Generate(files) == files

\* verifyTree: nothing missing, nothing different, nothing extra.
VerifyTree(manifest, files) == manifest = files

\* A directory without its manifest is refused, as is one whose manifest is another.
Bound(pointer, dirs) == pointer \in DOMAIN dirs /\ dirs[pointer].manifest = pointer

-----------------------------------------------------------------------------
(* A promotion.                                                             *)

PromotionUnchanged == UNCHANGED <<reader, report, damage, reports>>

\* stageUnlocked: an edit of a copy of the active tree, whatever has become of its files, or
\* a tree that is there already and verifies.
Stage ==
  /\ promoter.at = "idle" /\ promotions + 2 * damage < MaxEvents /\ active \in DOMAIN trees
  /\ \/ \E p \in DOMAIN trees[active].files, c \in Contents :
          LET payload == [trees[active].files EXCEPT ![p] = c] IN
          promoter' = [at |-> "staged", name |-> Generate(payload), payload |-> payload, garbage |-> {}]
     \/ \E n \in DOMAIN trees :
          /\ VerifyTree(trees[n].manifest, trees[n].files)
          /\ promoter' = [at |-> "staged", name |-> trees[n].manifest, payload |-> NoTree, garbage |-> {}]
  /\ PromotionUnchanged /\ UNCHANGED <<active, trees, history, previous, promotions, concurrent>>

Garbage ==
  LET older == {history[i] : i \in {j \in DOMAIN history : j + 2 <= Len(history)}}
  IN (older \cap DOMAIN trees) \ {active, previous}

Begin ==
  /\ promoter.at = "staged" /\ active # Unreadable
  /\ promoter' = [promoter EXCEPT !.at = "collecting", !.garbage = Garbage]
  /\ promotions' = promotions + 1 /\ concurrent' = concurrent + 1
  /\ PromotionUnchanged /\ UNCHANGED <<active, trees, history, previous>>

\* garbageCollect removes a directory entry by entry.
Collect ==
  /\ promoter.at = "collecting"
  /\ \E n \in promoter.garbage \cap DOMAIN trees :
       \/ /\ trees[n].manifest # NoTree
          /\ trees' = [trees EXCEPT ![n].manifest = NoTree]
       \/ \E p \in DOMAIN trees[n].files :
            trees' = [trees EXCEPT ![n].files = Restrict(@, DOMAIN @ \ {p})]
       \/ /\ trees[n].manifest = NoTree /\ DOMAIN trees[n].files = {}
          /\ trees' = Restrict(trees, DOMAIN trees \ {n})
  /\ PromotionUnchanged /\ UNCHANGED <<active, history, previous, promoter, promotions, concurrent>>

\* installStaged, the flip of ACTIVE and the end of the transaction.  A tree that has the
\* name already has to verify; otherwise the promotion halts.
Publish(reversible) ==
  LET n == promoter.name
      there == n \in DOMAIN trees
      fails == \/ active = Unreadable
               \/ there /\ ~(trees[n].manifest = n /\ VerifyTree(trees[n].manifest, trees[n].files))
               \/ ~there /\ promoter.payload = NoTree
  IN
  /\ promoter.at = "collecting" /\ promoter.garbage \cap DOMAIN trees = {}
  /\ IF fails
       THEN UNCHANGED <<active, trees, history, previous>>
       ELSE /\ active' = n
            /\ trees' = IF there THEN trees
                        ELSE [m \in DOMAIN trees \cup {n} |-> IF m = n THEN [manifest |-> n, files |-> promoter.payload]
                                                              ELSE trees[m]]
            /\ history' = LET h == IF history = << >> THEN <<active>> ELSE history
                          IN IF Last(h) = n THEN h ELSE Append(h, n)
            /\ previous' = IF reversible THEN active ELSE NoTree
  /\ promoter' = [at |-> "idle"]
  /\ PromotionUnchanged /\ UNCHANGED <<promotions, concurrent>>

-----------------------------------------------------------------------------
(* The verify command.                                                      *)

ReaderUnchanged == UNCHANGED <<active, trees, history, previous, promoter, promotions, damage, concurrent>>

ReaderGoto(place) == reader' = [reader EXCEPT !.at = place]

\* resolveActive reads ACTIVE once.
ReadActive ==
  /\ reader.at = "idle" /\ reports < MaxReports /\ reports' = reports + 1
  /\ IF active = Unreadable
       THEN reader' = [at |-> "idle"] /\ report' = [tree |-> "fail"]
       ELSE reader' = [at |-> "resolve", tree |-> active] /\ report' = NoReport
  /\ concurrent' = 0
  /\ UNCHANGED <<active, trees, history, previous, promoter, promotions, damage>>

\* The tree has to be there, with the manifest that ACTIVE is bound to.
ResolveActive ==
  /\ reader.at = "resolve"
  /\ IF Bound(reader.tree, trees)
       THEN ReaderGoto("inventory") /\ UNCHANGED report
       ELSE reader' = [at |-> "idle"] /\ report' = [tree |-> "fail"]
  /\ ReaderUnchanged /\ UNCHANGED reports

\* verifyTree reads the manifest again, lists the directory, and then hashes the files.
ReadInventory ==
  /\ reader.at = "inventory"
  /\ IF reader.tree \in DOMAIN trees /\ trees[reader.tree].manifest \notin {NoTree, Unreadable}
       THEN /\ reader' = [at |-> "hash", tree |-> reader.tree, manifest |-> trees[reader.tree].manifest,
                          listed |-> DOMAIN trees[reader.tree].files]
            /\ UNCHANGED report
       ELSE ReaderGoto("appendix") /\ report' = [tree |-> "fail", name |-> reader.tree]
  /\ ReaderUnchanged /\ UNCHANGED reports

\* A listed file that has gone makes it throw; one that came later is not looked at.
HashFiles ==
  /\ reader.at = "hash"
  /\ LET files == IF reader.tree \in DOMAIN trees THEN trees[reader.tree].files ELSE NoTree
         read == reader.listed \cap DOMAIN reader.manifest \subseteq DOMAIN files
         same == read /\ VerifyTree(reader.manifest, [p \in reader.listed |->
                                       IF p \in DOMAIN files THEN files[p] ELSE "not read"])
     IN report' = [tree |-> IF same THEN "ok" ELSE "fail", name |-> reader.tree]
  /\ reader' = [at |-> "appendix", tree |-> reader.tree]
  /\ ReaderUnchanged /\ UNCHANGED reports

\* Mutant of ContextTree: each load asks ACTIVE again.
ContextOfActive == active

\* The tree a load reads from is the one the context was resolved to.
ContextTree == reader.tree

Load(p, missing) ==
  IF ContextTree \notin DOMAIN trees \/ p \notin DOMAIN trees[ContextTree].files THEN [status |-> missing]
  ELSE LET c == trees[ContextTree].files[p]
       IN IF c \in Unfit THEN [status |-> "quarantined"] ELSE [status |-> "ok", sha |-> c]

\* A missing appendix is quarantined: a fresh tree has none.
LoadAppendix ==
  /\ reader.at = "appendix" /\ ReaderGoto("prompts")
  /\ report' = [tree |-> report.tree, name |-> report.name, appendix |-> Load(Appendix, "quarantined")]
  /\ ReaderUnchanged /\ UNCHANGED reports

\* The prompts are the ones in the directory; without any there is nothing to report.
LoadPrompts ==
  /\ reader.at = "prompts" /\ reader' = [at |-> "idle"]
  /\ report' = [tree |-> report.tree, name |-> report.name, appendix |-> report.appendix,
                prompt |-> Load(Prompt, "unavailable")]
  /\ ReaderUnchanged /\ UNCHANGED reports

-----------------------------------------------------------------------------
(* Whoever else can write the files.                                        *)

Damage ==
  /\ damage < MaxDamage /\ promotions + 2 * damage + 1 < MaxEvents /\ damage' = damage + 1
  /\ reader.at = "idle"
  /\ \/ active # Unreadable /\ active' = Unreadable /\ UNCHANGED trees
     \/ /\ UNCHANGED active
        /\ \E n \in DOMAIN trees :
             \/ trees' = [trees EXCEPT ![n].manifest = Unreadable]
             \/ \E p \in Paths \cup {"extra"}, c \in Contents :
                  LET files == trees[n].files IN
                  trees' = [trees EXCEPT ![n].files =
                              [q \in DOMAIN files \cup {p} |-> IF q = p THEN c ELSE files[q]]]
             \/ \E p \in DOMAIN trees[n].files :
                  trees' = [trees EXCEPT ![n].files = Restrict(@, DOMAIN @ \ {p})]
  /\ UNCHANGED <<history, previous, promoter, reader, report, promotions, reports, concurrent>>

TreeInit ==
  /\ active = First /\ trees = [n \in {First} |-> [manifest |-> First, files |-> First]]
  /\ history = << >> /\ previous = NoTree /\ promoter = [at |-> "idle"] /\ reader = [at |-> "idle"]
  /\ report = NoReport /\ promotions = 0 /\ damage = 0 /\ reports = 0 /\ concurrent = 0

TreeNext ==
  \/ Stage \/ Begin \/ Collect \/ \E reversible \in BOOLEAN : Publish(reversible)
  \/ ReadActive \/ ResolveActive \/ ReadInventory \/ HashFiles \/ LoadAppendix \/ LoadPrompts \/ Damage

TreeSpec == TreeInit /\ [][TreeNext]_treeVars

-----------------------------------------------------------------------------
(* Properties.                                                              *)

\* What one report calls good is one tree: the contents it gives are those of the
\* inventory that ACTIVE named when it began, however often ACTIVE has moved since and
\* whatever had been done to the files before.
OkReportIsOneTree ==
  reader.at = "idle" /\ report.tree = "ok" =>
    /\ report.appendix.status = "ok" => report.appendix.sha = report.name[Appendix]
    /\ report.prompt.status = "ok" => report.prompt.sha = report.name[Prompt]

\* A promotion that was under way when the reader resolved its tree never takes that tree
\* away, and neither does the next one, unless some tree has been active twice: the
\* collector goes by the places in the history, and an earlier place of the tree that was
\* replaced last makes it garbage at once.  A second promotion may always take it.
IntactTreeReportsOk ==
  damage = 0 /\ (concurrent = 0 \/ (concurrent = 1 /\ IsInjective(history))) => report.tree # "fail"

\* verifyTree runs beside promotions without the lock: a good report is of one tree, and
\* an intact project is not reported as damaged.
ReportTellsTheTree == OkReportIsOneTree /\ IntactTreeReportsOk
=============================================================================
