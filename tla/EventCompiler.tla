----------------------------- MODULE EventCompiler ------------------------------
(***************************************************************************)
(* The harvest of scripts/event-compiler.js: run logs, each line chained   *)
(* to the lines before it, become the events that proposals are mined      *)
(* from.  The compiler reads the anchors, the adoption log and the window  *)
(* once, then one run directory after the other and at last all of them    *)
(* again, while runs append, anchors are set and logs get damaged.  One    *)
(* broken run discards the whole harvest.                                  *)
(*                                                                         *)
(* The hash of a line is what it is computed from: the line and all the    *)
(* lines before it.                                                        *)
(***************************************************************************)
EXTENDS Integers, SequencesExt

CONSTANTS
  RunDirs,              \* run directories, compiled in the order of RunListing
  RunListing,           \* a sequence of runs
  Records,           \* bodies of log lines
  MaxLines, MaxDamaged, MaxHarvests    \* bounds

CompilerAssumption ==
  /\ RunListing \in Seq(RunDirs) /\ {MaxLines, MaxDamaged, MaxHarvests} \subseteq Nat

VARIABLES
  made,       \* the runs whose directory is there
  runLog,     \* of each run: lines with the bodies they are chained to
  anchors,    \* run-anchors.jsonl: the chain head of a run, or none
  finished,   \* the bodies of a run when its anchor was set
  harvest,    \* the compilation under way or done
  damaged, harvests

compilerVars == <<made, runLog, anchors, finished, harvest, damaged, harvests>>

NoHead == <<>>
Bodies(lines) == [i \in DOMAIN lines |-> lines[i].body]
NoHarvest == [phase |-> "none"]
Compiling == harvest.phase = "compiling"

-----------------------------------------------------------------------------
(* Verification of one log.                                                 *)

Before(lines, i) == Bodies(SubSeq(lines, 1, i - 1))

\* Every line names the hash of the one before and, where it names its own, its own.
ChainHolds(lines) ==
  \A i \in DOMAIN lines :
    /\ lines[i].prev = Before(lines, i)
    /\ lines[i].own = Append(lines[i].prev, lines[i].body)

\* A line cut short at the very end is skipped; elsewhere it ends the compilation.
Readable(lines) == IF lines # <<>> /\ Last(lines).torn THEN Front(lines) ELSE lines
TornInside(lines) == \E i \in 1..Len(lines) - 1 : lines[i].torn

\* Mutant of Anchored: a run without an anchor counts as anchored.
AnchoredOrNone(r, known) ==
  LET lines == Readable(runLog[r]) IN known[r] = NoHead \/ known[r] = Bodies(lines)

\* The chain head of the log is the one in the anchors as they were read.
Anchored(r, known) ==
  LET lines == Readable(runLog[r]) IN known[r] # NoHead /\ known[r] = Bodies(lines)

-----------------------------------------------------------------------------
(* Extraction.                                                              *)

\* A line of an unknown type, or with an unknown code where safety does not demand
\* the event, is put aside and counted.
Usable(body) == body.known /\ (body.coded \/ body.safety)

Extract(r) ==
  {[run |-> r, place |-> i, body |-> runLog[r][i].body] :
     i \in {j \in DOMAIN Readable(runLog[r]) : Usable(runLog[r][j].body)}}

-----------------------------------------------------------------------------
(* Compilation.                                                             *)

BeginHarvest ==
  /\ ~Compiling /\ harvests < MaxHarvests
  /\ harvests' = harvests + 1
  /\ harvest' = [phase |-> "compiling", next |-> 1, known |-> anchors, events |-> {},
                 valid |-> TRUE, view |-> {}]
  /\ UNCHANGED <<made, runLog, anchors, finished, damaged>>

RunDone(h) == [h EXCEPT !.next = @ + 1]

\* A directory that is not there is skipped without invalidating the harvest.
SkipRun ==
  /\ Compiling /\ harvest.next \in DOMAIN RunListing /\ RunListing[harvest.next] \notin made
  /\ harvest' = RunDone(harvest)
  /\ UNCHANGED <<made, runLog, anchors, finished, damaged, harvests>>

\* A directory without a line in its log breaks the harvest as a broken log does.
CompileRun ==
  /\ Compiling /\ harvest.next \in DOMAIN RunListing
  /\ LET r == RunListing[harvest.next] IN
     /\ r \in made /\ ~TornInside(runLog[r])
     /\ harvest' =
          IF Readable(runLog[r]) # <<>> /\ ChainHolds(Readable(runLog[r])) /\ Anchored(r, harvest.known)
            THEN RunDone([harvest EXCEPT !.events = @ \cup Extract(r)])
            ELSE RunDone([harvest EXCEPT !.valid = FALSE])
  /\ UNCHANGED <<made, runLog, anchors, finished, damaged, harvests>>

\* CORRUPT_LOG is thrown out of the compilation, which leaves the last result behind.
CorruptLog ==
  /\ Compiling /\ \E i \in DOMAIN RunListing :
       /\ TornInside(runLog[RunListing[i]])
       /\ harvest.next = i \/ (harvest.next = Len(RunListing) + 1 /\ harvest.valid)
  /\ harvest' = NoHarvest
  /\ UNCHANGED <<made, runLog, anchors, finished, damaged, harvests>>

\* Whether a run, read a second time, lacks the safety event its anchor announces.
SafetySkipped ==
  \E i \in DOMAIN RunListing :
    LET r == RunListing[i]  lines == Readable(runLog[r]) IN
    /\ lines # <<>> /\ ChainHolds(lines)
    /\ harvest.known[r] # NoHead /\ Last(harvest.known[r]).safety
    /\ ~\E e \in Extract(r) : e.body.safety

\* A valid harvest is written whole, an invalid one as an empty view.
FinishHarvest ==
  /\ Compiling /\ harvest.next = Len(RunListing) + 1
  /\ ~(harvest.valid /\ \E i \in DOMAIN RunListing : TornInside(runLog[RunListing[i]]))
  /\ LET valid == harvest.valid /\ ~SafetySkipped IN
     harvest' = [harvest EXCEPT !.phase = "done", !.valid = valid,
                                !.view = IF valid THEN harvest.events ELSE {}]
  /\ UNCHANGED <<made, runLog, anchors, finished, damaged, harvests>>

-----------------------------------------------------------------------------
(* The runs, and damage.                                                    *)

MakeDir(r) ==
  /\ r \notin made /\ made' = made \cup {r}
  /\ UNCHANGED <<runLog, anchors, finished, harvest, damaged, harvests>>

AppendLine(r, body) ==
  /\ r \in made /\ Len(runLog[r]) < MaxLines
  /\ LET bodies == Bodies(runLog[r]) IN
     runLog' = [runLog EXCEPT ![r] = Append(@, [body |-> body, prev |-> bodies,
                                          own |-> Append(bodies, body), torn |-> FALSE])]
  /\ UNCHANGED <<made, anchors, finished, harvest, damaged, harvests>>

\* The manager's last act, and no fact of the log yet if it dies before.
SetAnchor(r) ==
  /\ runLog[r] # NoHead /\ anchors[r] = NoHead
  /\ anchors' = [anchors EXCEPT ![r] = Bodies(runLog[r])]
  /\ finished' = anchors'
  /\ UNCHANGED <<made, runLog, harvest, damaged, harvests>>

\* A log that is damaged earlier never matches its anchor.
DamageRun(r) ==
  /\ anchors[r] # NoHead /\ damaged < MaxDamaged /\ damaged' = damaged + 1
  /\ \E i \in DOMAIN runLog[r] :
       \/ \E body \in Records \ {runLog[r][i].body} : runLog' = [runLog EXCEPT ![r][i].body = body]
       \/ runLog' = [runLog EXCEPT ![r][i].torn = TRUE]
       \/ runLog' = [runLog EXCEPT ![r] = RemoveAt(@, i)]
  /\ UNCHANGED <<made, anchors, finished, harvest, harvests>>

CompilerInit ==
  /\ made = {} /\ runLog = [r \in RunDirs |-> <<>>]
  /\ anchors = [r \in RunDirs |-> NoHead] /\ finished = anchors
  /\ harvest = NoHarvest /\ damaged = 0 /\ harvests = 0

CompilerNext ==
  \/ BeginHarvest \/ SkipRun \/ CompileRun \/ CorruptLog \/ FinishHarvest
  \/ \E r \in RunDirs :
       MakeDir(r) \/ (\E body \in Records : AppendLine(r, body)) \/ SetAnchor(r) \/ DamageRun(r)

CompilerSpec == CompilerInit /\ [][CompilerNext]_compilerVars

-----------------------------------------------------------------------------
\* Proposals are mined from finished runs only, and from the whole of them: a compiled
\* view holds of each run nothing, or exactly the usable lines that the run had logged
\* when its anchor was set, whatever was appended, torn or altered meanwhile.
HarvestIsAnchored ==
  harvest.phase = "done" =>
    \A r \in RunDirs :
      {e \in harvest.view : e.run = r} \in
        {{}, {[run |-> r, place |-> i, body |-> finished[r][i]] :
                i \in {j \in DOMAIN finished[r] : Usable(finished[r][j])}}}
=============================================================================
