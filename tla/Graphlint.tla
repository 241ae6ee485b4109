------------------------------- MODULE Graphlint -------------------------------
(***************************************************************************)
(* The import graph of scripts/graphlint.js and the findings that rest on  *)
(* it.  Whether a file reaches a model through its imports is computed by  *)
(* a depth-first search that is started at each file in turn: a file in    *)
(* progress counts as reaching nothing, and the answer of every file that  *)
(* the search leaves is kept for the searches to come.                     *)
(*                                                                         *)
(* The search is spelt out with a stack.  A file is what the patterns see  *)
(* in it: its imports in order, whether it calls a model, its loop, its    *)
(* write, and whether it saves anything.                                   *)
(***************************************************************************)
EXTENDS Naturals, Sequences, FiniteSets, SequencesExt

CONSTANTS
  Files,        \* the files of the project, in the order of the listing
  MaxImports,   \* bound: imports of a file
  Loops,        \* the loops a file may have: "none", "capped", "unbounded"
  Writes,       \* the writes a file may have: "none", "guarded", "bare"
  Adapters      \* the files under adapters/ that no capability declares

VARIABLES
  imports,      \* file -> sequence of files
  calls,        \* the files that call a model
  saves,        \* the files that save something
  loop, write,  \* file -> its loop, its write
  started,      \* how many files the search has been started at
  stack,        \* the files in progress, innermost last, each with its next import
  entered,      \* the files entered since the search was started
  reach,        \* file -> "unknown", "yes" or "no"
  findings      \* rules found broken, by file; "none" before the rules are run

lintVars == <<imports, calls, saves, loop, write, started, stack, entered, reach, findings>>

FileSet == ToSet(Files)
LintAssumption == Files \in Seq(FileSet) /\ MaxImports \in Nat

Project == "."
projectVars == <<imports, calls, saves, loop, write>>

Frame(f) == [file |-> f, next |-> 1]
Top == stack[Len(stack)]

\* The next file: its answer may be there from an earlier search.
Start ==
  /\ stack = <<>> /\ started < Len(Files)
  /\ started' = started + 1
  /\ LET f == Files[started + 1] IN
     IF reach[f] # "unknown"
       THEN UNCHANGED <<stack, entered>>
       ELSE stack' = <<Frame(f)>> /\ entered' = {f}
  /\ UNCHANGED <<reach, findings, projectVars>>

\* The answer is kept and the file left.
Settle(answer) ==
  /\ reach' = [reach EXCEPT ![Top.file] = answer]
  /\ stack' = Front(stack)
  /\ UNCHANGED entered

\* Mutant of ImportReaches: a file in progress will turn out to reach a model.
ImportReachesOrRuns(f) == reach[f] = "yes" \/ (reach[f] = "unknown" /\ f \in entered)

ImportReaches(f) == reach[f] = "yes"

\* A file that is being searched, or was entered since the start, is not entered again.
Search ==
  /\ stack # <<>>
  /\ LET f == Top.file  i == Top.next IN
     CASE f \in calls -> Settle("yes")
       [] f \notin calls /\ i > Len(imports[f]) -> Settle("no")
       [] OTHER ->
            LET g == imports[f][i] IN
            CASE ImportReaches(g) -> Settle("yes")
              [] ~ImportReaches(g) /\ (reach[g] = "no" \/ g \in entered) ->
                   stack' = [stack EXCEPT ![Len(stack)].next = i + 1] /\ UNCHANGED <<reach, entered>>
              [] OTHER ->
                   stack' = Append(stack, Frame(g)) /\ entered' = entered \union {g} /\ UNCHANGED reach
  /\ UNCHANGED <<started, findings, projectVars>>

\* The rules that look beyond a line: R1 at a loop, R2 at the project, R3 at a write
\* and R6 at an adapter.
LintProject ==
  /\ findings = {"not run"} /\ stack = <<>> /\ started = Len(Files)
  /\ findings' =
       {<<"R1", f>> : f \in {g \in FileSet : loop[g] = "unbounded" /\ reach[g] = "yes"}}
       \union {<<"R2", Project>> : f \in {g \in calls : saves = {}}}
       \union {<<"R3", f>> : f \in {g \in FileSet : write[g] = "bare"}}
       \union {<<"R6", f>> : f \in {g \in Adapters : write[g] # "none"}}
  /\ UNCHANGED <<started, stack, entered, reach, projectVars>>

ImportLists ==
  {s \in UNION {[1..n -> FileSet] : n \in 0..MaxImports} : IsInjective(s)}

LintInit ==
  /\ imports \in [FileSet -> ImportLists]
  /\ calls \in SUBSET FileSet /\ saves \in {{}, FileSet}
  /\ loop \in [FileSet -> Loops] /\ write \in [FileSet -> Writes]
  /\ started = 0 /\ stack = <<>> /\ entered = {}
  /\ reach = [f \in FileSet |-> "unknown"]
  /\ findings = {"not run"}

Linted == findings # {"not run"} /\ UNCHANGED lintVars

LintNext == Start \/ Search \/ LintProject \/ Linted

LintSpec == LintInit /\ [][LintNext]_lintVars

-----------------------------------------------------------------------------
(* Properties.                                                              *)

\* The files that a file reaches in at least one step: the least set that holds its
\* imports and, with a file, the file's imports.
Imported(f) == ToSet(imports[f])
Closed(files) == \A g \in files : Imported(g) \subseteq files
ReachedFrom(f) ==
  {g \in FileSet :
     \A files \in SUBSET FileSet : Imported(f) \subseteq files /\ Closed(files) => g \in files}
ReachesModel(f) == f \in calls \/ ReachedFrom(f) \cap calls # {}
Cyclic(f) == \E g \in ReachedFrom(f) \union {f} : g \in ReachedFrom(g)

\* buildModel, the kept answers of the search: whatever was searched before it, a file
\* is said to reach a model only when it does, and always when it does unless it leads
\* into a cycle of imports.
SearchIsExactButForCycles ==
  \A f \in FileSet : reach[f] # "unknown" =>
    /\ reach[f] = "yes" => ReachesModel(f)
    /\ reach[f] = "no" /\ ~Cyclic(f) => ~ReachesModel(f)

================================================================================
