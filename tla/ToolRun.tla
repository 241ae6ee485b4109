------------------------------- MODULE ToolRun ---------------------------------
(***************************************************************************)
(* The registry of external tools (scripts/ext-tool-runner.js) and the     *)
(* evaluation copies they run in (scripts/evalenv.js).  A registry runs    *)
(* its tools one after the other: open the profile that a tool needs,      *)
(* which walks the source tree into a new directory under a budget and     *)
(* tries the network stub there, spawn the tool, read its report, settle   *)
(* its status and remove the directory.                                    *)
(*                                                                         *)
(* The source tree is live: files and directories appear in it while it is *)
(* walked.  A runtime, a report path and a tool's ending are inputs.       *)
(***************************************************************************)
EXTENDS Naturals, Sequences, FiniteSets, Functions

CONSTANTS
  Registry,     \* the registry: a sequence of tool specifications
  Entries,      \* what the source tree may hold: [kind, size, within, name]
  Root,         \* the source directory itself, as a place entries are within
  Canonical,    \* the lower-case form of an entry's name
  MaxDisk, MaxFiles, \* max_disk_mb, max_files, in entries of unit size
  Runtime,      \* whether a container runtime answers
  HostUser,     \* "user", "root" or "none": who the container can run as
  MaxChanges,   \* bound: changes of the source tree
  MaxFailures   \* bound: writes and probes of the copy that fail

ToolAssumption ==
  /\ {MaxDisk, MaxFiles, MaxChanges, MaxFailures} \subseteq Nat
  /\ \A e \in Entries : e.size \in Nat

VARIABLES
  source,       \* the entries the source tree holds
  toolPhase,    \* "next", "copying", "stubbing", "ready", "ran", "thrown"
  tool,         \* the index of the tool at hand
  copy,         \* the evaluation copy: its entries, the bytes and entries counted
  ending,       \* how the tool ended: its exit and the status its output claims
  reportFiles,  \* the statuses in the report files outside the copies, by path
  results,      \* the records of the tools so far
  changes, failures

runVars == <<source, toolPhase, tool, copy, ending, reportFiles, results, changes, failures>>

NoPath == "no report_path"
ToolSpec(i) == Registry[i]

-----------------------------------------------------------------------------
(* Evaluation copies.                                                       *)

EmptyCopy == [entries |-> {}, bytes |-> 0, counted |-> 0, todo |-> {}, isolated |-> FALSE]

\* The excluded names, in any case.
Excluded(e) == Canonical[e.name] \in {".git", ".graphsmith", "node_modules", ".evalenv"}

\* What is left of a listing: no link, no device, nothing excluded.
Listing(place) ==
  {e \in source : e.within = place /\ ~Excluded(e) /\ e.kind \in {"file", "dir"}}

\* Mutant of Recorded: a directory holds no bytes and no files and is not counted.
RecordedFilesOnly(c, e) ==
  [entries |-> c.entries \union {e}, bytes |-> c.bytes + e.size,
   counted |-> IF e.kind = "file" THEN c.counted + 1 ELSE c.counted,
   todo |-> (c.todo \ {e}) \union (IF e.kind = "dir" THEN Listing(e.name) ELSE {}),
   isolated |-> FALSE]

\* The copy after one more entry: a directory is listed when the walk enters it.
Recorded(c, e) ==
  [entries |-> c.entries \union {e}, bytes |-> c.bytes + e.size, counted |-> c.counted + 1,
   todo |-> (c.todo \ {e}) \union (IF e.kind = "dir" THEN Listing(e.name) ELSE {}),
   isolated |-> FALSE]

OverBudget(c) == c.bytes > MaxDisk \/ c.counted > MaxFiles

RequiresContainer(spec) == spec.trust # "trusted"

ToolRecord(i, status, exit, executed) ==
  [tool |-> i, status |-> status, exit |-> exit, executed |-> executed]

\* The record of a tool, after which its copy is gone.
SettleTool(status, exit, executed) ==
  /\ results' = Append(results, ToolRecord(tool, status, exit, executed))
  /\ toolPhase' = "next" /\ tool' = tool + 1
  /\ copy' = EmptyCopy /\ ending' = [exit |-> "none", payload |-> "none"]

\* The profile cannot be had: a tool that needs the container is unavailable, and the
\* error of the standard profile ends the whole registry.
Refuse ==
  IF RequiresContainer(ToolSpec(tool))
    THEN SettleTool("unavailable", "none", FALSE)
    ELSE /\ toolPhase' = "thrown" /\ copy' = EmptyCopy
         /\ UNCHANGED <<tool, ending, results>>

OpenProfile ==
  /\ toolPhase = "next" /\ tool \in DOMAIN Registry
  /\ IF RequiresContainer(ToolSpec(tool)) /\ ~Runtime
       THEN Refuse
       ELSE /\ toolPhase' = "copying" /\ copy' = [EmptyCopy EXCEPT !.todo = Listing(Root)]
            /\ UNCHANGED <<tool, ending, results>>
  /\ UNCHANGED <<source, reportFiles, changes, failures>>

\* An entry is counted once it is there, so the copy that breaches is one too large.
CopyEntry ==
  /\ toolPhase = "copying"
  /\ \E e \in copy.todo :
       LET c == Recorded(copy, e) IN
       IF OverBudget(c) THEN Refuse ELSE copy' = c /\ UNCHANGED <<toolPhase, tool, ending, results>>
  /\ UNCHANGED <<source, reportFiles, changes, failures>>

CopyEnds ==
  /\ toolPhase = "copying" /\ copy.todo = {}
  /\ toolPhase' = "stubbing"
  /\ UNCHANGED <<source, tool, copy, ending, reportFiles, results, changes, failures>>

\* A read or write of the walk fails.
CopyFails ==
  /\ toolPhase = "copying" /\ failures < MaxFailures
  /\ failures' = failures + 1 /\ Refuse
  /\ UNCHANGED <<source, reportFiles, changes>>

\* The audit of a copy: neither links nor the state of the project.  A file that was
\* just written has no second name.
CheckIsolation(c) ==
  \A e \in c.entries : e.kind # "link" /\ Canonical[e.name] \notin {".git", ".graphsmith"}

\* The stub is written and tried in a child process with the environment of the copy.
\* The audit that follows is filed and refuses nothing.
VerifyStub ==
  /\ toolPhase = "stubbing"
  /\ \/ /\ toolPhase' = "ready" /\ copy' = [copy EXCEPT !.isolated = CheckIsolation(copy)]
        /\ UNCHANGED <<tool, ending, results, failures>>
     \/ failures < MaxFailures /\ failures' = failures + 1 /\ Refuse
  /\ UNCHANGED <<source, reportFiles, changes>>

-----------------------------------------------------------------------------
(* Running a tool.                                                          *)

\* A container runs as the host's user, or as nobody; a root host that cannot
\* open the copy to nobody has no user to run it as.
ContainerUser == HostUser # "root"

Exits == {"zero", "nonzero", "timeout", "signal", "spawn failed"}
Delegable(spec) == spec.image /\ ContainerUser

\* A tool prints its status or leaves it in its report file, or does neither.
Spawn(spec) ==
  \E exit \in Exits, said \in spec.says \union {"none"} :
    /\ exit = "spawn failed" => said = "none"
    /\ \/ ending' = [exit |-> exit, payload |-> said] /\ UNCHANGED reportFiles
       \/ /\ spec.report # NoPath /\ said # "none"
          /\ ending' = [exit |-> exit, payload |-> "none"]
          /\ reportFiles' = [reportFiles EXCEPT ![spec.report] = said]
    /\ toolPhase' = "ran" /\ UNCHANGED <<tool, copy, results>>

RunTool ==
  /\ toolPhase = "ready"
  /\ IF ~ToolSpec(tool).command THEN SettleTool("error", "none", FALSE) /\ UNCHANGED reportFiles
     ELSE IF RequiresContainer(ToolSpec(tool)) /\ ~Delegable(ToolSpec(tool)) THEN
            SettleTool("unavailable", "none", FALSE) /\ UNCHANGED reportFiles
     ELSE Spawn(ToolSpec(tool))
  /\ UNCHANGED <<source, changes, failures>>

\* The report file comes before the output, whenever it is there.
Payload(spec) ==
  IF spec.report # NoPath /\ reportFiles[spec.report] # "none"
    THEN reportFiles[spec.report] ELSE ending.payload

\* Only a timeout of the processes that did not exit has an exit code.
ExitCode(exit) ==
  CASE exit = "zero" -> "0" [] exit \in {"nonzero", "timeout"} -> "not 0" [] OTHER -> "null"

ReconcileExit(payload, code) ==
  IF payload = "none" /\ code = "0" THEN "pass"
  ELSE IF payload = "none" /\ code = "null" THEN "error"
  ELSE IF payload = "none" THEN "fail"
  ELSE IF payload = "pass" /\ code = "not 0" THEN "fail"
  ELSE payload

NormalizeReport ==
  /\ toolPhase = "ran"
  /\ LET code == ExitCode(ending.exit) IN
     SettleTool(ReconcileExit(Payload(ToolSpec(tool)), code), code, TRUE)
  /\ UNCHANGED <<source, reportFiles, changes, failures>>

-----------------------------------------------------------------------------

\* Whatever is in a directory of the tree is there with the directory.
IsTree(entries) ==
  \A e \in entries : e.within # Root => \E d \in entries : d.kind = "dir" /\ d.name = e.within

SourceChanges ==
  /\ toolPhase = "copying" /\ changes < MaxChanges
  /\ \E e \in Entries \ source : source' = source \union {e} /\ IsTree(source')
  /\ changes' = changes + 1
  /\ UNCHANGED <<toolPhase, tool, copy, ending, reportFiles, results, failures>>

RegistryDone ==
  /\ toolPhase = "thrown" \/ (toolPhase = "next" /\ tool \notin DOMAIN Registry)
  /\ UNCHANGED runVars

ToolInit ==
  /\ source \in {s \in SUBSET Entries : IsTree(s)}
  /\ toolPhase = "next" /\ tool = 1
  /\ copy = EmptyCopy /\ ending = [exit |-> "none", payload |-> "none"]
  /\ reportFiles = [path \in Range([i \in DOMAIN Registry |-> Registry[i].report]) |-> "none"]
  /\ results = <<>> /\ changes = 0 /\ failures = 0

ToolNext ==
  \/ OpenProfile \/ CopyEntry \/ CopyEnds \/ CopyFails \/ VerifyStub
  \/ RunTool \/ NormalizeReport \/ SourceChanges \/ RegistryDone

RunSpec == ToolInit /\ [][ToolNext]_runVars

-----------------------------------------------------------------------------
(* Properties.                                                              *)

\* evalenv.js "Never leave a partial/over-budget copy on disk", createBudget and the
\* walk: whatever appears in the source while it is walked, the copy that a tool is
\* started in keeps to both limits, directories counted, and holds nothing excluded,
\* in any spelling, nor anything below it; and it is filed as isolated, although a
\* copy that is not would be handed out as well.
ToolsGetBoundedCopies ==
  /\ toolPhase \in {"ready", "ran"} => copy.isolated
  /\ toolPhase \in {"stubbing", "ready", "ran"} =>
       /\ Cardinality(copy.entries) <= MaxFiles /\ copy.bytes <= MaxDisk
       /\ \A e \in copy.entries :
            /\ ~Excluded(e) /\ e.kind # "link"
            /\ e.within # Root => \E d \in copy.entries : d.name = e.within /\ d.kind = "dir"

\* The comment of reconcileExitAndPayload: "only exit 0 ... pass-eligible".
PassMeansExitZero ==
  \A i \in DOMAIN results : results[i].status = "pass" => results[i].exit = "0"

================================================================================
