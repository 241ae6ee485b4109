----------------------------- MODULE Postmortem ------------------------------
(* graphsmith postmortem: the log of a coding session is read line by line     *)
(* (calls and results matched by id, results in any order or missing), each    *)
(* call is classified, and the report tells whether work was verified after    *)
(* the last edit.  scripts/postmortem*.js.  A shell command is the sequence of *)
(* its pipeline segments, a path is how it is written and where it leads.      *)
EXTENDS Integers, Sequences, SequencesExt, FiniteSets, FiniteSetsExt

CONSTANTS
  CallIds,       \* ids of tool calls; NoId is a call without one
  NoId,
  SessionTools,     \* the calls a session makes: [kind, segments, static, path]
  MaxCalls,  \* bound: calls of a session
  MaxMarks   \* bound: user messages counted

PostmortemAssumption == {MaxCalls, MaxMarks} \subseteq Nat /\ NoId \notin CallIds

VARIABLES
  harness,  \* "claude-code" or "codex"
  lines,    \* the kinds of lines read: "own", "foreign" (the other harness's)
  cwd,      \* whether the session's directory is known
  sessionCalls,    \* occurrences in the order they were issued: [id, tool, result]
  marks,    \* user messages, compactions, subagents
  issued,   \* what the session really did, in order: [tool, failed]
  clean,    \* no id was used again before its first call had a result
  story    \* "none", "made" (with the statistics of SessionReport) or why not

storyVars == <<harness, lines, cwd, sessionCalls, marks, issued, clean, story>>

-------------------------------------------------------------------------------
\* ---- the classification of one call

ReadOnly == {"readonly", "reader", "echo"}   \* read_only_programs; cat, head and tail are readers
VerifyCommand(c) == \E i \in DOMAIN c : c[i].verifies /\ c[i].prog # "echo"

SearchCommand(c) ==
  /\ \E i \in DOMAIN c : c[i].prog \in {"search", "git-search"}
  /\ \A i \in DOMAIN c :
       /\ c[i].redirect # "file"
       /\ c[i].prog \in ReadOnly \cup {"none", "search", "git-search"}
       /\ c[i].prog = "search" => ~c[i].executes

\* Unlike the test of the whole command, this one sees 2>&1 and >/dev/null too.
ReadSegments(c) ==
  {i \in DOMAIN c : c[i].redirect = "no" /\ c[i].names /\ c[i].prog \in {"reader", "nl", "sed-n"}}

ReadCommand(c) ==
  /\ ReadSegments(c) # {}
  /\ \A i \in DOMAIN c : c[i].redirect # "file" /\ c[i].prog \in ReadOnly \cup {"none", "nl", "sed-n"}

ShellAction(c) ==
  IF VerifyCommand(c) THEN "verify" ELSE IF SearchCommand(c) THEN "search"
  ELSE IF ReadCommand(c) THEN "read" ELSE "exec"

\* The exec wrapper runs a script of tool calls; each segment is one command.
ActionFor(t) ==
  CASE t.kind \in {"edit", "read", "search"} -> t.kind
    [] t.kind = "shell" -> ShellAction(t.segments)
    [] t.kind = "patch-script" -> "edit"
    [] t.kind = "script" ->
         IF ~t.static \/ t.segments = <<>> THEN "exec"
         ELSE LET As == {ShellAction(<<t.segments[i]>>) : i \in DOMAIN t.segments} IN
              IF Cardinality(As) = 1 THEN CHOOSE a \in As : TRUE ELSE "exec"
    [] OTHER -> "other"

\* normalizePath: inside the repository, outside it, or no path at all.
Located(p) ==
  IF p.place = "junk" THEN "dropped"
  ELSE IF p.place = "home" THEN "outside"
  ELSE IF p.style = "relative" /\ p.place = "inside" THEN "inside"
  ELSE IF p.style = "relative" THEN IF cwd THEN "outside" ELSE "dropped"
  ELSE IF cwd /\ p.style = "same" /\ p.place = "inside" THEN "inside" ELSE "outside"

\* targetsFor: how a call touches its path, and whether that is only inferred.
Touch(t) ==
  CASE t.kind \in {"edit", "patch-script"} -> [touch |-> "edit", weak |-> FALSE]
    [] t.kind = "read" -> [touch |-> "read", weak |-> FALSE]
    [] t.kind \in {"shell", "script"} /\ ReadSegments(t.segments) # {} -> [touch |-> "read", weak |-> TRUE]
    [] OTHER -> [touch |-> "hit", weak |-> t.kind # "search"]

BuildEvent(occ) ==
  [action |-> ActionFor(occ.tool), touch |-> Touch(occ.tool), at |-> Located(occ.tool.path),
   error |-> occ.result = "failed", unresolved |-> harness = "claude-code" /\ occ.result = "none"]

-------------------------------------------------------------------------------
\* ---- the report

ComputeStats(events) ==
  LET Is(a) == {i \in DOMAIN events : events[i].action = a}
      Inside(k) == {i \in DOMAIN events : events[i].at = "inside" /\ events[i].touch.touch = k}
      firstEdit == IF Inside("edit") = {} THEN Len(events) ELSE Min(Inside("edit")) - 1
      lastVerify == Max(Is("verify") \cup {0})
  IN [editsAfterLastVerify |-> Cardinality({i \in Is("edit") : i > lastVerify}),
      eventsBeforeFirstEdit |-> firstEdit,
      edits |-> Cardinality(Inside("edit")),
      errors |-> Cardinality({i \in DOMAIN events : events[i].error}),
      reads |-> IF Inside("read") = {} THEN "unavailable"
                ELSE IF \A i \in Inside("read") : ~events[i].touch.weak THEN "exact"
                ELSE "estimated",
      errorSignal |-> IF harness = "claude-code" /\ \A i \in DOMAIN events : ~events[i].unresolved
                      THEN "exact" ELSE "estimated",
      marks |-> marks]

Events == [i \in DOMAIN sessionCalls |-> BuildEvent(sessionCalls[i])]

\* Mutant of EventsInOrder: a call becomes an event when its result arrives.
EventsResolvedFirst ==
  SelectSeq(Events, LAMBDA e : ~e.unresolved) \o SelectSeq(Events, LAMBDA e : e.unresolved)

EventsInOrder == Events

SessionReport == ComputeStats(EventsInOrder)

\* Without --harness both readers are tried, and exactly one must recognize a line.
BuildPostmortem(forced) ==
  /\ story = "none"
  /\ story' = IF "own" \notin lines THEN "unrecognized"
               ELSE IF ~forced /\ "foreign" \in lines THEN "ambiguous"
               ELSE "made"
  /\ UNCHANGED <<harness, lines, cwd, sessionCalls, marks, issued, clean>>

-------------------------------------------------------------------------------
\* ---- the lines

Own == story = "none"
ReadLine(kind) == lines' = lines \cup {kind}
Open(id) == {i \in DOMAIN sessionCalls : sessionCalls[i].id = id /\ sessionCalls[i].result = "none"}

\* The harness writes a call.  Claude Code's reader drops one whose id is still
\* open, Codex's keeps both but only the first is ever given a result.
ToolUse(id, t) ==
  /\ Own /\ Len(issued) < MaxCalls /\ ReadLine("own")
  /\ issued' = Append(issued, [tool |-> t, id |-> id])
  /\ clean' = (clean /\ (id = NoId \/ Open(id) = {}))
  /\ sessionCalls' = CASE id = NoId /\ harness = "codex" -> sessionCalls
                [] id # NoId /\ harness = "claude-code" /\ Open(id) # {} -> sessionCalls
                [] id # NoId /\ harness = "codex" /\ \E i \in DOMAIN sessionCalls : sessionCalls[i].id = id ->
                     Append(sessionCalls, [id |-> NoId, tool |-> t, result |-> "none"])
                [] OTHER -> Append(sessionCalls, [id |-> id, tool |-> t, result |-> "none"])
  /\ marks' = IF t.kind = "subagent" /\ sessionCalls' # sessionCalls THEN marks + 1 ELSE marks
  /\ UNCHANGED <<harness, cwd, story>>

ToolResult(id, outcome) ==
  /\ Own /\ id # NoId /\ ReadLine("own") /\ Open(id) # {}
  /\ sessionCalls' = [sessionCalls EXCEPT ![Min(Open(id))].result = outcome]
  /\ UNCHANGED <<harness, cwd, marks, issued, clean, story>>

UserTurn(injected) ==
  /\ Own /\ ReadLine("own") /\ marks < MaxMarks
  /\ marks' = IF injected THEN marks ELSE marks + 1
  /\ cwd' = TRUE
  /\ UNCHANGED <<harness, sessionCalls, issued, clean, story>>

\* A subagent's transcript inside the root's file: recognized, then skipped.
Sidechain ==
  /\ Own /\ harness = "claude-code" /\ "own" \notin lines /\ ReadLine("own")
  /\ UNCHANGED <<harness, cwd, sessionCalls, marks, issued, clean, story>>

\* A line of the other harness; one that does not parse is only counted.
ForeignLine ==
  /\ Own /\ "foreign" \notin lines /\ ReadLine("foreign")
  /\ UNCHANGED <<harness, cwd, sessionCalls, marks, issued, clean, story>>

StoryInit ==
  /\ harness \in {"claude-code", "codex"}
  /\ lines = {} /\ cwd = FALSE
  /\ sessionCalls = <<>> /\ marks = 0 /\ issued = <<>> /\ clean = TRUE /\ story = "none"

StoryNext ==
  \/ \E id \in CallIds \cup {NoId}, t \in SessionTools : ToolUse(id, t)
  \/ \E id \in CallIds, o \in {"ok", "failed"} : ToolResult(id, o)
  \/ (\E b \in BOOLEAN : UserTurn(b)) \/ Sidechain
  \/ ForeignLine
  \/ \E forced \in BOOLEAN : BuildPostmortem(forced)

StorySpec == StoryInit /\ [][StoryNext]_storyVars

\* The report's core claim, how many edits came after the last verification,
\* is about the order in which the session acted: neither results that arrive
\* late or never, nor calls without an id, change it, as long as an id is not
\* used twice at once (and Codex, which always gives one, omits none).
VerifyStoryIsHonest ==
  story = "made" /\ clean
    /\ (harness = "codex" => \A i \in DOMAIN issued : issued[i].id # NoId) =>
  LET Is(a) == {i \in DOMAIN issued : ActionFor(issued[i].tool) = a} IN
  SessionReport.editsAfterLastVerify = Cardinality({i \in Is("edit") : \A v \in Is("verify") : v < i})
=============================================================================
