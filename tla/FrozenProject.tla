--------------------------- MODULE FrozenProject ---------------------------
(* What a generated project keeps of its shipped form over its life:
   scaffoldProject writes the files and a manifest with their hashes, the
   bounds of the tunables and a hash of itself; every start of manager.js
   loads the code, verifies the files and the tunables, and only then builds
   the supervisor; the adapter of a worker is read again for the watchdog and
   for the message about an effect that was intended and not recorded as done.
   Somebody edits files at any time, managers crash at any time.  One worker
   with one effect stands for the pipeline.                                 *)
EXTENDS Integers

CONSTANTS Shipped,     \* the adapter that was generated: [variant, to, sound, retry]
          Adapters,    \* what it may be edited to
          Values,      \* what the tunable may be edited to
          Bounds,      \* what the manifest may be edited to allow
          ShippedBounds, Default,
          MaxEdits, MaxStarts

ProjectAssumption == Default \in ShippedBounds /\ Shipped.sound

VARIABLES disk,         \* the files of the project
          manager,      \* the running manager, if any
          inflight,     \* the capability file the watchdog reads
          intended, completed,   \* intents.log and effects.log
          message,      \* the kind of the message the last run ended with, if it did
          undisturbed,  \* no file was edited since the manager started
          edits, starts

projectVars == <<disk, manager, inflight, intended, completed, message, undisturbed, edits, starts>>

Down == [at |-> "down"]
NoAdapter == [sound |-> FALSE]
Quiet == "none"

Up == manager # Down
ManagerAt(place) == manager.at = place

-----------------------------------------------------------------------------
(* scaffoldProject and what a start checks.                                 *)

\* The self hash covers the rest of the manifest; nothing but scaffold.js computes it.
BuildWorkflowManifest(core, adapter) == [core |-> core, adapter |-> adapter, bounds |-> ShippedBounds, self |-> <<core, adapter, ShippedBounds>>]

ScaffoldProject ==
  [core |-> "shipped", adapter |-> Shipped, value |-> Default, prompt |-> "plain", watchdog |-> TRUE,
   manifest |-> BuildWorkflowManifest("shipped", Shipped)]

\* Mutant of VerifyFrozen: the manifest is taken as it is.
VerifyFrozenUnsealed(files) ==
  LET m == files.manifest IN files.core = m.core /\ files.adapter = m.adapter

VerifyFrozen(files) ==
  LET m == files.manifest IN
  m.self = <<m.core, m.adapter, m.bounds>> /\ files.core = m.core /\ files.adapter = m.adapter

LoadTunables(files) == VerifyFrozen(files) /\ files.value \in files.manifest.bounds

\* An adapter that cannot be read contributes no destination.
LoadAllowlist(files) == IF files.adapter.sound THEN files.adapter.to ELSE {}

Prompts == {"plain", "absent", "huge", "not-utf8", "not-nfc", "marked"}

\* Bytes are looked at before text, text before the marker sequences.
LoadPrompt(prompt) ==
  CASE prompt = "absent" -> "throws"
    [] prompt = "plain" -> "delimited"
    [] OTHER -> "quarantined"

-----------------------------------------------------------------------------
(* capability.js.                                                           *)

LoadCapability == disk.adapter.sound

\* The outcome of a status check is handed in by whoever can make one.
DeriveKillMessage(adapter, intent, completion, outcome) ==
  IF ~intent \/ completion \/ adapter.variant = "read-only" THEN "no-external-effects-in-flight"
  ELSE IF adapter.variant = "local-transactional" THEN "safe-to-resume"
  ELSE IF adapter.variant = "status-checkable" /\ outcome = "completed" THEN "safe-to-resume"
  ELSE IF adapter.variant = "status-checkable" /\ outcome = "definitively_not_executed" /\ adapter.retry THEN "safe-to-resume"
  ELSE IF adapter.variant = "idempotent-by-key" THEN "safe-to-resume-assumed"
  ELSE "reconciliation-required"

\* A worker makes no status check; without a declaration it is the most careful.
KillMessageFor ==
  IF LoadCapability THEN DeriveKillMessage(disk.adapter, TRUE, FALSE, "none") ELSE "reconciliation-required"

-----------------------------------------------------------------------------
(* A start: the code is loaded before anything is verified.                 *)

Start ==
  /\ ~Up /\ starts < MaxStarts /\ starts' = starts + 1
  /\ manager' = [at |-> "loaded", core |-> disk.core, value |-> disk.value, to |-> {}]
  /\ undisturbed' = TRUE /\ message' = Quiet
  /\ UNCHANGED <<disk, inflight, intended, completed, edits>>

Verify ==
  /\ ManagerAt("loaded")
  /\ manager' = IF LoadTunables(disk) THEN [manager EXCEPT !.at = "verified", !.value = disk.value] ELSE Down
  /\ UNCHANGED <<disk, inflight, intended, completed, message, undisturbed, edits, starts>>

\* The watchdog's file is cleared on the way, and the watchdog started when there is one.
CreateSupervisor ==
  /\ ManagerAt("verified")
  /\ manager' = [manager EXCEPT !.at = "up", !.to = LoadAllowlist(disk)]
  /\ inflight' = Quiet
  /\ UNCHANGED <<disk, intended, completed, message, undisturbed, edits, starts>>

SetCapabilityInFlight ==
  /\ ManagerAt("up") /\ ~completed
  /\ inflight' = IF LoadCapability THEN disk.adapter.variant ELSE Quiet
  /\ manager' = [manager EXCEPT !.at = "working"]
  /\ UNCHANGED <<disk, intended, completed, message, undisturbed, edits, starts>>

\* A prompt that cannot be used ends the step, an intent without completion halts it.
RunWorker ==
  /\ ManagerAt("working")
  /\ IF LoadPrompt(disk.prompt) # "delimited" THEN manager' = Down /\ UNCHANGED <<intended, message>>
     ELSE IF intended THEN message' = KillMessageFor /\ manager' = Down /\ UNCHANGED intended
     ELSE intended' = TRUE /\ manager' = [manager EXCEPT !.at = "acting"] /\ UNCHANGED message
  /\ inflight' = IF manager' = Down THEN Quiet ELSE inflight
  /\ UNCHANGED <<disk, completed, undisturbed, edits, starts>>

\* A destination outside the allowlist is a tripwire; the intent stays.
Act ==
  /\ ManagerAt("acting")
  /\ completed' = (Shipped.to \subseteq manager.to)
  /\ manager' = Down /\ inflight' = Quiet
  /\ UNCHANGED <<disk, intended, message, undisturbed, edits, starts>>

\* A crash leaves the capability file as it is.
Crash ==
  /\ Up /\ manager' = Down
  /\ UNCHANGED <<disk, inflight, intended, completed, message, undisturbed, edits, starts>>

\* Somebody follows the printed instructions.
Resolve ==
  /\ ~Up /\ message # Quiet
  /\ \/ intended' = FALSE /\ UNCHANGED completed
     \/ completed' = TRUE /\ UNCHANGED intended
  /\ message' = Quiet
  /\ UNCHANGED <<disk, manager, inflight, undisturbed, edits, starts>>

Edit ==
  /\ edits < MaxEdits /\ edits' = edits + 1
  /\ \/ \E a \in Adapters \cup {NoAdapter} : disk' = [disk EXCEPT !.adapter = a]
     \/ \E v \in Values : disk' = [disk EXCEPT !.value = v]
     \/ \E b \in Bounds : disk' = [disk EXCEPT !.manifest.bounds = b]
     \/ \E c \in {"shipped", "edited"} : disk' = [disk EXCEPT !.core = c]
     \/ \E p \in Prompts : disk' = [disk EXCEPT !.prompt = p]
  /\ undisturbed' = FALSE
  /\ UNCHANGED <<manager, inflight, intended, completed, message, starts>>

ProjectInit ==
  /\ disk = ScaffoldProject /\ manager = Down /\ inflight = Quiet
  /\ intended = FALSE /\ completed = FALSE /\ message = Quiet /\ undisturbed = TRUE
  /\ edits = 0 /\ starts = 0

ProjectNext == Start \/ Verify \/ CreateSupervisor \/ SetCapabilityInFlight \/ RunWorker \/ Act \/ Crash \/ Resolve \/ Edit

ProjectSpec == ProjectInit /\ [][ProjectNext]_projectVars

-----------------------------------------------------------------------------
(* An effect that a crashed run left open is judged by the declaration the
   project was shipped with, or more carefully, however the adapter was edited
   between the crash and the restart: an edited one does not get that far.  *)
OpenEffectIsJudgedAsShipped ==
  message # Quiet /\ undisturbed => message \in {DeriveKillMessage(Shipped, TRUE, FALSE, "none"), "reconciliation-required"}

(* A manager that is up since before the last edit runs the shipped code, with
   a tunable inside the shipped bounds, and calls nothing but the shipped
   destinations: the bounds cannot be widened by editing the file they are in. *)
RunStaysInFrozenLimits ==
  Up /\ undisturbed /\ manager.at \in {"up", "working", "acting"} =>
    manager.core = "shipped" /\ manager.value \in ShippedBounds /\ manager.to \subseteq Shipped.to

\* Edits of the project's files, before a start, after it or between a crash and the
\* restart, change neither the limits of a run nor how an open effect is judged.
ShippedFormGoverns == OpenEffectIsJudgedAsShipped /\ RunStaysInFrozenLimits
=============================================================================
