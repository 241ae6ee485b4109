----------------------------- MODULE GatewayMode -------------------------------
(***************************************************************************)
(* The declared mode of a gateway (scripts/mode-selection.js and the       *)
(* `gateway mode' commands of scripts/graphsmith-cli.js).  An operator     *)
(* types the mode back to confirm it, or an automation presents an         *)
(* artifact that an operator signed for it; the record is written with a   *)
(* token under a key that the first command creates.  A gateway starts     *)
(* only when the token of the record it read can be recomputed.            *)
(*                                                                         *)
(* A token is the pair of the key and of what it was computed over.        *)
(* People edit the record and the artifact by hand, and lose the key.      *)
(***************************************************************************)
EXTENDS Naturals, FiniteSets, Sequences

CONSTANTS
  Operators,            \* the processes of `gateway mode set'
  Modes,
  MaxTime, Lifetime,    \* the clock, and how long an artifact holds
  MaxSets, MaxMishaps   \* how many commands, and how many edits and losses

GatewayModeAssumption ==
  /\ {MaxTime, Lifetime, MaxSets, MaxMishaps} \subseteq Nat
  /\ {"no key", "empty"} \cap Operators = {}   \* a drawn key is none of these
  /\ "none" \notin Modes

VARIABLES
  links,        \* whether the file system can link a file
  key,          \* the key file: NoKey, Empty or the random value that someone drew
  record,       \* gateway-mode.json
  artifact,     \* the pre-authorization
  setter,       \* operator -> what the process is at, for which mode, with which key
  gateway,      \* mode -> its gateway binary: off, the record it has read, or running
  now,
  typed,        \* history: the modes that were typed back
  granted,      \* history: the artifacts that were signed, as they were signed
  used,         \* history: the artifacts that were accepted, and when
  sets, mishaps

modeVars == <<links, key, record, artifact, setter, gateway, now, typed, granted, used, sets, mishaps>>

NoKey == "no key"
Empty == "empty"
NoRecord == [mode |-> "none"]
NoArtifact == [mode |-> "none"]
Off == [at |-> "off"]
Idle == [at |-> "idle"]
Token(k, of) == [key |-> k, of |-> of]

-----------------------------------------------------------------------------
(* gateway mode set.                                                        *)

Goto(o, place) == setter' = [setter EXCEPT ![o].at = place]

\* Interactively, with or without a pre-authorization to be written first.
TypeMode(o, m, ahead) ==
  /\ setter[o] = Idle /\ sets < MaxSets /\ sets' = sets + 1
  /\ typed' = typed \cup {m}
  /\ setter' = [setter EXCEPT ![o] = [at |-> "key", mode |-> m, key |-> NoKey,
                                      left |-> IF ahead THEN <<"artifact", "record">> ELSE <<"record">>]]
  /\ UNCHANGED <<links, key, record, artifact, gateway, now, granted, used, mishaps>>

\* The artifact has to be for this mode, be signed by this key and not have expired.
VerifyPreAuthorizationArtifact(m) ==
  /\ artifact.mode = m /\ key # NoKey
  /\ artifact.hmac = Token(key, <<artifact.mode, artifact.expires>>)
  /\ now < artifact.expires

UseArtifact(o, m) ==
  /\ setter[o] = Idle /\ sets < MaxSets /\ sets' = sets + 1
  /\ VerifyPreAuthorizationArtifact(m)
  /\ used' = used \cup {<<m, now>>}
  /\ setter' = [setter EXCEPT ![o] = [at |-> "key", mode |-> m, key |-> NoKey, left |-> <<"record">>]]
  /\ UNCHANGED <<links, key, record, artifact, gateway, now, typed, granted, mishaps>>

\* Mutant of CreateKey: the file is created first and filled afterwards.
CreateThenFill(o) ==
  /\ setter[o].at = "key" /\ key = NoKey
  /\ key' = Empty /\ Goto(o, "fill")
  /\ UNCHANGED <<links, record, artifact, gateway, now, typed, granted, used, sets, mishaps>>

\* The key is written aside and linked into place; without links it is created empty.
CreateKey(o) ==
  /\ setter[o].at = "key" /\ key = NoKey
  /\ IF links THEN key' = o /\ setter' = [setter EXCEPT ![o].at = "write", ![o].key = o]
                  ELSE key' = Empty /\ Goto(o, "fill")
  /\ UNCHANGED <<links, record, artifact, gateway, now, typed, granted, used, sets, mishaps>>

FillKey(o) ==
  /\ setter[o].at = "fill"
  /\ key' = IF key = NoKey THEN key ELSE o
  /\ setter' = [setter EXCEPT ![o].at = "write", ![o].key = o]
  /\ UNCHANGED <<links, record, artifact, gateway, now, typed, granted, used, sets, mishaps>>

\* Whoever finds a key uses it; one that vanishes again makes the command fail.
FindKey(o) ==
  /\ setter[o].at = "key" /\ key # NoKey /\ Goto(o, "read")
  /\ UNCHANGED <<links, key, record, artifact, gateway, now, typed, granted, used, sets, mishaps>>

ReadKey(o) ==
  /\ setter[o].at = "read"
  /\ setter' = [setter EXCEPT ![o] = IF key = NoKey THEN Idle ELSE [@ EXCEPT !.at = "write", !.key = key]]
  /\ UNCHANGED <<links, key, record, artifact, gateway, now, typed, granted, used, sets, mishaps>>

WriteArtifact(o) ==
  /\ setter[o].at = "write" /\ Head(setter[o].left) = "artifact"
  /\ LET m == setter[o].mode  e == now + Lifetime IN
     /\ artifact' = [mode |-> m, expires |-> e, hmac |-> Token(setter[o].key, <<m, e>>)]
     /\ granted' = granted \cup {<<m, e>>}
  /\ setter' = [setter EXCEPT ![o].at = "key", ![o].left = Tail(@)]
  /\ UNCHANGED <<links, key, record, gateway, now, typed, used, sets, mishaps>>

Confirmation(k, m) == Token(k, m)

WriteGatewayMode(o) ==
  /\ setter[o].at = "write" /\ Head(setter[o].left) = "record"
  /\ record' = [mode |-> setter[o].mode, token |-> Confirmation(setter[o].key, setter[o].mode)]
  /\ setter' = [setter EXCEPT ![o] = Idle]
  /\ UNCHANGED <<links, key, artifact, gateway, now, typed, granted, used, sets, mishaps>>

Set(o) ==
  \/ \E m \in Modes : UseArtifact(o, m) \/ \E ahead \in BOOLEAN : TypeMode(o, m, ahead)
  \/ CreateKey(o) \/ FillKey(o) \/ FindKey(o) \/ ReadKey(o) \/ WriteArtifact(o) \/ WriteGatewayMode(o)

-----------------------------------------------------------------------------
(* The start of a gateway: the record, then the key.                        *)

\* A record without a confirmation, or of no known mode, is refused at once.
ReadGatewayModeFile(b) ==
  /\ gateway[b] = Off /\ record.mode \in Modes /\ "token" \in DOMAIN record
  /\ gateway' = [gateway EXCEPT ![b] = [at |-> "read", record |-> record]]
  /\ UNCHANGED <<links, key, record, artifact, setter, now, typed, granted, used, sets, mishaps>>

ReadAndValidateGatewayMode(b) ==
  /\ gateway[b].at = "read"
  /\ gateway' = [gateway EXCEPT ![b] =
                   LET r == gateway[b].record IN
                   IF key # NoKey /\ r.token = Confirmation(key, r.mode) /\ r.mode = b
                     THEN [at |-> "running"] ELSE Off]
  /\ UNCHANGED <<links, key, record, artifact, setter, now, typed, granted, used, sets, mishaps>>

-----------------------------------------------------------------------------
(* People and time.                                                         *)

EditFile ==
  /\ mishaps < MaxMishaps /\ mishaps' = mishaps + 1
  /\ \/ \E m \in Modes \cup {"unknown"} :
          record # NoRecord /\ record' = [record EXCEPT !.mode = m] /\ UNCHANGED artifact
     \/ \E m \in Modes : record' = [mode |-> m] /\ UNCHANGED artifact
     \/ \E m \in Modes : artifact # NoArtifact /\ artifact' = [artifact EXCEPT !.mode = m] /\ UNCHANGED record
     \/ artifact # NoArtifact /\ artifact' = [artifact EXCEPT !.expires = MaxTime + 1] /\ UNCHANGED record
  /\ UNCHANGED <<links, key, setter, gateway, now, typed, granted, used, sets>>

LoseKey ==
  /\ mishaps < MaxMishaps /\ mishaps' = mishaps + 1 /\ key # NoKey /\ key' = NoKey
  /\ UNCHANGED <<links, record, artifact, setter, gateway, now, typed, granted, used, sets>>

Tick ==
  /\ now < MaxTime /\ now' = now + 1
  /\ UNCHANGED <<links, key, record, artifact, setter, gateway, typed, granted, used, sets, mishaps>>

StopGateway(b) ==
  /\ gateway[b].at = "running" /\ gateway' = [gateway EXCEPT ![b] = Off]
  /\ UNCHANGED <<links, key, record, artifact, setter, now, typed, granted, used, sets, mishaps>>

ModeInit ==
  /\ links \in BOOLEAN /\ key = NoKey /\ record = NoRecord /\ artifact = NoArtifact
  /\ setter = [o \in Operators |-> Idle] /\ gateway = [b \in Modes |-> Off]
  /\ now = 0 /\ typed = {} /\ granted = {} /\ used = {} /\ sets = 0 /\ mishaps = 0

ModeNext ==
  \/ \E o \in Operators : Set(o)
  \/ \E b \in Modes : ReadGatewayModeFile(b) \/ ReadAndValidateGatewayMode(b) \/ StopGateway(b)
  \/ EditFile \/ LoseKey \/ Tick

ModeSpec == ModeInit /\ [][ModeNext]_modeVars

-----------------------------------------------------------------------------
(* Properties.                                                              *)

\* Whatever is edited, lost or presented again, a gateway runs only in a mode that an
\* operator typed back, and an artifact is accepted only as it was signed and before
\* it expires.
RunningModeWasConfirmed ==
  /\ \A b \in Modes : gateway[b].at = "running" => b \in typed
  /\ \A u \in used : \E g \in granted : g[1] = u[1] /\ u[2] < g[2]

\* Where files can be linked, first commands that race leave one key: what a command
\* wrote, and nobody edited, lets the gateway of that mode start.
ConfirmedModeCanStart ==
  links /\ mishaps = 0 /\ record # NoRecord => record.token.key = key

\* The mode a gateway runs in was confirmed, and the one that was confirmed can run.
ModeIsConfirmed == RunningModeWasConfirmed /\ ConfirmedModeCanStart
=============================================================================
