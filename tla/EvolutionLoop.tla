----------------------------- MODULE EvolutionLoop -----------------------------
(***************************************************************************)
(* The propose-only evolution loop of scripts/evolve.js and the adoption   *)
(* command of scripts/adopt.js, which meet in one append-only file of      *)
(* proposal records.  A cycle mines the typed events of the harvested runs *)
(* into at most a few candidates, drops those whose problem is in the      *)
(* rejected buffer of the state store, and stages the others.  A human     *)
(* adopts a proposal that is pending; its promotion is PromotionTx and     *)
(* here only commits, throws or reports a visible abort.  Both commands    *)
(* die between any two durable writes, and an append may be cut short.     *)
(*                                                                         *)
(* A problem is a type and code of event.  A candidate is a problem with   *)
(* its number of occurrences, from which its text and so its proposal id   *)
(* are made; the semantic fingerprint is the problem alone.                *)
(***************************************************************************)
EXTENDS Integers, FiniteSets, Sequences

CONSTANTS
  Problems,       \* 1 .. Problems in the order of their type and code
  Safety,         \* the problems of the types that come first
  Screened,       \* the problems whose text gate 1 turns down
  MaxProposals,   \* MAX_PROPOSALS_PER_CYCLE
  BufferSize,     \* entries the rejected buffer keeps
  MaxCount,       \* bound on the occurrences of a problem
  MaxCycles, MaxAdoptions, MaxFaults   \* bounds on commands, and on deaths and faults

\* A cycle that dies may have renewed all of its refusals but one and pushed as many
\* entries behind it: the buffer has room for that as often as commands die.
Room(deaths) == MaxProposals + (MaxProposals - 1) * deaths

EvolutionAssumption ==
  /\ Safety \subseteq 1 .. Problems /\ Screened \subseteq 1 .. Problems
  /\ {Problems, MaxProposals, BufferSize, MaxCount, MaxCycles, MaxAdoptions, MaxFaults}
       \subseteq Nat
  /\ MaxProposals > 0 /\ Room(MaxFaults) <= BufferSize

VARIABLES
  events,      \* occurrences of each problem in the harvested runs
  buffer,      \* the rejected buffer: problems, oldest first
  proposals,   \* pending-proposals.jsonl
  tail,        \* whether its last line is whole
  cycle,       \* the cycle command: its place and the problems before it
  adoption,    \* the adopt command: its place and its proposal
  canary,      \* the adoption under observation, or {}
  promoted,    \* promotions that returned to their adopt command, by proposal
  declined,    \* problems rejected once and mined in every cycle since
  cycles, adoptions, faults

files == <<buffer, proposals, tail>>
bounds == <<cycles, adoptions, faults>>
evolutionVars == <<events, files, cycle, adoption, canary, promoted, declined, bounds>>

Problem == 1 .. Problems
LoopIdle == [at |-> "idle"]
Fault == faults < MaxFaults /\ faults' = faults + 1

-----------------------------------------------------------------------------
(* The files.                                                               *)

Line(proposal, status) == [proposal |-> proposal, status |-> status]
GluedLine == [status |-> "glued"]

\* The whole line, on a line of its own or behind the half of one.
Append1(line) ==
  /\ proposals' = Append(proposals, IF tail = "torn" THEN GluedLine ELSE line)
  /\ tail' = "whole"

\* An append that a death cuts short; half a line at the end is not read.
AppendCut ==
  /\ proposals' = IF tail = "torn" THEN Append(proposals, GluedLine) ELSE proposals
  /\ tail' = IF tail = "torn" THEN tail ELSE "torn"

\* A line in the middle that is not JSON makes every reader throw.
Readable == \A i \in DOMAIN proposals : proposals[i] # GluedLine

\* The records of a proposal; the latest one counts.
Records(p) == {i \in DOMAIN proposals : proposals[i] # GluedLine /\ proposals[i].proposal = p}
Staged ==
  {proposals[i].proposal : i \in {n \in DOMAIN proposals : proposals[n] # GluedLine}}
Latest(p, i) == i \in Records(p) /\ \A j \in Records(p) : j <= i
Pending(p) ==
  \E i \in DOMAIN proposals : Latest(p, i) /\ proposals[i].status = "PENDING_HUMAN_REVIEW"

PushRejected(problem) ==
  LET longer == Append(buffer, problem) IN
  buffer' = IF Len(longer) > BufferSize THEN Tail(longer) ELSE longer

-----------------------------------------------------------------------------
(* A cycle.                                                                 *)

\* Safety first, then the most frequent, then by name.
Before(p, q) ==
  LET safe(r) == r \in Safety IN
  IF safe(p) # safe(q) THEN safe(p)
  ELSE IF events[p] # events[q] THEN events[p] > events[q] ELSE p < q

Frequent == {p \in Problem : events[p] >= 2}

\* The first of the frequent problems.
Mined == {p \in Frequent : Cardinality({q \in Frequent : Before(q, p)}) < MaxProposals}
FirstOf(p, problems) == p \in problems /\ \A q \in problems \ {p} : Before(p, q)

\* An invalid harvest, no run and no event end the cycle before it mines.  The problems
\* that are in the buffer, which is read once, come first.
BeginCycle ==
  LET rejected == {buffer[i] : i \in DOMAIN buffer} IN
  /\ cycle = LoopIdle /\ cycles < MaxCycles /\ Mined # {}
  /\ cycles' = cycles + 1
  /\ cycle' = [at |-> "push", dups |-> Mined \cap rejected, fresh |-> Mined \ rejected]
  /\ declined' = declined \cap Mined
  /\ UNCHANGED <<events, files, adoption, canary, promoted, adoptions, faults>>

RefuseDuplicate(p) ==
  /\ cycle # LoopIdle /\ cycle.at = "push" /\ FirstOf(p, cycle.dups)
  /\ PushRejected(p)
  /\ declined' = declined \cup {p}
  /\ cycle' = [cycle EXCEPT !.dups = @ \ {p}]
  /\ UNCHANGED <<events, proposals, tail, adoption, canary, promoted, bounds>>

DuplicatesRefused ==
  /\ cycle # LoopIdle /\ cycle.at = "push" /\ cycle.dups = {}
  /\ cycle' = [cycle EXCEPT !.at = "stage"]
  /\ UNCHANGED <<events, files, adoption, canary, promoted, declined, bounds>>

\* Gate 1 turns a candidate down, or its staging throws: both reject its problem.
RejectCandidate(p) ==
  /\ cycle # LoopIdle /\ cycle.at = "stage" /\ FirstOf(p, cycle.fresh)
  /\ IF p \in Screened THEN UNCHANGED faults ELSE Fault
  /\ PushRejected(p)
  /\ declined' = declined \cup {p}
  /\ cycle' = [cycle EXCEPT !.fresh = @ \ {p}]
  /\ UNCHANGED <<events, proposals, tail, adoption, canary, promoted, cycles, adoptions>>

\* The text of the proposal, and so its id, carries the number of occurrences.
StagePendingProposal(p) ==
  /\ cycle # LoopIdle /\ cycle.at = "stage" /\ FirstOf(p, cycle.fresh) /\ p \notin Screened
  /\ Append1(Line([problem |-> p, count |-> events[p]], "PENDING_HUMAN_REVIEW"))
  /\ cycle' = [cycle EXCEPT !.fresh = @ \ {p}]
  /\ UNCHANGED <<events, buffer, adoption, canary, promoted, declined, bounds>>

EndCycle ==
  /\ cycle # LoopIdle /\ cycle.at = "stage" /\ cycle.fresh = {}
  /\ cycle' = LoopIdle
  /\ UNCHANGED <<events, files, adoption, canary, promoted, declined, bounds>>

CycleDies ==
  /\ cycle # LoopIdle /\ Fault
  /\ cycle' = LoopIdle
  /\ IF cycle.at = "stage" /\ cycle.fresh # {}
       THEN AppendCut \/ UNCHANGED <<proposals, tail>> ELSE UNCHANGED <<proposals, tail>>
  /\ UNCHANGED <<events, buffer, adoption, canary, promoted, declined, cycles, adoptions>>

-----------------------------------------------------------------------------
(* An adoption.                                                             *)

\* Without a confirmation, for a proposal that is not there and for one that is not
\* pending, adopt refuses; from an unreadable file it throws.
Adopt(p) ==
  /\ adoption = LoopIdle /\ adoptions < MaxAdoptions
  /\ Readable /\ Pending(p)
  /\ adoptions' = adoptions + 1
  /\ adoption' = [at |-> "promote", proposal |-> p]
  /\ UNCHANGED <<events, files, cycle, canary, promoted, declined, cycles, faults>>

\* Mutant of Promote: the proposal counts as consumed when its promotion is refused.
PromoteOrConsume ==
  /\ adoption # LoopIdle /\ adoption.at = "promote"
  /\ \/ /\ canary = {}
        /\ canary' = {adoption.proposal}
        /\ promoted' = promoted \cup {adoption.proposal}
        /\ adoption' = [adoption EXCEPT !.at = "tombstone"]
        /\ UNCHANGED faults
     \/ /\ Fault
        /\ adoption' = [adoption EXCEPT !.at = "tombstone"]
        /\ UNCHANGED <<canary, promoted>>
  /\ UNCHANGED <<events, files, cycle, declined, cycles, adoptions>>

\* A promotion throws while another adoption is under observation, when it finds that
\* ACTIVE has moved, and on any fault before its log entry; a visible abort returns.
Promote ==
  /\ adoption # LoopIdle /\ adoption.at = "promote"
  /\ \/ /\ canary = {}
        /\ canary' = {adoption.proposal}
        /\ promoted' = promoted \cup {adoption.proposal}
        /\ adoption' = [adoption EXCEPT !.at = "tombstone"]
        /\ UNCHANGED faults
     \/ /\ canary = {} /\ Fault
        /\ promoted' = promoted \cup {adoption.proposal}
        /\ adoption' = [adoption EXCEPT !.at = "tombstone"]
        /\ UNCHANGED canary
     \/ /\ canary # {} \/ faults < MaxFaults
        /\ faults' = IF canary # {} THEN faults ELSE faults + 1
        /\ adoption' = LoopIdle
        /\ UNCHANGED <<canary, promoted>>
  /\ UNCHANGED <<events, files, cycle, declined, cycles, adoptions>>

AppendTombstone ==
  /\ adoption # LoopIdle /\ adoption.at = "tombstone"
  /\ Append1(Line(adoption.proposal, "ADOPTED"))
  /\ adoption' = LoopIdle
  /\ UNCHANGED <<events, buffer, cycle, canary, promoted, declined, bounds>>

\* A promotion that dies may have been committed, or is by whoever recovers it.
AdoptionDies ==
  /\ adoption # LoopIdle /\ Fault
  /\ adoption' = LoopIdle
  /\ IF adoption.at = "tombstone"
       THEN AppendCut \/ UNCHANGED <<proposals, tail>> ELSE UNCHANGED <<proposals, tail>>
  /\ \/ UNCHANGED canary
     \/ adoption.at = "promote" /\ canary = {} /\ canary' = {adoption.proposal}
  /\ UNCHANGED <<events, buffer, cycle, promoted, declined, cycles, adoptions>>

\* close with one of its three outcomes ends the observation.
CloseCanary ==
  /\ canary # {}
  /\ canary' = {}
  /\ UNCHANGED <<events, files, cycle, adoption, promoted, declined, bounds>>

Harvest(p) ==
  /\ cycle = LoopIdle /\ events[p] < MaxCount
  /\ events' = [events EXCEPT ![p] = @ + 1]
  /\ UNCHANGED <<files, cycle, adoption, canary, promoted, declined, bounds>>

-----------------------------------------------------------------------------
LoopInit ==
  /\ events \in [Problem -> {0, 2}] /\ buffer = <<>> /\ proposals = <<>> /\ tail = "whole"
  /\ cycle = LoopIdle /\ adoption = LoopIdle /\ canary = {} /\ promoted = {} /\ declined = {}
  /\ cycles = 0 /\ adoptions = 0 /\ faults = 0

LoopNext ==
  \/ BeginCycle \/ DuplicatesRefused \/ EndCycle \/ CycleDies
  \/ \E p \in Problem : RefuseDuplicate(p) \/ RejectCandidate(p) \/ StagePendingProposal(p)
  \/ (\E p \in Staged : Adopt(p)) \/ Promote \/ AppendTombstone \/ AdoptionDies
  \/ CloseCanary \/ (\E p \in Problem : Harvest(p))

LoopSpec == LoopInit /\ [][LoopNext]_evolutionVars

-----------------------------------------------------------------------------
\* A problem that was rejected, and has been mined in every cycle since, is not
\* proposed again: each refusal renews its entry before newer ones push it out.  (A
\* cycle that dies renews only some: this takes a buffer with room for that.)
RefusalIsRenewed ==
  cycle # LoopIdle /\ cycle.at = "stage" => cycle.fresh \cap declined = {}

\* A proposal leaves the pending list only after a promotion of it has returned: one
\* whose promotion throws, or dies, stays there.
ConsumedWasPromoted ==
  \A p \in Staged : Pending(p) \/ p \in promoted

\* Between cycles, adoptions and crashes the loop forgets neither a refusal nor a
\* proposal that was not promoted.
LoopRemembers == RefusalIsRenewed /\ ConsumedWasPromoted
=============================================================================
