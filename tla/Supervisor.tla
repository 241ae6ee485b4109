------------------------------- MODULE Supervisor ------------------------------
(***************************************************************************)
(* The budget supervisor of a generated project (supervisorJsContent in    *)
(* scripts/scaffold.js): run-lifetime totals in budget-state.json, charged *)
(* in memory, checked, and saved before the caller goes on, by processes   *)
(* that are killed at any moment and started again later.                  *)
(*                                                                         *)
(* Time is measured twice: within a process by the machine's monotonic     *)
(* clock, which a reboot resets, and across a kill by the wall clock,      *)
(* which anybody may set, back as well as forward.                         *)
(* Bytes, tokens and subprocesses are meters of one shape.                 *)
(***************************************************************************)
EXTENDS Integers, FiniteSets

CONSTANTS
  Declared,        \* the destinations some adapter declares
  Undeclared,      \* others a worker may call
  Types,           \* effect types
  Meters,          \* log_bytes, state_bytes, output_tokens, subprocess_count
  NoTime,          \* an anchor that was never stamped
  NoCost,          \* a call that declares no cost
  MaxWall,         \* max_wall_time_ms
  MaxCalls, MaxPerDestination, MaxPerType,   \* max_external_calls...
  RateWindow, MaxPerWindow,                  \* the rate tripwire
  Ceiling, UnknownCost,                      \* est_cost_ceiling_usd, unknown_call_cost_usd
  MaxMeter,        \* the limit of every meter
  Horizon,         \* bound on the time
  MaxBehind, MaxAhead,   \* bounds on how far the wall clock is set wrong
  MaxSetBack,      \* bound on how far it is set back in all, while that can tell
  MaxCallsMade     \* bound on the charges recorded

SupervisorAssumption ==
  /\ Declared \cap Undeclared = {}
  /\ {MaxWall, MaxCalls, MaxPerDestination, MaxPerType, RateWindow, MaxPerWindow,
      Ceiling, UnknownCost, MaxMeter, Horizon, MaxBehind, MaxAhead, MaxSetBack,
      MaxCallsMade} \subseteq Nat
  /\ NoTime \notin Int /\ NoCost \notin Nat

VARIABLES
  disk,     \* budget-state.json, or NoFile
  state,    \* the running process's copy
  up,       \* whether a process runs
  segment,  \* the monotonic time its segment started at
  now,      \* the time that really passes
  clock,    \* Date.now()
  back,     \* how far the clock was set back since a tick or a start stamped the anchor
  unseen,   \* the same up to earlier starts, which could not see it
  boot,     \* the time of the last boot: monotonic time is now - boot
  active,   \* how long processes of this run have really been running
  granted,  \* the calls the supervisor let through, with their charge and the time
  spent,    \* what those calls cost
  made      \* how many charges were asked for: each has a number

clockVars == <<now, clock, boot, active>>
budgetVars == <<disk, state, up, segment, clockVars, back, unseen, granted, spent, made>>

NoFile == [absent |-> TRUE]
DefaultState ==
  [wall |-> 0, calls |-> 0, cost |-> 0, log |-> {}, halted |-> "no", anchor |-> NoTime,
   dest |-> [d \in Declared |-> 0], type |-> [t \in Types |-> 0], meter |-> [k \in Meters |-> 0]]

Mono == now - boot

\* A difference of times as it is charged: one that is negative counts as none.
Elapsed(t) == IF t > 0 THEN t ELSE 0

-----------------------------------------------------------------------------
(* A charge is a sequence of checks: the first one that fails halts the run  *)
(* with what was charged so far, and either way the state is saved.          *)

Halt(s, rule) == [s EXCEPT !.halted = rule]
Running(s) == s.halted = "no"
Check(s, holds, rule) == IF holds THEN s ELSE Halt(s, rule)

Settle(s) ==
  /\ disk' = s
  /\ state' = IF Running(s) THEN s ELSE DefaultState
  /\ up' = Running(s)

TickWallTime(s) ==
  LET ticked == [s EXCEPT !.wall = @ + Elapsed(Mono - segment), !.anchor = clock]
  IN  Check(ticked, ticked.wall <= MaxWall, "max_wall_time_ms")

\* Mutant of Reconstructed: the killed segment is not charged.
ReconstructedFree(s) == [s EXCEPT !.anchor = clock]

\* What a killed process left uncounted is charged from the wall clock.
Reconstructed(s) ==
  IF s.anchor = NoTime THEN [s EXCEPT !.anchor = clock]
  ELSE LET charged == [s EXCEPT !.wall = @ + Elapsed(clock - s.anchor), !.anchor = clock]
       IN  Check(charged, charged.wall <= MaxWall, "max_wall_time_ms")

OpenSupervisor(ack) ==
  LET loaded == IF disk = NoFile THEN DefaultState ELSE disk IN
  /\ ~up
  /\ Running(loaded) \/ ack
  /\ Settle(Reconstructed([loaded EXCEPT !.halted = "no"]))
  /\ segment' = Mono
  /\ back' = 0 /\ unseen' = unseen + back
  /\ UNCHANGED <<clockVars, granted, spent, made>>

\* beginStep, and every other caller of tickWallTime that charges nothing else here.
ChargeTime ==
  /\ up
  /\ Settle(TickWallTime(state))
  /\ segment' = Mono /\ back' = 0
  /\ UNCHANGED <<clockVars, unseen, granted, spent, made>>

\* The log of calls, in no order: each entry is told apart by its charge.
Recent(log) == {r \in log : r.at >= Mono - RateWindow}

Allowed(s, dest, observed) ==
  IF dest \notin Declared THEN Halt(s, "declared-destination-allowlist")
  ELSE Check(s, observed \in Declared, "undeclared-destination")

Rated(s, type) ==
  LET logged == [s EXCEPT !.log =
                   Recent(@ \cup {[at |-> Mono, type |-> type, charge |-> made + 1]})]
  IN  Check(logged, Cardinality({r \in logged.log : r.type = type}) <= MaxPerWindow,
            "rate-cap-breach")

Counted(s, dest, type) ==
  LET total == [s EXCEPT !.calls = @ + 1] IN
  IF total.calls > MaxCalls THEN Halt(total, "max_external_calls")
  ELSE LET there == [total EXCEPT !.dest[dest] = @ + 1] IN
       IF there.dest[dest] > MaxPerDestination
         THEN Halt(there, "max_external_calls_per_destination")
       ELSE LET kind == [there EXCEPT !.type[type] = @ + 1]
            IN  Check(kind, kind.type[type] <= MaxPerType, "max_external_calls_per_effect_type")

Price(cost) == IF cost = NoCost THEN UnknownCost ELSE cost

Priced(s, cost) ==
  LET priced == [s EXCEPT !.cost = @ + Price(cost)]
  IN  Check(priced, priced.cost <= Ceiling, "est_cost_ceiling_usd")

Charged(s, dest, observed, type, cost) ==
  LET ticked  == TickWallTime(s)
      allowed == IF Running(ticked) THEN Allowed(ticked, dest, observed) ELSE ticked
      rated   == IF Running(allowed) THEN Rated(allowed, type) ELSE allowed
      counted == IF Running(rated) THEN Counted(rated, dest, type) ELSE rated
  IN  IF Running(counted) THEN Priced(counted, cost) ELSE counted

RecordExternalCall(dest, observed, type, cost) ==
  LET charged == Charged(state, dest, observed, type, cost) IN
  /\ up /\ made < MaxCallsMade
  /\ made' = made + 1
  /\ Settle(charged)
  /\ segment' = Mono /\ back' = 0
  /\ IF Running(charged)
       THEN /\ granted' = granted \cup {[charge |-> made + 1, at |-> now, dest |-> dest,
                                        to |-> observed, type |-> type]}
            /\ spent' = spent + Price(cost)
       ELSE UNCHANGED <<granted, spent>>
  /\ UNCHANGED <<clockVars, unseen>>

\* recordLogBytes, recordStateBytes, recordOutputTokens and beginSubprocess.
Record(k) ==
  LET metered == [state EXCEPT !.meter[k] = @ + 1] IN
  /\ up /\ made < MaxCallsMade
  /\ made' = made + 1
  /\ Settle(Check(metered, metered.meter[k] <= MaxMeter, k))
  /\ UNCHANGED <<segment, clockVars, back, unseen, granted, spent>>

\* recordDiskUsage, checkMemory and checkSubprocessLifetime measure the world: they
\* halt or change nothing.
Measure ==
  /\ up
  /\ Settle(Halt(state, "measured"))
  /\ UNCHANGED <<segment, clockVars, back, unseen, granted, spent, made>>

-----------------------------------------------------------------------------
(* The world.                                                               *)

Tick ==
  /\ now < Horizon
  /\ now' = now + 1 /\ clock' = clock + 1
  /\ active' = active + IF up THEN 1 ELSE 0
  /\ UNCHANGED <<disk, state, up, segment, boot, back, unseen, granted, spent, made>>

\* By a person, by NTP, or by a machine that comes up with another time.
SetClock(time) ==
  /\ time # clock /\ unseen + back + Elapsed(clock - time) <= MaxSetBack
  /\ clock' = time
  /\ back' = back + Elapsed(clock - time)
  /\ UNCHANGED <<disk, state, up, segment, now, boot, active, unseen, granted, spent, made>>

Killed ==
  /\ up
  /\ up' = FALSE
  /\ state' = DefaultState
  /\ UNCHANGED <<disk, segment, clockVars, back, unseen, granted, spent, made>>

Reboot ==
  /\ ~up /\ boot # now
  /\ boot' = now
  /\ UNCHANGED <<disk, state, up, segment, now, clock, active, back, unseen, granted, spent, made>>

BudgetInit ==
  /\ disk = NoFile /\ state = DefaultState /\ up = FALSE
  /\ segment = 0 /\ now = 0 /\ clock = 0 /\ back = 0 /\ unseen = 0 /\ boot = 0
  /\ active = 0 /\ granted = {} /\ spent = 0 /\ made = 0

BudgetNext ==
  \/ \E ack \in BOOLEAN : OpenSupervisor(ack)
  \/ ChargeTime \/ Measure
  \/ \E dest, observed \in Declared \cup Undeclared, type \in Types,
        cost \in {1, NoCost} : RecordExternalCall(dest, observed, type, cost)
  \/ \E k \in Meters : Record(k)
  \/ \E time \in now - MaxBehind .. now + MaxAhead : SetClock(time)
  \/ Tick \/ Killed \/ Reboot

BudgetSpec == BudgetInit /\ [][BudgetNext]_budgetVars

-----------------------------------------------------------------------------
(* Properties.                                                              *)

\* However often the run is killed between two saves, the time its processes really
\* ran is on file, or follows from the anchor on file when the next one starts, but
\* for what the clock was set back by between the last stamp of the anchor and that
\* start: a clock set back earlier, or while the process still ticks, costs nothing.
KilledTimeIsCharged ==
  disk # NoFile => disk.wall + Elapsed(clock - disk.anchor) + back + unseen >= active

GrantedTo(dest) == {g \in granted : g.dest = dest}
GrantedAs(type) == {g \in granted : g.type = type}

\* Over all processes of the run, acknowledged or not, no more calls go through than
\* each cap allows, at no more than the ceiling, none to an undeclared place, and in no
\* window of real time more than the rate.
CallsAreCapped ==
  /\ Cardinality(granted) <= MaxCalls /\ spent <= Ceiling
  /\ \A g \in granted :
       /\ g.dest \in Declared /\ g.to \in Declared
       /\ Cardinality(GrantedTo(g.dest)) <= MaxPerDestination
       /\ Cardinality(GrantedAs(g.type)) <= MaxPerType
       /\ Cardinality({h \in GrantedAs(g.type) : h.at \in g.at .. g.at + RateWindow})
            <= MaxPerWindow

\* Killing and restarting a run buys it no calls, and no time that the clock shows.
BudgetsOutliveRestarts == KilledTimeIsCharged /\ CallsAreCapped
=============================================================================
