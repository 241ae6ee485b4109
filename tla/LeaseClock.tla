----------------------------- MODULE LeaseClock -----------------------------
(* How a state store comes by the clock its leases are measured with: what the
   caller handed in, what the audit of the test suites writes down about it,
   which constructions are refused, and which instants a lease accepts.  A
   clock's nature is what it does while real time passes; its tag is what its
   owner says of it.                                                        *)
EXTENDS Naturals

CONSTANTS Clocks,      \* what callers hand in: [name, tag, nature, reads]
          Processes, MaxConstructions, MaxLostAppends

\* The caller hands in no clock.
Omitted == [name |-> "none", tag |-> "none", nature |-> "moves", reads |-> "instant"]

\* Two clocks are one when they are the same function.
ClockAssumption == \A c, d \in Clocks \cup {Omitted} : c.name = d.name => c = d

VARIABLES measured,    \* per process, the clocks it has measured, and what it saw
          audit,       \* the records of the audit file
          stores,      \* the stores that were built
          refused,     \* the constructions refused for want of a clock
          leases,      \* what registrations wrote as their expiry
          constructions, lostAppends

clockVars == <<measured, audit, stores, refused, leases, constructions, lostAppends>>

Callable(clock) == clock.nature # "malformed"

\* A clock that throws while it is measured is measured all the same, as unknown.
Measure(p, clock) ==
  IF clock = Omitted \/ ~Callable(clock) \/ \E m \in measured[p] : m.name = clock.name THEN measured
  ELSE [measured EXCEPT ![p] = @ \cup {[name |-> clock.name, saw |-> clock.nature]}]

Saw(p, clock) == (CHOOSE m \in Measure(p, clock)[p] : m.name = clock.name).saw

\* Mutant of Kind: the tag is taken as evidence.
KindAsTagged(p, clock) == IF clock = Omitted THEN "wall" ELSE IF Callable(clock) THEN clock.tag ELSE "malformed"

Kind(p, clock) ==
  IF clock = Omitted THEN "wall"
  ELSE IF ~Callable(clock) THEN "malformed"
  ELSE IF Saw(p, clock) = "moves" THEN "system"
  ELSE IF Saw(p, clock) = "stands" THEN IF clock.tag = "system" THEN "system-frozen" ELSE "manual"
  ELSE "custom"

\* Under audit; the second disjunct is an append that fails and stops the construction.
RecordLeaseClockConstruction(p, clock) ==
  /\ measured' = Measure(p, clock)
  /\ \/ audit' = audit \cup {[process |-> p, clock |-> clock.name, kind |-> Kind(p, clock)]} /\ UNCHANGED lostAppends
     \/ lostAppends < MaxLostAppends /\ lostAppends' = lostAppends + 1 /\ UNCHANGED audit

\* The record comes before any refusal, so that no catch block can hide one.
Construct(p, clock, required) ==
  LET built == [process |-> p, clock |-> clock] IN
  /\ constructions < MaxConstructions /\ constructions' = constructions + 1
  /\ RecordLeaseClockConstruction(p, clock)
  /\ IF lostAppends' > lostAppends THEN UNCHANGED <<stores, refused>>
     ELSE IF required /\ clock = Omitted THEN refused' = refused \cup {built} /\ UNCHANGED stores
     ELSE IF ~Callable(clock) THEN UNCHANGED <<stores, refused>>
     ELSE stores' = stores \cup {built} /\ UNCHANGED refused
  /\ UNCHANGED leases

\* Neither a fraction nor a sum past the safe integers is written as an expiry.
LeaseExpiry(reads) == IF reads = "instant" THEN {"later"} ELSE {}

RegisterRun(store) ==
  /\ leases' = leases \cup LeaseExpiry(store.clock.reads)
  /\ UNCHANGED <<measured, audit, stores, refused, constructions, lostAppends>>

ClockInit ==
  /\ measured = [p \in Processes |-> {}]
  /\ audit = {} /\ stores = {} /\ refused = {} /\ leases = {}
  /\ constructions = 0 /\ lostAppends = 0

ClockNext ==
  \/ \E p \in Processes, clock \in Clocks \cup {Omitted}, required \in BOOLEAN : Construct(p, clock, required)
  \/ \E store \in stores : RegisterRun(store)

ClockSpec == ClockInit /\ [][ClockNext]_clockVars

-----------------------------------------------------------------------------
(* No construction that races real time hides from the audit, neither behind a
   tag, nor behind a refusal that somebody's catch block swallows, nor behind
   an append that is lost: each one has a record of its process, and none of
   the records of that clock calls it a chosen one.                         *)
RacingClocksAreNamed ==
  \A built \in stores \cup refused : built.clock.nature = "moves" =>
    /\ \E r \in audit : r.process = built.process /\ r.clock = built.clock.name
    /\ \A r \in audit : r.clock = built.clock.name => r.kind # "manual"
=============================================================================
