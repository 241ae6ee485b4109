---------------------------- MODULE SupervisorProofs ---------------------------
(***************************************************************************)
(* That the budgets outlive restarts, for any limits, kills and reboots:   *)
(* what the processes of a run really ran for is on file or follows from   *)
(* the anchor on file, and what goes through in total, to one place, of    *)
(* one type, in one window and for what money stays within its cap.        *)
(*                                                                         *)
(* The clocks are the difficulty.  A process charges by the monotonic      *)
(* clock, a restart by the wall clock, which may have been set; a tick     *)
(* stamps both at one moment, so a setting of the clock counts until the   *)
(* next tick, and for good when a restart comes first.  The rate is taken  *)
(* from a log in monotonic time that outlives a reboot: an entry of before *)
(* looks later than it was, so it is kept too long and never too short.    *)
(***************************************************************************)
EXTENDS Supervisor, FiniteSetTheorems, TLAPS

Entries == [at : Int, type : Types, charge : Nat]
Grants == [charge : Nat, at : Nat, dest : Declared, to : Declared, type : Types]
Rules ==
  {"no", "max_wall_time_ms", "declared-destination-allowlist", "undeclared-destination",
   "rate-cap-breach", "max_external_calls", "max_external_calls_per_destination",
   "max_external_calls_per_effect_type", "est_cost_ceiling_usd", "measured"} \cup Meters

States == [wall : Nat, calls : Nat, cost : Nat, log : SUBSET Entries, halted : Rules,
           anchor : Int \cup {NoTime}, dest : [Declared -> Nat], type : [Types -> Nat],
           meter : [Meters -> Nat]]
IsState(s) == s \in States /\ IsFiniteSet(s.log)

\* A call is in the log, at no earlier time than it was made, or out of every window.
Logged(g, log) ==
  \/ g.at + RateWindow < now
  \/ \E r \in log : r.charge = g.charge /\ r.type = g.type /\ g.at <= r.at + boot

\* A budget state that counts at least what was let through.
Covers(s) ==
  /\ spent <= s.cost /\ Cardinality(granted) <= s.calls
  /\ \A d \in Declared : Cardinality(GrantedTo(d)) <= s.dest[d]
  /\ \A t \in Types : Cardinality(GrantedAs(t)) <= s.type[t]
  /\ \A g \in granted : Logged(g, s.log)

\* The calls let through, each with a charge of its own, within every cap.
GrantsAreRight ==
  /\ made \in Nat /\ spent \in Nat /\ granted \subseteq Grants /\ IsFiniteSet(granted)
  /\ \A g \in granted : g.charge <= made /\ g.at <= now
  /\ \A g, h \in granted : g.charge = h.charge => g = h
  /\ CallsAreCapped

\* The inductive invariant: what is on file is never behind, and the process that
\* runs works on a copy of it: by the wall clock but for what it was set back, and by
\* the monotonic clock but for what starts could not see.
BudgetInv ==
  /\ now \in Nat /\ boot \in Nat /\ segment \in Int /\ active \in Nat /\ boot <= now
  /\ clock \in Int /\ back \in Nat /\ unseen \in Nat /\ up \in BOOLEAN
  /\ GrantsAreRight
  /\ disk = NoFile => ~up /\ active = 0 /\ granted = {} /\ spent = 0
  /\ disk # NoFile =>
       /\ IsState(disk) /\ Covers(disk)
       /\ disk.anchor \in Int
       /\ active <= disk.wall + (clock - disk.anchor) + back + unseen
  /\ up => /\ state = disk /\ segment <= Mono
           /\ active <= disk.wall + (Mono - segment) + unseen

\* Later charges of one call: the time that was charged first, and no less of the rest.
Later(s, t) ==
  /\ IsState(t) /\ t.wall = s.wall /\ t.anchor = s.anchor /\ t.log = s.log
  /\ s.calls <= t.calls /\ s.cost <= t.cost
  /\ \A d \in Declared : s.dest[d] <= t.dest[d]
  /\ \A k \in Types : s.type[k] <= t.type[k]

-----------------------------------------------------------------------------
(* What the charges do to a state.                                          *)

LEMMA StateIsNoFile == ASSUME NEW s, IsState(s) PROVE s # NoFile
  BY DEF IsState, States, NoFile

LEMMA LaterIsTransitive ==
  ASSUME NEW s, IsState(s), NEW t, Later(s, t), NEW u, Later(t, u)
  PROVE  Later(s, u)
  <1>1. /\ s.calls \in Nat /\ t.calls \in Nat /\ u.calls \in Nat
        /\ s.cost \in Nat /\ t.cost \in Nat /\ u.cost \in Nat
        /\ \A d \in Declared : s.dest[d] \in Nat /\ t.dest[d] \in Nat /\ u.dest[d] \in Nat
        /\ \A k \in Types : s.type[k] \in Nat /\ t.type[k] \in Nat /\ u.type[k] \in Nat
    BY DEF Later, IsState, States
  <1>2. QED
    BY <1>1 DEF Later

LEMMA LaterIsReflexive == ASSUME NEW s, IsState(s) PROVE Later(s, s)
  BY DEF Later, IsState, States

LEMMA HaltKeeps ==
  ASSUME NEW s, IsState(s), NEW rule \in Rules
  PROVE  /\ Later(s, Halt(s, rule))
         /\ rule # "no" => ~Running(Halt(s, rule))
         /\ Halt(s, rule).calls = s.calls /\ Halt(s, rule).cost = s.cost
         /\ Halt(s, rule).dest = s.dest /\ Halt(s, rule).type = s.type
  <1>1. IsState(Halt(s, rule))
    BY DEF IsState, States, Halt
  <1>2. QED
    BY <1>1 DEF IsState, States, Halt, Later, Running

LEMMA CheckKeeps ==
  ASSUME NEW s, IsState(s), NEW holds \in BOOLEAN, NEW rule \in Rules
  PROVE  /\ Later(s, Check(s, holds, rule))
         /\ rule # "no" /\ Running(Check(s, holds, rule)) =>
              holds /\ Check(s, holds, rule) = s
  <1>1. CASE holds
    BY <1>1, LaterIsReflexive DEF Check
  <1>2. CASE ~holds
    BY <1>2, HaltKeeps DEF Check
  <1>3. QED
    BY <1>1, <1>2

\* A tick charges the running segment and stamps the anchor.
LEMMA TickCharges ==
  ASSUME NEW s, IsState(s), clock \in Int, Mono - segment \in Nat
  PROVE  /\ IsState(TickWallTime(s)) /\ TickWallTime(s).anchor = clock
         /\ TickWallTime(s).wall = s.wall + (Mono - segment)
         /\ TickWallTime(s).calls = s.calls /\ TickWallTime(s).cost = s.cost
         /\ TickWallTime(s).dest = s.dest /\ TickWallTime(s).type = s.type
         /\ TickWallTime(s).log = s.log
  <1> DEFINE ticked == [s EXCEPT !.wall = @ + Elapsed(Mono - segment), !.anchor = clock]
  <1>0. Elapsed(Mono - segment) = Mono - segment
    BY DEF Elapsed
  <1>1. s.wall + (Mono - segment) \in Nat
    BY DEF IsState, States
  <1>2. /\ ticked.anchor = clock /\ ticked.wall = s.wall + (Mono - segment)
        /\ ticked.calls = s.calls /\ ticked.cost = s.cost /\ ticked.dest = s.dest
        /\ ticked.type = s.type /\ ticked.log = s.log /\ IsState(ticked)
    BY <1>0, <1>1 DEF IsState, States
  <1>3. TickWallTime(s) = ticked \/ TickWallTime(s) = Halt(ticked, "max_wall_time_ms")
    BY DEF TickWallTime, Check
  <1> HIDE DEF ticked
  <1>4. "max_wall_time_ms" \in Rules
    BY DEF Rules
  <1>5. QED
    BY <1>2, <1>3, <1>4, HaltKeeps DEF Later

\* A restart charges what was killed and stamps the anchor.
LEMMA ReconstructionCharges ==
  ASSUME NEW s, IsState(s), clock \in Int
  PROVE  /\ IsState(Reconstructed(s)) /\ Reconstructed(s).anchor = clock
         /\ Reconstructed(s).wall =
              s.wall + (IF s.anchor = NoTime THEN 0 ELSE Elapsed(clock - s.anchor))
         /\ Reconstructed(s).calls = s.calls /\ Reconstructed(s).cost = s.cost
         /\ Reconstructed(s).dest = s.dest /\ Reconstructed(s).type = s.type
         /\ Reconstructed(s).log = s.log
  <1>1. CASE s.anchor = NoTime
    BY <1>1 DEF Reconstructed, IsState, States
  <1>2. CASE s.anchor # NoTime
    <2> DEFINE charged == [s EXCEPT !.wall = @ + Elapsed(clock - s.anchor), !.anchor = clock]
    <2>1. s.wall + Elapsed(clock - s.anchor) \in Nat
      BY <1>2 DEF IsState, States, Elapsed
    <2>2. /\ charged.anchor = clock /\ charged.wall = s.wall + Elapsed(clock - s.anchor)
          /\ charged.calls = s.calls /\ charged.cost = s.cost /\ charged.dest = s.dest
          /\ charged.type = s.type /\ charged.log = s.log /\ IsState(charged)
      BY <2>1 DEF IsState, States
    <2>3. \/ Reconstructed(s) = charged
          \/ Reconstructed(s) = Halt(charged, "max_wall_time_ms")
      BY <1>2 DEF Reconstructed, Check
    <2> HIDE DEF charged
    <2>4. "max_wall_time_ms" \in Rules
      BY DEF Rules
    <2>5. QED
      BY <1>2, <2>2, <2>3, <2>4, HaltKeeps DEF Later
  <1>3. QED
    BY <1>1, <1>2

LEMMA AllowedKeeps ==
  ASSUME NEW s, IsState(s), NEW dest, NEW observed
  PROVE  /\ Later(s, Allowed(s, dest, observed))
         /\ Running(Allowed(s, dest, observed)) =>
              dest \in Declared /\ observed \in Declared /\ Allowed(s, dest, observed) = s
  <1>0. "declared-destination-allowlist" \in Rules /\ "undeclared-destination" \in Rules
    BY DEF Rules
  <1>1. CASE dest \notin Declared
    BY <1>0, <1>1, HaltKeeps DEF Allowed
  <1>2. CASE dest \in Declared
    <2>1. PICK within : within = (observed \in Declared)
      OBVIOUS
    <2>2. within \in BOOLEAN /\ Allowed(s, dest, observed) = Check(s, within, "undeclared-destination")
      BY <1>2, <2>1 DEF Allowed
    <2>3. QED
      BY <1>0, <1>2, <2>1, <2>2, CheckKeeps
  <1>3. QED
    BY <1>1, <1>2

\* The entry of a call is put in the log before what has left the window is dropped.
LEMMA RatedLogs ==
  ASSUME NEW s, IsState(s), NEW type \in Types, Mono \in Int, made \in Nat,
         NEW t, t = Rated(s, type)
  PROVE  /\ IsState(t) /\ t.wall = s.wall /\ t.anchor = s.anchor /\ t.calls = s.calls
         /\ t.cost = s.cost /\ t.dest = s.dest /\ t.type = s.type
         /\ t.log = Recent(s.log \cup {[at |-> Mono, type |-> type, charge |-> made + 1]})
         /\ Running(t) => Cardinality({r \in t.log : r.type = type}) <= MaxPerWindow
  <1> DEFINE entry == [at |-> Mono, type |-> type, charge |-> made + 1]
             log == Recent(s.log \cup {entry})
             logged == [s EXCEPT !.log = log]
             within == Cardinality({r \in logged.log : r.type = type}) <= MaxPerWindow
  <1>1. log \subseteq Entries /\ IsFiniteSet(log)
    <2>1. entry \in Entries /\ s.log \subseteq Entries
      BY DEF Entries, IsState, States
    <2>2. log \subseteq s.log \cup {entry}
      BY DEF Recent
    <2>3. IsFiniteSet(s.log \cup {entry})
      BY FS_AddElement DEF IsState
    <2> HIDE DEF log, entry
    <2>4. QED
      BY <2>1, <2>2, <2>3, FS_Subset
  <1> HIDE DEF log
  <1>2. /\ IsState(logged) /\ logged.wall = s.wall /\ logged.anchor = s.anchor
        /\ logged.calls = s.calls /\ logged.cost = s.cost /\ logged.dest = s.dest
        /\ logged.type = s.type /\ logged.log = log
    BY <1>1 DEF IsState, States
  <1>3. t = Check(logged, within, "rate-cap-breach")
    BY DEF Rated, log
  <1>4. "rate-cap-breach" \in Rules /\ within \in BOOLEAN
    BY DEF Rules
  <1>5. (t = logged /\ within) \/ t = Halt(logged, "rate-cap-breach")
    BY <1>3 DEF Check
  <1> HIDE DEF logged
  <1>6. CASE t = logged /\ within
    BY <1>2, <1>6 DEF log
  <1>7. CASE t = Halt(logged, "rate-cap-breach")
    BY <1>2, <1>4, <1>7, HaltKeeps DEF log, Later
  <1>8. QED
    BY <1>5, <1>6, <1>7

\* A call that is counted is one more everywhere, and goes on only below the caps.
LEMMA CountedCounts ==
  ASSUME NEW s, IsState(s), NEW dest \in Declared, NEW type \in Types,
         MaxCalls \in Nat, MaxPerDestination \in Nat, MaxPerType \in Nat,
         NEW t, t = Counted(s, dest, type)
  PROVE  /\ Later(s, t)
         /\ Running(t) =>
              /\ t.calls = s.calls + 1 /\ t.calls <= MaxCalls /\ t.cost = s.cost
              /\ t.dest = [s.dest EXCEPT ![dest] = @ + 1] /\ t.dest[dest] <= MaxPerDestination
              /\ t.type = [s.type EXCEPT ![type] = @ + 1] /\ t.type[type] <= MaxPerType
  <1>0. /\ "max_external_calls" \in Rules /\ "max_external_calls_per_destination" \in Rules
        /\ "max_external_calls_per_effect_type" \in Rules
    BY DEF Rules
  <1>1. PICK total : total = [s EXCEPT !.calls = @ + 1]
    OBVIOUS
  <1>2. PICK there : there = [total EXCEPT !.dest[dest] = @ + 1]
    OBVIOUS
  <1>3. PICK kind : kind = [there EXCEPT !.type[type] = @ + 1]
    OBVIOUS
  <1>4. /\ s.calls \in Nat /\ s.cost \in Nat /\ s.dest \in [Declared -> Nat]
        /\ s.type \in [Types -> Nat]
    BY DEF IsState, States
  <1>5. IsState(total) /\ total.calls = s.calls + 1 /\ total.cost = s.cost /\ total.log = s.log
        /\ total.dest = s.dest /\ total.type = s.type /\ total.wall = s.wall
        /\ total.anchor = s.anchor
    BY <1>1 DEF IsState, States
  <1>6. IsState(there) /\ there.calls = total.calls /\ there.cost = s.cost /\ there.log = s.log
        /\ there.dest = [s.dest EXCEPT ![dest] = @ + 1] /\ there.type = s.type
        /\ there.wall = s.wall /\ there.anchor = s.anchor
    <2>1. there = [total EXCEPT !.dest = [total.dest EXCEPT ![dest] = @ + 1]]
      BY <1>2
    <2>2. [s.dest EXCEPT ![dest] = @ + 1] \in [Declared -> Nat]
      BY <1>4
    <2>3. QED
      BY <1>5, <2>1, <2>2 DEF IsState, States
  <1>7. IsState(kind) /\ kind.calls = total.calls /\ kind.cost = s.cost /\ kind.log = s.log
        /\ kind.dest = there.dest /\ kind.type = [s.type EXCEPT ![type] = @ + 1]
        /\ kind.wall = s.wall /\ kind.anchor = s.anchor
    <2>1. kind = [there EXCEPT !.type = [there.type EXCEPT ![type] = @ + 1]]
      BY <1>3
    <2>2. [s.type EXCEPT ![type] = @ + 1] \in [Types -> Nat]
      BY <1>4
    <2>3. QED
      BY <1>6, <2>1, <2>2 DEF IsState, States
  <1>8. Later(s, total) /\ Later(s, there) /\ Later(s, kind)
    BY <1>4, <1>5, <1>6, <1>7 DEF Later
  <1>9. CASE total.calls > MaxCalls
    <2>1. t = Halt(total, "max_external_calls")
      BY <1>1, <1>9 DEF Counted
    <2>2. Later(total, t) /\ ~Running(t)
      BY <1>0, <1>5, <2>1, HaltKeeps
    <2>3. QED
      BY <1>8, <2>2, LaterIsTransitive
  <1>10. CASE ~(total.calls > MaxCalls) /\ there.dest[dest] > MaxPerDestination
    <2>1. t = Halt(there, "max_external_calls_per_destination")
      BY <1>1, <1>2, <1>10 DEF Counted
    <2>2. Later(there, t) /\ ~Running(t)
      BY <1>0, <1>6, <2>1, HaltKeeps
    <2>3. QED
      BY <1>8, <2>2, LaterIsTransitive
  <1>11. CASE ~(total.calls > MaxCalls) /\ ~(there.dest[dest] > MaxPerDestination)
    <2>1. PICK within : within = (kind.type[type] <= MaxPerType)
      OBVIOUS
    <2>2. t = Check(kind, within, "max_external_calls_per_effect_type") /\ within \in BOOLEAN
      BY <1>1, <1>2, <1>3, <1>11, <2>1 DEF Counted
    <2>3. /\ Later(kind, t)
          /\ Running(t) => within /\ t = kind
      BY <1>0, <1>7, <2>2, CheckKeeps
    <2>4. Later(s, t)
      BY <1>8, <2>3, LaterIsTransitive
    <2>5. total.calls <= MaxCalls /\ there.dest[dest] <= MaxPerDestination
      BY <1>4, <1>5, <1>6, <1>11
    <2>6. QED
      BY <1>5, <1>6, <1>7, <2>1, <2>3, <2>4, <2>5
  <1>12. QED
    BY <1>9, <1>10, <1>11

LEMMA PricedPays ==
  ASSUME NEW s, IsState(s), NEW cost, Price(cost) \in Nat, Ceiling \in Nat,
         NEW t, t = Priced(s, cost)
  PROVE  /\ Later(s, t)
         /\ Running(t) => /\ t.cost = s.cost + Price(cost) /\ t.cost <= Ceiling
                          /\ t.calls = s.calls /\ t.dest = s.dest /\ t.type = s.type
  <1>1. PICK priced : priced = [s EXCEPT !.cost = @ + Price(cost)]
    OBVIOUS
  <1>2. /\ s.cost \in Nat /\ IsState(priced) /\ priced.cost = s.cost + Price(cost)
        /\ priced.wall = s.wall /\ priced.anchor = s.anchor /\ priced.log = s.log
        /\ priced.calls = s.calls /\ priced.dest = s.dest /\ priced.type = s.type
        /\ s.calls \in Nat /\ s.dest \in [Declared -> Nat] /\ s.type \in [Types -> Nat]
    BY <1>1 DEF IsState, States
  <1>3. Later(s, priced)
    BY <1>2 DEF Later
  <1>4. PICK within : within = (priced.cost <= Ceiling)
    OBVIOUS
  <1>5. /\ t = Check(priced, within, "est_cost_ceiling_usd")
        /\ within \in BOOLEAN /\ "est_cost_ceiling_usd" \in Rules
    BY <1>1, <1>4 DEF Priced, Rules
  <1>6. Later(priced, t) /\ (Running(t) => within /\ t = priced)
    BY <1>2, <1>5, CheckKeeps
  <1>7. Later(s, t)
    BY <1>3, <1>6, LaterIsTransitive
  <1>8. QED
    BY <1>2, <1>4, <1>6, <1>7

-----------------------------------------------------------------------------
(* What covers the calls that were let through.                             *)

LEMMA GrantsAreFinite ==
  ASSUME IsFiniteSet(granted)
  PROVE  /\ Cardinality(granted) \in Nat
         /\ \A d : IsFiniteSet(GrantedTo(d)) /\ Cardinality(GrantedTo(d)) \in Nat
         /\ \A t : IsFiniteSet(GrantedAs(t)) /\ Cardinality(GrantedAs(t)) \in Nat
  <1>1. \A T \in SUBSET granted : IsFiniteSet(T) /\ Cardinality(T) \in Nat
    BY FS_Subset, FS_CardinalityType
  <1>2. \A d : GrantedTo(d) \in SUBSET granted /\ GrantedAs(d) \in SUBSET granted
    BY DEF GrantedTo, GrantedAs
  <1>3. QED
    BY <1>1, <1>2

LEMMA SameCovers ==
  ASSUME NEW s, Covers(s), NEW t, t.calls = s.calls, t.cost = s.cost, t.dest = s.dest,
         t.type = s.type, t.log = s.log
  PROVE  Covers(t)
  BY DEF Covers

LEMMA LaterCovers ==
  ASSUME GrantsAreRight, NEW s, IsState(s), Covers(s), NEW t, Later(s, t)
  PROVE  Covers(t)
  <1>1. IsState(t) /\ t.log = s.log /\ s.calls <= t.calls /\ s.cost <= t.cost
    BY DEF Later
  <1>2. Cardinality(granted) <= t.calls /\ spent <= t.cost
    BY <1>1, GrantsAreFinite DEF Covers, IsState, States, GrantsAreRight
  <1>3. \A d \in Declared : Cardinality(GrantedTo(d)) <= t.dest[d]
    <2> SUFFICES ASSUME NEW d \in Declared PROVE Cardinality(GrantedTo(d)) <= t.dest[d]
      OBVIOUS
    <2>1. Cardinality(GrantedTo(d)) \in Nat /\ s.dest[d] \in Nat /\ t.dest[d] \in Nat
      BY <1>1, GrantsAreFinite DEF IsState, States, GrantsAreRight
    <2>2. Cardinality(GrantedTo(d)) <= s.dest[d] /\ s.dest[d] <= t.dest[d]
      BY DEF Covers, Later
    <2>3. QED
      BY <2>1, <2>2
  <1>4. \A k \in Types : Cardinality(GrantedAs(k)) <= t.type[k]
    <2> SUFFICES ASSUME NEW k \in Types PROVE Cardinality(GrantedAs(k)) <= t.type[k]
      OBVIOUS
    <2>1. Cardinality(GrantedAs(k)) \in Nat /\ s.type[k] \in Nat /\ t.type[k] \in Nat
      BY <1>1, GrantsAreFinite DEF IsState, States, GrantsAreRight
    <2>2. Cardinality(GrantedAs(k)) <= s.type[k] /\ s.type[k] <= t.type[k]
      BY DEF Covers, Later
    <2>3. QED
      BY <2>1, <2>2
  <1>5. QED
    BY <1>1, <1>2, <1>3, <1>4 DEF Covers

\* What is dropped from the log with the window has left every window.
LEMMA RecentStaysLogged ==
  ASSUME now \in Nat, boot \in Nat, RateWindow \in Nat, granted \subseteq Grants,
         NEW log \in SUBSET Entries, NEW entry \in Entries,
         NEW g \in granted, Logged(g, log)
  PROVE  Logged(g, Recent(log \cup {entry}))
  <1>1. CASE g.at + RateWindow < now
    BY <1>1 DEF Logged
  <1>2. CASE ~(g.at + RateWindow < now)
    <2>1. PICK r \in log : r.charge = g.charge /\ r.type = g.type /\ g.at <= r.at + boot
      BY <1>2 DEF Logged
    <2>2. g.at \in Nat /\ r.at \in Int
      BY DEF Grants, Entries
    <2>3. r.at >= Mono - RateWindow
      BY <1>2, <2>1, <2>2 DEF Mono
    <2>4. r \in Recent(log \cup {entry})
      BY <2>1, <2>3 DEF Recent
    <2>5. QED
      BY <2>1, <2>4 DEF Logged
  <1>3. QED
    BY <1>1, <1>2

LEMMA RatedCovers ==
  ASSUME SupervisorAssumption, GrantsAreRight, now \in Nat, boot \in Nat,
         NEW s, IsState(s), Covers(s), NEW type \in Types, NEW t, t = Rated(s, type)
  PROVE  Covers(t)
  <1> DEFINE entry == [at |-> Mono, type |-> type, charge |-> made + 1]
  <1>1. Mono \in Int /\ made \in Nat /\ RateWindow \in Nat /\ granted \subseteq Grants
    BY DEF Mono, GrantsAreRight, SupervisorAssumption
  <1>2. entry \in Entries
    BY <1>1 DEF Entries
  <1>3. /\ t.calls = s.calls /\ t.cost = s.cost /\ t.dest = s.dest /\ t.type = s.type
        /\ t.log = Recent(s.log \cup {entry})
    BY <1>1, RatedLogs
  <1> HIDE DEF entry
  <1>4. s.log \in SUBSET Entries
    BY DEF IsState, States
  <1>5. \A g \in granted : Logged(g, t.log)
    BY <1>1, <1>2, <1>3, <1>4, RecentStaysLogged DEF Covers
  <1>6. QED
    BY <1>3, <1>5 DEF Covers

-----------------------------------------------------------------------------
(* A call that is let through.                                              *)

Grant(dest, to, type) ==
  [charge |-> made + 1, at |-> now, dest |-> dest, to |-> to, type |-> type]
Entry(type) == [at |-> Mono, type |-> type, charge |-> made + 1]

\* Of the calls of one type in the window that ends now, each has an entry of its own.
LEMMA WindowIsLogged ==
  ASSUME NEW calls, NEW entries, IsFiniteSet(entries),
         \A g, h \in calls : g.charge = h.charge => g = h,
         \A g \in calls : \E r \in entries : r.charge = g.charge
  PROVE  /\ IsFiniteSet(calls)
         /\ Cardinality(calls) <= Cardinality(entries)
  <1> DEFINE f == [g \in calls |-> CHOOSE r \in entries : r.charge = g.charge]
  <1>1. \A g \in calls : f[g] \in entries /\ f[g].charge = g.charge
    OBVIOUS
  <1>2. f \in [calls -> entries]
    BY <1>1
  <1>3. \A g, h \in calls : f[g] = f[h] => g = h
    BY <1>1
  <1> HIDE DEF f
  <1>4. f \in Injection(calls, entries)
    BY <1>2, <1>3 DEF Injection, IsInjective
  <1>5. QED
    BY <1>4, FS_Injection

LEMMA GrantIsRight ==
  ASSUME SupervisorAssumption, GrantsAreRight, now \in Nat, boot \in Nat,
         NEW s, IsState(s), Covers(s), NEW c, IsState(c),
         NEW dest \in Declared, NEW to \in Declared, NEW type \in Types, NEW price \in Nat,
         c.calls = s.calls + 1, c.calls <= MaxCalls, c.cost = s.cost + price, c.cost <= Ceiling,
         c.dest = [s.dest EXCEPT ![dest] = @ + 1], c.dest[dest] <= MaxPerDestination,
         c.type = [s.type EXCEPT ![type] = @ + 1], c.type[type] <= MaxPerType,
         c.log = Recent(s.log \cup {Entry(type)}),
         Cardinality({r \in c.log : r.type = type}) <= MaxPerWindow,
         granted' = granted \cup {Grant(dest, to, type)}, spent' = spent + price,
         made' = made + 1, now' = now, boot' = boot
  PROVE  GrantsAreRight' /\ Covers(c)'
  <1>1. PICK grant : grant = Grant(dest, to, type)
    OBVIOUS
  <1>2. /\ made \in Nat /\ spent \in Nat /\ granted \subseteq Grants /\ IsFiniteSet(granted)
        /\ \A g \in granted : g.charge <= made /\ g.at <= now
        /\ \A g, h \in granted : g.charge = h.charge => g = h
        /\ CallsAreCapped /\ Mono \in Int /\ RateWindow \in Nat
        /\ {MaxCalls, Ceiling, MaxPerDestination, MaxPerType, MaxPerWindow} \subseteq Nat
    BY DEF GrantsAreRight, SupervisorAssumption, Mono
  <1>3. /\ grant \in Grants /\ grant.charge = made + 1 /\ grant.at = now /\ grant.dest = dest
        /\ grant.to = to /\ grant.type = type
    BY <1>1, <1>2 DEF Grant, Grants
  <1>4. /\ Entry(type) \in Entries /\ Entry(type).charge = made + 1 /\ Entry(type).type = type
        /\ Entry(type).at = Mono
    BY <1>2 DEF Entry, Entries
  <1>5. grant \notin granted
    BY <1>2, <1>3 DEF Grants
  <1>6. /\ granted' = granted \cup {grant} /\ granted' \subseteq Grants
        /\ IsFiniteSet(granted') /\ Cardinality(granted') = Cardinality(granted) + 1
    BY <1>1, <1>2, <1>3, <1>5, FS_AddElement
  <1>7. /\ \A g \in granted' : g.charge <= made' /\ g.at <= now'
        /\ \A g, h \in granted' : g.charge = h.charge => g = h
    <2>1. \A g \in granted : g.charge \in Nat /\ g.charge <= made /\ g.at <= now
      BY <1>2 DEF Grants
    <2>2. QED
      BY <1>2, <1>3, <1>6, <2>1
  <1>8. \A d : /\ GrantedTo(d)' = IF d = dest THEN GrantedTo(d) \cup {grant} ELSE GrantedTo(d)
               /\ GrantedAs(d)' = IF d = type THEN GrantedAs(d) \cup {grant} ELSE GrantedAs(d)
    BY <1>3, <1>6 DEF GrantedTo, GrantedAs
  <1>9. \A d : /\ Cardinality(GrantedTo(d)') =
                    IF d = dest THEN Cardinality(GrantedTo(d)) + 1 ELSE Cardinality(GrantedTo(d))
               /\ Cardinality(GrantedAs(d)') =
                    IF d = type THEN Cardinality(GrantedAs(d)) + 1 ELSE Cardinality(GrantedAs(d))
    <2> SUFFICES ASSUME NEW d
                 PROVE  /\ Cardinality(GrantedTo(d)') = IF d = dest THEN Cardinality(GrantedTo(d)) + 1
                                                                   ELSE Cardinality(GrantedTo(d))
                        /\ Cardinality(GrantedAs(d)') = IF d = type THEN Cardinality(GrantedAs(d)) + 1
                                                                   ELSE Cardinality(GrantedAs(d))
      OBVIOUS
    <2>1. grant \notin GrantedTo(d) /\ grant \notin GrantedAs(d)
      BY <1>5 DEF GrantedTo, GrantedAs
    <2>2. IsFiniteSet(GrantedTo(d)) /\ IsFiniteSet(GrantedAs(d))
      BY <1>2, GrantsAreFinite
    <2>3. /\ Cardinality(GrantedTo(d) \cup {grant}) = Cardinality(GrantedTo(d)) + 1
          /\ Cardinality(GrantedAs(d) \cup {grant}) = Cardinality(GrantedAs(d)) + 1
      BY <2>1, <2>2, FS_AddElement
    <2>4. QED
      BY <1>8, <2>3
  <1>10. /\ \A d \in Declared : Cardinality(GrantedTo(d)') <= c.dest[d]
         /\ \A k \in Types : Cardinality(GrantedAs(k)') <= c.type[k]
    <2>1. s.dest \in [Declared -> Nat] /\ s.type \in [Types -> Nat]
      BY DEF IsState, States
    <2>2. ASSUME NEW d \in Declared
          PROVE  Cardinality(GrantedTo(d)') <= c.dest[d]
      <3>1. Cardinality(GrantedTo(d)) <= s.dest[d] /\ Cardinality(GrantedTo(d)) \in Nat
        BY <1>2, GrantsAreFinite DEF Covers
      <3>2. c.dest[d] = IF d = dest THEN s.dest[d] + 1 ELSE s.dest[d]
        BY <2>1
      <3>3. s.dest[d] \in Nat
        BY <2>1
      <3>4. QED
        BY <1>9, <3>1, <3>2, <3>3
    <2>3. ASSUME NEW k \in Types
          PROVE  Cardinality(GrantedAs(k)') <= c.type[k]
      <3>1. Cardinality(GrantedAs(k)) <= s.type[k] /\ Cardinality(GrantedAs(k)) \in Nat
        BY <1>2, GrantsAreFinite DEF Covers
      <3>2. c.type[k] = IF k = type THEN s.type[k] + 1 ELSE s.type[k]
        BY <2>1
      <3>3. s.type[k] \in Nat
        BY <2>1
      <3>4. QED
        BY <1>9, <3>1, <3>2, <3>3
    <2>4. QED
      BY <2>2, <2>3
  <1>11. /\ Cardinality(granted') <= c.calls /\ spent' <= c.cost
         /\ Cardinality(granted') <= MaxCalls /\ spent' <= Ceiling
    <2>1. Cardinality(granted) <= s.calls /\ spent <= s.cost
      BY DEF Covers
    <2>2. /\ Cardinality(granted) \in Nat /\ s.calls \in Nat /\ s.cost \in Nat
          /\ MaxCalls \in Nat /\ Ceiling \in Nat
      BY <1>2, GrantsAreFinite DEF IsState, States
    <2>3. QED
      BY <1>2, <1>6, <2>1, <2>2
  <1>12. \A g \in granted' : Logged(g, c.log)
    <2>1. \A g \in granted : Logged(g, c.log)
      <3>1. s.log \in SUBSET Entries
        BY DEF IsState, States
      <3>2. QED
        BY <1>2, <1>4, <3>1, RecentStaysLogged DEF Covers
    <2>2. Entry(type) \in c.log
      BY <1>2, <1>4 DEF Recent
    <2>3. Logged(grant, c.log)
      BY <1>3, <1>4, <2>2 DEF Logged, Mono
    <2>4. QED
      BY <1>6, <2>1, <2>3
  <1>13. \A g : Logged(g, c.log)' = Logged(g, c.log)
    BY DEF Logged
  <1>14. Covers(c)'
    BY <1>10, <1>11, <1>12, <1>13 DEF Covers
  <1>15. ASSUME NEW g \in granted'
         PROVE  /\ g.dest \in Declared /\ g.to \in Declared
                /\ Cardinality(GrantedTo(g.dest)') <= MaxPerDestination
                /\ Cardinality(GrantedAs(g.type)') <= MaxPerType
    <2>1. g.dest \in Declared /\ g.to \in Declared
      BY <1>6 DEF Grants
    <2>2. Cardinality(GrantedTo(g.dest)') <= MaxPerDestination
      <3>1. CASE g.dest = dest
        <4>1. Cardinality(GrantedTo(dest)') <= c.dest[dest] /\ Cardinality(GrantedTo(dest)') \in Nat
              /\ c.dest[dest] \in Nat /\ MaxPerDestination \in Nat
          BY <1>2, <1>9, <1>10, GrantsAreFinite DEF IsState, States
        <4>2. QED
          BY <3>1, <4>1
      <3>2. CASE g.dest # dest
        BY <1>2, <1>3, <1>6, <1>9, <3>2 DEF CallsAreCapped
      <3>3. QED
        BY <3>1, <3>2
    <2>3. Cardinality(GrantedAs(g.type)') <= MaxPerType
      <3>1. CASE g.type = type
        <4>1. Cardinality(GrantedAs(type)') <= c.type[type] /\ Cardinality(GrantedAs(type)') \in Nat
              /\ c.type[type] \in Nat /\ MaxPerType \in Nat
          BY <1>2, <1>9, <1>10, GrantsAreFinite DEF IsState, States
        <4>2. QED
          BY <3>1, <4>1
      <3>2. CASE g.type # type
        BY <1>2, <1>3, <1>6, <1>9, <3>2 DEF CallsAreCapped
      <3>3. QED
        BY <3>1, <3>2
    <2>4. QED
      BY <2>1, <2>2, <2>3
  <1>16. ASSUME NEW g \in granted'
         PROVE  Cardinality({h \in GrantedAs(g.type)' : h.at \in g.at .. g.at + RateWindow})
                  <= MaxPerWindow
    <2> DEFINE window == {h \in GrantedAs(g.type)' : h.at \in g.at .. g.at + RateWindow}
               current == {h \in GrantedAs(type)' : ~(h.at + RateWindow < now)}
    <2>1. g.at \in Nat /\ g.at <= now
      BY <1>6, <1>7 DEF Grants
    <2>2. CASE g.type = type /\ now <= g.at + RateWindow
      <3> DEFINE entries == {r \in c.log : r.type = type}
      <3>1. IsFiniteSet(entries)
        BY FS_Subset DEF IsState
      <3>2. \A h, k \in current : h.charge = k.charge => h = k
        BY <1>7 DEF GrantedAs
      <3>3. \A h \in current : \E r \in entries : r.charge = h.charge
        <4> SUFFICES ASSUME NEW h \in current PROVE \E r \in entries : r.charge = h.charge
          OBVIOUS
        <4>1. h \in granted' /\ h.type = type /\ ~(h.at + RateWindow < now)
          BY DEF GrantedAs
        <4>2. PICK r \in c.log : r.charge = h.charge /\ r.type = h.type
          BY <1>12, <4>1 DEF Logged
        <4>3. QED
          BY <4>1, <4>2
      <3> HIDE DEF current, entries
      <3>4. IsFiniteSet(current) /\ Cardinality(current) <= Cardinality(entries)
        BY <3>1, <3>2, <3>3, WindowIsLogged
      <3>5. window \in SUBSET current
        <4>1. ASSUME NEW h \in window PROVE h \in current
          <5>1. h \in granted' /\ h.at \in Nat /\ h.at >= g.at /\ h \in GrantedAs(type)'
            BY <1>6, <2>1, <2>2 DEF GrantedAs, Grants
          <5>2. ~(h.at + RateWindow < now)
            BY <1>2, <2>1, <2>2, <5>1
          <5>3. QED
            BY <5>1, <5>2 DEF current
        <4>2. QED
          BY <4>1
      <3> HIDE DEF window
      <3>6. IsFiniteSet(window) /\ Cardinality(window) <= Cardinality(current)
        BY <3>4, <3>5, FS_Subset
      <3>7. Cardinality(current) \in Nat /\ Cardinality(window) \in Nat
            /\ Cardinality(entries) \in Nat /\ MaxPerWindow \in Nat
        BY <1>2, <3>1, <3>4, <3>6, FS_CardinalityType
      <3>8. Cardinality(entries) <= MaxPerWindow
        BY DEF entries
      <3>9. QED
        BY <3>4, <3>6, <3>7, <3>8 DEF window
    <2>3. CASE ~(g.type = type /\ now <= g.at + RateWindow)
      <3>1. g \in granted
        BY <1>2, <1>3, <1>6, <2>3
      <3>2. window = {h \in GrantedAs(g.type) : h.at \in g.at .. g.at + RateWindow}
        BY <1>2, <1>3, <1>8, <2>1, <2>3
      <3>3. QED
        BY <1>2, <3>1, <3>2 DEF CallsAreCapped
    <2>4. QED
      BY <2>2, <2>3
  <1>17. CallsAreCapped'
    BY <1>11, <1>15, <1>16 DEF CallsAreCapped
  <1>18. QED
    BY <1>2, <1>6, <1>7, <1>14, <1>17 DEF GrantsAreRight

-----------------------------------------------------------------------------
(* Every step preserves the invariant.                                      *)

LEMMA NothingGranted ==
  ASSUME BudgetInv, UNCHANGED <<now, boot, granted, spent>>, made' \in {made, made + 1}
  PROVE  GrantsAreRight' /\ (\A s : Covers(s) => Covers(s)')
  <1>1. GrantsAreRight'
    <2>1. \A g \in granted : g.charge \in Nat
      BY DEF BudgetInv, GrantsAreRight, Grants
    <2>2. made \in Nat /\ made' \in Nat /\ made <= made'
      BY DEF BudgetInv, GrantsAreRight
    <2>3. \A g \in granted : g.charge <= made'
      BY <2>1, <2>2 DEF BudgetInv, GrantsAreRight
    <2>4. CallsAreCapped' = CallsAreCapped
      BY DEF CallsAreCapped, GrantedTo, GrantedAs
    <2>5. QED
      BY <2>2, <2>3, <2>4 DEF BudgetInv, GrantsAreRight
  <1>2. ASSUME NEW s, Covers(s)
        PROVE  Covers(s)'
    <2>1. \A d : GrantedTo(d)' = GrantedTo(d) /\ GrantedAs(d)' = GrantedAs(d)
      BY DEF GrantedTo, GrantedAs
    <2>2. \A g : Logged(g, s.log)' = Logged(g, s.log)
      BY DEF Logged
    <2>3. spent' <= s.cost /\ Cardinality(granted') <= s.calls
      BY <1>2 DEF Covers
    <2>4. /\ \A d \in Declared : Cardinality(GrantedTo(d)') <= s.dest[d]
          /\ \A t \in Types : Cardinality(GrantedAs(t)') <= s.type[t]
      BY <1>2, <2>1 DEF Covers
    <2>5. \A g \in granted' : Logged(g, s.log)'
      BY <1>2, <2>2 DEF Covers
    <2>6. QED
      BY <2>3, <2>4, <2>5 DEF Covers
  <1>3. QED
    BY <1>1, <1>2

\* Saving a state that is stamped now, and has charged all that really ran.
LEMMA SettleKeeps ==
  ASSUME BudgetInv, NEW s, IsState(s), Settle(s), Covers(s)', GrantsAreRight',
         UNCHANGED <<now, clock, boot, active>>, segment' \in Int, back' \in Nat, unseen' \in Nat,
         s.anchor \in Int, segment' <= Mono, active <= s.wall + (Mono - segment') + unseen',
         active <= s.wall + (clock - s.anchor) + back' + unseen'
  PROVE  BudgetInv'
  <1>1. disk' = s /\ up' = Running(s) /\ (up' => state' = s) /\ s # NoFile
    BY StateIsNoFile DEF Settle
  <1>2. Mono' = Mono
    BY DEF Mono
  <1>3. up' \in BOOLEAN
    BY <1>1 DEF Running
  <1>4. IsState(disk') /\ Covers(disk)'
    BY <1>1 DEF Covers
  <1>5. QED
    BY <1>1, <1>2, <1>3, <1>4 DEF BudgetInv

\* What a running process knows.
LEMMA RunningState ==
  ASSUME BudgetInv, up
  PROVE  /\ disk # NoFile /\ state = disk /\ IsState(state) /\ Covers(state)
         /\ Mono - segment \in Nat
         /\ Mono \in Int /\ segment \in Int /\ now \in Nat /\ boot \in Nat
         /\ clock \in Int /\ back \in Nat /\ unseen \in Nat
         /\ state.anchor \in Int /\ active \in Nat /\ state.wall \in Nat
         /\ active <= state.wall + (Mono - segment) + unseen
         /\ active <= state.wall + (clock - state.anchor) + back + unseen
         /\ GrantsAreRight
  BY DEF BudgetInv, Mono, IsState, States, Covers

LEMMA OpenStep ==
  ASSUME SupervisorAssumption, BudgetInv, NEW ack, OpenSupervisor(ack)
  PROVE  BudgetInv'
  <1>1. PICK loaded : loaded = IF disk = NoFile THEN DefaultState ELSE disk
    OBVIOUS
  <1>2. PICK cleared : cleared = [loaded EXCEPT !.halted = "no"]
    OBVIOUS
  <1>3. PICK charged : charged = Reconstructed(cleared)
    OBVIOUS
  <1>4. now \in Nat /\ boot \in Nat /\ Mono \in Int /\ active \in Nat /\ GrantsAreRight
        /\ NoTime \notin Int /\ clock \in Int /\ back \in Nat /\ unseen \in Nat
    BY DEF BudgetInv, Mono, SupervisorAssumption
  <1>5. /\ IsState(loaded) /\ Covers(loaded)
        /\ \/ loaded.anchor = NoTime /\ active <= loaded.wall
           \/ /\ loaded.anchor \in Int
              /\ active <= loaded.wall + (clock - loaded.anchor) + back + unseen
    <2>1. CASE disk = NoFile
      <3>1. loaded = DefaultState /\ active = 0 /\ granted = {} /\ spent = 0
        BY <1>1, <2>1 DEF BudgetInv
      <3>2. IsState(loaded)
        <4>1. /\ [d \in Declared |-> 0] \in [Declared -> Nat] /\ [t \in Types |-> 0] \in [Types -> Nat]
              /\ [k \in Meters |-> 0] \in [Meters -> Nat] /\ IsFiniteSet({})
          BY FS_EmptySet
        <4>2. QED
          BY <3>1, <4>1 DEF DefaultState, IsState, States, Rules
      <3>3. /\ loaded.calls = 0 /\ loaded.cost = 0 /\ loaded.anchor = NoTime /\ loaded.wall = 0
            /\ loaded.dest = [d \in Declared |-> 0] /\ loaded.type = [t \in Types |-> 0]
        BY <3>1 DEF DefaultState
      <3>4. Cardinality(granted) = 0 /\ \A d : Cardinality(GrantedTo(d)) = 0 /\ Cardinality(GrantedAs(d)) = 0
        <4>1. \A d : GrantedTo(d) = {} /\ GrantedAs(d) = {}
          BY <3>1 DEF GrantedTo, GrantedAs
        <4>2. QED
          BY <3>1, <4>1, FS_EmptySet
      <3>5. Covers(loaded)
        BY <3>1, <3>3, <3>4 DEF Covers
      <3>6. QED
        BY <3>1, <3>2, <3>3, <3>5
    <2>2. CASE disk # NoFile
      BY <1>1, <2>2 DEF BudgetInv
    <2>3. QED
      BY <2>1, <2>2
  <1>6. /\ IsState(cleared) /\ cleared.wall = loaded.wall /\ cleared.anchor = loaded.anchor
        /\ cleared.calls = loaded.calls /\ cleared.cost = loaded.cost /\ cleared.log = loaded.log
        /\ cleared.dest = loaded.dest /\ cleared.type = loaded.type
    BY <1>2, <1>5 DEF IsState, States, Rules
  <1>7. Covers(cleared)
    BY <1>5, <1>6, SameCovers
  <1>8. \A t \in Int : Elapsed(t) \in Nat /\ t <= Elapsed(t)
    BY DEF Elapsed
  <1>9. /\ IsState(charged) /\ charged.anchor = clock
        /\ charged.wall = cleared.wall
             + (IF cleared.anchor = NoTime THEN 0 ELSE Elapsed(clock - cleared.anchor))
        /\ charged.calls = cleared.calls /\ charged.cost = cleared.cost
        /\ charged.dest = cleared.dest /\ charged.type = cleared.type /\ charged.log = cleared.log
    BY <1>3, <1>4, <1>6, ReconstructionCharges
  <1>10. Covers(charged)
    BY <1>7, <1>9, SameCovers
  <1>11. active <= charged.wall + back + unseen /\ charged.wall \in Nat
    <2>1. cleared.wall \in Nat /\ charged.wall \in Nat
      BY <1>6, <1>9 DEF IsState, States
    <2>2. CASE cleared.anchor = NoTime
      BY <1>4, <1>5, <1>6, <1>9, <2>1, <2>2
    <2>3. CASE cleared.anchor # NoTime
      <3>1. /\ cleared.anchor \in Int /\ charged.wall = cleared.wall + Elapsed(clock - cleared.anchor)
            /\ active <= cleared.wall + (clock - cleared.anchor) + back + unseen
        BY <1>5, <1>6, <1>9, <2>3
      <3>2. Elapsed(clock - cleared.anchor) \in Nat /\ clock - cleared.anchor <= Elapsed(clock - cleared.anchor)
        BY <1>4, <1>8, <3>1
      <3>3. QED
        BY <1>4, <2>1, <3>1, <3>2
    <2>4. QED
      BY <2>2, <2>3
  <1>12. /\ Settle(charged) /\ segment' = Mono /\ back' = 0 /\ unseen' = unseen + back
         /\ UNCHANGED <<now, clock, boot, active, granted, spent, made>>
    BY <1>1, <1>2, <1>3 DEF OpenSupervisor, clockVars
  <1>13. GrantsAreRight' /\ Covers(charged)'
    BY <1>10, <1>12, NothingGranted
  <1>14. /\ charged.anchor \in Int /\ segment' \in Int /\ segment' <= Mono
         /\ back' \in Nat /\ unseen' \in Nat
         /\ active <= charged.wall + (Mono - segment') + unseen'
         /\ active <= charged.wall + (clock - charged.anchor) + back' + unseen'
    BY <1>4, <1>9, <1>11, <1>12
  <1>15. QED
    BY <1>9, <1>12, <1>13, <1>14, SettleKeeps

\* A tick leaves nothing of the running segment uncharged.
LEMMA Ticked ==
  ASSUME BudgetInv, up, NEW ticked, ticked = TickWallTime(state)
  PROVE  /\ IsState(ticked) /\ Covers(ticked) /\ ticked.anchor = clock
         /\ active <= ticked.wall + unseen /\ ticked.wall \in Nat
  <1>1. /\ IsState(ticked) /\ ticked.anchor = clock /\ ticked.wall = state.wall + (Mono - segment)
        /\ ticked.calls = state.calls /\ ticked.cost = state.cost
        /\ ticked.dest = state.dest /\ ticked.type = state.type /\ ticked.log = state.log
    BY RunningState, TickCharges
  <1>2. Covers(ticked)
    BY <1>1, RunningState, SameCovers
  <1>3. QED
    BY <1>1, <1>2, RunningState

\* Whatever else is charged, a saved state that was ticked first is right.
LEMMA TickedStep ==
  ASSUME BudgetInv, up, NEW s, IsState(s), s.anchor = clock, s.wall = TickWallTime(state).wall,
         Settle(s), Covers(s)', GrantsAreRight', segment' = Mono, back' = 0,
         UNCHANGED <<now, clock, boot, active, unseen>>
  PROVE  BudgetInv'
  <1>1. active <= s.wall + unseen /\ s.wall \in Nat
    BY Ticked
  <1>2. clock \in Int /\ Mono \in Int /\ active \in Nat /\ unseen \in Nat
    BY RunningState
  <1>3. /\ s.anchor \in Int /\ segment' \in Int /\ segment' <= Mono
        /\ back' \in Nat /\ unseen' \in Nat
        /\ active <= s.wall + (Mono - segment') + unseen'
        /\ active <= s.wall + (clock - s.anchor) + back' + unseen'
    BY <1>1, <1>2
  <1>4. QED
    BY <1>3, SettleKeeps

LEMMA ChargeTimeStep ==
  ASSUME BudgetInv, ChargeTime
  PROVE  BudgetInv'
  <1>1. PICK s : s = TickWallTime(state)
    OBVIOUS
  <1>2. /\ up /\ Settle(s) /\ segment' = Mono /\ back' = 0
        /\ UNCHANGED <<now, clock, boot, active, unseen, granted, spent, made>>
    BY <1>1 DEF ChargeTime, clockVars
  <1>3. IsState(s) /\ Covers(s) /\ s.anchor = clock
    BY <1>1, <1>2, Ticked
  <1>4. GrantsAreRight' /\ Covers(s)'
    BY <1>2, <1>3, NothingGranted
  <1>5. QED
    BY <1>1, <1>2, <1>3, <1>4, TickedStep

\* A call that is let through was counted, below every cap, and declared.
LEMMA CallStep ==
  ASSUME SupervisorAssumption, BudgetInv,
         NEW dest \in Declared \cup Undeclared, NEW observed \in Declared \cup Undeclared,
         NEW type \in Types, NEW cost \in {1, NoCost},
         RecordExternalCall(dest, observed, type, cost)
  PROVE  BudgetInv'
  <1>1. PICK ticked : ticked = TickWallTime(state)
    OBVIOUS
  <1>2. PICK allowed : allowed = IF Running(ticked) THEN Allowed(ticked, dest, observed) ELSE ticked
    OBVIOUS
  <1>3. PICK rated : rated = IF Running(allowed) THEN Rated(allowed, type) ELSE allowed
    OBVIOUS
  <1>4. PICK counted : counted = IF Running(rated) THEN Counted(rated, dest, type) ELSE rated
    OBVIOUS
  <1>5. PICK charged : charged = IF Running(counted) THEN Priced(counted, cost) ELSE counted
    OBVIOUS
  <1>6. PICK grant : grant = Grant(dest, observed, type)
    OBVIOUS
  <1>7. /\ up /\ Settle(charged) /\ segment' = Mono /\ back' = 0 /\ made' = made + 1
        /\ UNCHANGED <<now, clock, boot, active, unseen>>
        /\ IF Running(charged) THEN granted' = granted \cup {grant} /\ spent' = spent + Price(cost)
                               ELSE UNCHANGED <<granted, spent>>
    BY <1>1, <1>2, <1>3, <1>4, <1>5, <1>6 DEF RecordExternalCall, Charged, Grant, clockVars
  <1>8. /\ GrantsAreRight /\ now \in Nat /\ boot \in Nat /\ Mono \in Int /\ made \in Nat
        /\ Price(cost) \in Nat
        /\ {MaxCalls, MaxPerDestination, MaxPerType, MaxPerWindow, Ceiling} \subseteq Nat
    BY <1>7, RunningState DEF GrantsAreRight, Price, SupervisorAssumption
  <1>9. IsState(ticked) /\ Covers(ticked) /\ ticked.anchor = clock
    BY <1>1, <1>7, Ticked
  <1>10. /\ Later(ticked, allowed) /\ IsState(allowed) /\ Covers(allowed)
         /\ Running(allowed) => dest \in Declared /\ observed \in Declared /\ allowed = ticked
    <2>1. CASE Running(ticked)
      <3>1. /\ Later(ticked, allowed)
            /\ Running(allowed) => dest \in Declared /\ observed \in Declared /\ allowed = ticked
        BY <1>2, <1>9, <2>1, AllowedKeeps
      <3>2. IsState(allowed) /\ Covers(allowed)
        BY <1>8, <1>9, <3>1, LaterCovers DEF Later
      <3>3. QED
        BY <3>1, <3>2
    <2>2. CASE ~Running(ticked)
      BY <1>2, <1>9, <2>2, LaterIsReflexive
    <2>3. QED
      BY <2>1, <2>2
  <1>11. /\ IsState(rated) /\ Covers(rated) /\ rated.anchor = clock /\ rated.wall = ticked.wall
         /\ Running(rated) =>
              /\ Running(allowed) /\ rated.calls = ticked.calls /\ rated.cost = ticked.cost
              /\ rated.dest = ticked.dest /\ rated.type = ticked.type
              /\ rated.log = Recent(ticked.log \cup {Entry(type)})
              /\ Cardinality({r \in rated.log : r.type = type}) <= MaxPerWindow
    <2>1. allowed.anchor = clock /\ allowed.wall = ticked.wall
      BY <1>9, <1>10 DEF Later
    <2>2. CASE Running(allowed)
      <3>1. rated = Rated(allowed, type)
        BY <1>3, <2>2
      <3>2. /\ IsState(rated) /\ rated.wall = allowed.wall /\ rated.anchor = allowed.anchor
            /\ rated.calls = allowed.calls /\ rated.cost = allowed.cost
            /\ rated.dest = allowed.dest /\ rated.type = allowed.type
            /\ rated.log = Recent(allowed.log \cup {Entry(type)})
            /\ Running(rated) => Cardinality({r \in rated.log : r.type = type}) <= MaxPerWindow
        BY <1>8, <1>10, <3>1, RatedLogs DEF Entry
      <3>3. Covers(rated)
        BY <1>8, <1>10, <3>1, RatedCovers
      <3>4. QED
        BY <1>10, <2>1, <2>2, <3>2, <3>3
    <2>3. CASE ~Running(allowed)
      BY <1>3, <1>10, <2>1, <2>3
    <2>4. QED
      BY <2>2, <2>3
  <1>12. /\ Later(rated, counted) /\ IsState(counted)
         /\ Running(counted) =>
              /\ Running(rated)
              /\ counted.calls = rated.calls + 1 /\ counted.calls <= MaxCalls
              /\ counted.cost = rated.cost /\ counted.log = rated.log
              /\ counted.dest = [rated.dest EXCEPT ![dest] = @ + 1]
              /\ counted.dest[dest] <= MaxPerDestination
              /\ counted.type = [rated.type EXCEPT ![type] = @ + 1]
              /\ counted.type[type] <= MaxPerType
    <2>1. CASE Running(rated)
      <3>1. counted = Counted(rated, dest, type) /\ dest \in Declared
        BY <1>4, <1>10, <1>11, <2>1
      <3>2. Later(rated, counted)
        BY <1>8, <1>11, <3>1, CountedCounts
      <3>3. Running(counted) =>
              /\ counted.calls = rated.calls + 1 /\ counted.calls <= MaxCalls
              /\ counted.cost = rated.cost
              /\ counted.dest = [rated.dest EXCEPT ![dest] = @ + 1]
              /\ counted.dest[dest] <= MaxPerDestination
              /\ counted.type = [rated.type EXCEPT ![type] = @ + 1]
              /\ counted.type[type] <= MaxPerType
        BY <1>8, <1>11, <3>1, CountedCounts
      <3>4. QED
        BY <2>1, <3>2, <3>3 DEF Later
    <2>2. CASE ~Running(rated)
      BY <1>4, <1>11, <2>2, LaterIsReflexive
    <2>3. QED
      BY <2>1, <2>2
  <1>13. /\ Later(rated, charged) /\ IsState(charged)
         /\ Running(charged) =>
              /\ Running(counted)
              /\ charged.cost = counted.cost + Price(cost) /\ charged.cost <= Ceiling
              /\ charged.calls = counted.calls /\ charged.dest = counted.dest
              /\ charged.type = counted.type /\ charged.log = counted.log
    <2>1. CASE Running(counted)
      <3>1. charged = Priced(counted, cost)
        BY <1>5, <2>1
      <3>2. Later(counted, charged)
        BY <1>8, <1>12, <3>1, PricedPays
      <3>3. Running(charged) =>
              /\ charged.cost = counted.cost + Price(cost) /\ charged.cost <= Ceiling
              /\ charged.calls = counted.calls /\ charged.dest = counted.dest
              /\ charged.type = counted.type
        BY <1>8, <1>12, <3>1, PricedPays
      <3>4. Later(rated, charged)
        BY <1>11, <1>12, <3>2, LaterIsTransitive
      <3>5. QED
        BY <2>1, <3>2, <3>3, <3>4 DEF Later
    <2>2. CASE ~Running(counted)
      BY <1>5, <1>12, <2>2
    <2>3. QED
      BY <2>1, <2>2
  <1>14. Covers(charged) /\ charged.anchor = clock /\ charged.wall = ticked.wall
    BY <1>8, <1>11, <1>13, LaterCovers DEF Later
  <1>15. GrantsAreRight' /\ Covers(charged)'
    <2>1. CASE Running(charged)
      <3>1. Running(counted) /\ Running(rated) /\ Running(allowed)
        BY <1>11, <1>12, <1>13, <2>1
      <3>2. dest \in Declared /\ observed \in Declared
        BY <1>10, <3>1
      <3>3. /\ charged.calls = ticked.calls + 1 /\ charged.calls <= MaxCalls
            /\ charged.cost = ticked.cost + Price(cost) /\ charged.cost <= Ceiling
        BY <1>11, <1>12, <1>13, <2>1, <3>1
      <3>4. /\ charged.dest = [ticked.dest EXCEPT ![dest] = @ + 1]
            /\ charged.dest[dest] <= MaxPerDestination
            /\ charged.type = [ticked.type EXCEPT ![type] = @ + 1]
            /\ charged.type[type] <= MaxPerType
        BY <1>11, <1>12, <1>13, <2>1, <3>1
      <3>5. /\ charged.log = Recent(ticked.log \cup {Entry(type)})
            /\ Cardinality({r \in charged.log : r.type = type}) <= MaxPerWindow
        BY <1>11, <1>12, <1>13, <2>1, <3>1
      <3>6. /\ granted' = granted \cup {Grant(dest, observed, type)}
            /\ spent' = spent + Price(cost) /\ made' = made + 1 /\ now' = now /\ boot' = boot
        BY <1>6, <1>7, <2>1
      <3>7. QED
        BY <1>8, <1>9, <1>13, <3>2, <3>3, <3>4, <3>5, <3>6, GrantIsRight
    <2>2. CASE ~Running(charged)
      <3>1. UNCHANGED <<now, boot, granted, spent>> /\ made' = made + 1
        BY <1>7, <2>2
      <3>2. QED
        BY <1>14, <3>1, NothingGranted
    <2>3. QED
      BY <2>1, <2>2
  <1>16. charged.wall = TickWallTime(state).wall
    BY <1>1, <1>14
  <1>17. QED
    BY <1>7, <1>13, <1>14, <1>15, <1>16, TickedStep

\* What charges no time leaves segment and anchor as they are.
LEMMA TimelessStep ==
  ASSUME BudgetInv, up, NEW s, Later(state, s), Settle(s), made' \in {made, made + 1},
         UNCHANGED <<segment, now, clock, boot, active, back, unseen, granted, spent>>
  PROVE  BudgetInv'
  <1>1. IsState(s) /\ Covers(s) /\ s.anchor = state.anchor /\ s.wall = state.wall
    BY RunningState, LaterCovers DEF Later
  <1>2. GrantsAreRight' /\ Covers(s)'
    BY <1>1, NothingGranted
  <1>3. /\ s.anchor \in Int /\ segment' \in Int /\ segment' <= Mono
        /\ back' \in Nat /\ unseen' \in Nat
        /\ active <= s.wall + (Mono - segment') + unseen'
        /\ active <= s.wall + (clock - s.anchor) + back' + unseen'
    BY <1>1, RunningState
  <1>4. QED
    BY <1>1, <1>2, <1>3, SettleKeeps

LEMMA MeterStep ==
  ASSUME BudgetInv, NEW k \in Meters, Record(k)
  PROVE  BudgetInv'
  <1>1. up /\ IsState(state)
    BY RunningState DEF Record
  <1>2. PICK metered : metered = [state EXCEPT !.meter[k] = @ + 1]
    OBVIOUS
  <1>3. PICK within : within = (metered.meter[k] <= MaxMeter)
    OBVIOUS
  <1>4. PICK s : s = Check(metered, within, k)
    OBVIOUS
  <1>5. /\ Settle(s) /\ made' = made + 1
        /\ UNCHANGED <<segment, now, clock, boot, active, back, unseen, granted, spent>>
    BY <1>2, <1>3, <1>4 DEF Record, clockVars
  <1>6. IsState(metered) /\ Later(state, metered)
    <2>1. metered = [state EXCEPT !.meter = [state.meter EXCEPT ![k] = @ + 1]]
      BY <1>2
    <2>2. [state.meter EXCEPT ![k] = @ + 1] \in [Meters -> Nat]
      BY <1>1 DEF IsState, States
    <2>3. QED
      BY <1>1, <2>1, <2>2 DEF Later, IsState, States
  <1>7. within \in BOOLEAN /\ k \in Rules
    BY <1>3 DEF Rules
  <1>8. Later(metered, s)
    BY <1>4, <1>6, <1>7, CheckKeeps
  <1>9. Later(state, s)
    BY <1>1, <1>6, <1>8, LaterIsTransitive
  <1>10. QED
    BY <1>1, <1>5, <1>9, TimelessStep

LEMMA MeasureStep ==
  ASSUME BudgetInv, Measure
  PROVE  BudgetInv'
  <1>1. up /\ IsState(state) /\ "measured" \in Rules
    BY RunningState DEF Measure, Rules
  <1>2. PICK s : s = Halt(state, "measured")
    OBVIOUS
  <1>3. /\ Settle(s) /\ made' = made
        /\ UNCHANGED <<segment, now, clock, boot, active, back, unseen, granted, spent>>
    BY <1>2 DEF Measure, clockVars
  <1>4. Later(state, s)
    BY <1>1, <1>2, HaltKeeps
  <1>5. QED
    BY <1>1, <1>3, <1>4, TimelessStep

LEMMA WorldStep ==
  ASSUME BudgetInv, RateWindow \in Nat,
         (\E time \in now - MaxBehind .. now + MaxAhead : SetClock(time)) \/ Tick \/ Killed \/ Reboot,
         MaxBehind \in Nat, MaxAhead \in Nat
  PROVE  BudgetInv'
  <1>1. /\ now \in Nat /\ boot \in Nat /\ boot <= now /\ active \in Nat /\ segment \in Int
        /\ up \in BOOLEAN /\ GrantsAreRight /\ clock \in Int /\ back \in Nat /\ unseen \in Nat
    BY DEF BudgetInv
  <1>2. /\ UNCHANGED <<disk, segment, granted, spent, made>>
        /\ now' \in Nat /\ now <= now' /\ boot' \in Nat /\ boot <= boot' /\ boot' <= now'
    BY <1>1 DEF Tick, Killed, Reboot, SetClock, clockVars
  <1>3. GrantsAreRight'
    <2>1. CallsAreCapped' = CallsAreCapped
      BY <1>2 DEF CallsAreCapped, GrantedTo, GrantedAs
    <2>2. \A g \in granted : g.at \in Nat
      BY <1>1 DEF GrantsAreRight, Grants
    <2>3. \A g \in granted : g.at <= now'
      BY <1>1, <1>2, <2>2 DEF GrantsAreRight
    <2>4. QED
      BY <1>1, <1>2, <2>1, <2>3 DEF GrantsAreRight
  <1>4. disk # NoFile => Covers(disk)'
    <2> SUFFICES ASSUME disk # NoFile PROVE Covers(disk)'
      OBVIOUS
    <2>1. Covers(disk) /\ disk.log \subseteq Entries
      BY DEF BudgetInv, IsState, States
    <2>2. \A d : GrantedTo(d)' = GrantedTo(d) /\ GrantedAs(d)' = GrantedAs(d)
      BY <1>2 DEF GrantedTo, GrantedAs
    <2>3. ASSUME NEW g \in granted
          PROVE  Logged(g, disk.log)'
      <3>1. Logged(g, disk.log) /\ g.at \in Nat
        BY <1>1, <2>1 DEF Covers, GrantsAreRight, Grants
      <3>2. \A r \in disk.log : r.at \in Int
        BY <2>1 DEF Entries
      <3>3. CASE g.at + RateWindow < now
        BY <1>1, <1>2, <3>1, <3>3 DEF Logged
      <3>4. CASE \E r \in disk.log : r.charge = g.charge /\ r.type = g.type /\ g.at <= r.at + boot
        <4>1. PICK r \in disk.log : r.charge = g.charge /\ r.type = g.type /\ g.at <= r.at + boot
          BY <3>4
        <4>2. g.at <= r.at + boot'
          BY <1>1, <1>2, <3>1, <3>2, <4>1
        <4>3. QED
          BY <1>2, <4>1, <4>2 DEF Logged
      <3>5. QED
        BY <3>1, <3>3, <3>4 DEF Logged
    <2>4. spent' <= disk'.cost /\ Cardinality(granted') <= disk'.calls
      BY <1>2, <2>1 DEF Covers
    <2>5. /\ \A d \in Declared : Cardinality(GrantedTo(d)') <= disk'.dest[d]
          /\ \A t \in Types : Cardinality(GrantedAs(t)') <= disk'.type[t]
      BY <1>2, <2>1, <2>2 DEF Covers
    <2>6. \A g \in granted' : Logged(g, disk.log)'
      BY <1>2, <2>3
    <2>7. QED
      BY <2>4, <2>5, <2>6 DEF Covers
  <1>5. disk # NoFile => disk.wall \in Nat /\ IsState(disk)' /\ disk.anchor \in Int
    BY <1>2 DEF BudgetInv, IsState, States
  <1>6. \/ /\ now' = now + 1 /\ clock' = clock + 1 /\ boot' = boot /\ back' = back
           /\ up' = up /\ state' = state /\ active' = (IF up THEN active + 1 ELSE active)
        \/ /\ now' = now /\ clock' = clock /\ back' = back /\ active' = active /\ ~up'
        \/ /\ now' = now /\ clock' \in Int /\ back' \in Nat /\ clock + back <= clock' + back'
           /\ boot' = boot /\ up' = up /\ state' = state /\ active' = active
    <2>1. CASE Tick
      <3>1. active' = active + (IF up THEN 1 ELSE 0)
        BY <2>1 DEF Tick
      <3>2. active' = (IF up THEN active + 1 ELSE active)
        BY <1>1, <3>1
      <3>3. QED
        BY <2>1, <3>2 DEF Tick
    <2>2. CASE Killed \/ Reboot
      BY <1>1, <2>2 DEF Killed, Reboot, clockVars
    <2>3. CASE \E time \in now - MaxBehind .. now + MaxAhead : SetClock(time)
      <3>1. PICK time \in now - MaxBehind .. now + MaxAhead : SetClock(time)
        BY <2>3
      <3>2. time \in Int /\ clock' = time /\ back' = back + Elapsed(clock - time)
        BY <1>1, <3>1 DEF SetClock
      <3>3. back' \in Nat /\ clock + back <= time + back'
        BY <1>1, <3>2 DEF Elapsed
      <3>4. QED
        BY <3>1, <3>2, <3>3 DEF SetClock
    <2>4. QED
      BY <2>1, <2>2, <2>3
  <1>7. /\ active' \in Nat /\ clock' \in Int /\ back' \in Nat /\ unseen' = unseen /\ up' \in BOOLEAN
        /\ disk = NoFile => ~up' /\ active' = 0 /\ granted' = {} /\ spent' = 0
    <2>1. unseen' = unseen
      BY DEF Tick, Killed, Reboot, SetClock
    <2>2. active' \in Nat /\ clock' \in Int /\ back' \in Nat
      BY <1>1, <1>6
    <2>4. up' \in BOOLEAN
      BY <1>1 DEF Tick, Killed, Reboot, SetClock
    <2>5. disk = NoFile => ~up /\ active = 0
      BY DEF BudgetInv
    <2>6. disk = NoFile => ~up' /\ active' = 0
      BY <1>6, <2>5
    <2>3. disk = NoFile => granted' = {} /\ spent' = 0
      BY <1>2 DEF BudgetInv
    <2>7. QED
      BY <2>1, <2>2, <2>3, <2>4, <2>6
  <1>8. disk # NoFile => active' <= disk.wall + (clock' - disk.anchor) + back' + unseen'
    <2> SUFFICES ASSUME disk # NoFile
                 PROVE  active' <= disk.wall + (clock' - disk.anchor) + back' + unseen'
      OBVIOUS
    <2>1. active <= disk.wall + (clock - disk.anchor) + back + unseen
      BY DEF BudgetInv
    <2>2. /\ disk.wall \in Nat /\ disk.anchor \in Int
          /\ active' \in Nat /\ clock' \in Int /\ back' \in Nat /\ unseen' = unseen
      BY <1>5, <1>7
    <2>3. CASE clock' = clock + 1 /\ back' = back /\ active' = (IF up THEN active + 1 ELSE active)
      <3>1. active' <= active + 1
        BY <1>1, <2>3
      <3>2. QED
        BY <1>1, <2>1, <2>2, <2>3, <3>1
    <2>4. CASE active' = active /\ clock + back <= clock' + back'
      <3>1. PICK charged \in Nat : charged = disk.wall
        BY <2>2
      <3>2. PICK anchor \in Int : anchor = disk.anchor
        BY <2>2
      <3>3. PICK time \in Int, ahead \in Nat : time = clock' /\ ahead = back'
        BY <2>2
      <3>4. clock + back <= time + ahead
        BY <2>4, <3>3
      <3>5. active <= charged + (clock - anchor) + back + unseen
        BY <2>1, <3>1, <3>2
      <3>6. active <= charged + (time - anchor) + ahead + unseen
        BY <1>1, <3>4, <3>5
      <3>7. QED
        BY <2>2, <2>4, <3>1, <3>2, <3>3, <3>6
    <2>5. QED
      BY <1>1, <1>6, <2>3, <2>4
  <1>9. up' => /\ state' = disk' /\ segment' <= Mono'
               /\ active' <= disk'.wall + (Mono' - segment') + unseen'
    <2> SUFFICES ASSUME up' PROVE /\ state' = disk' /\ segment' <= Mono'
                                  /\ active' <= disk'.wall + (Mono' - segment') + unseen'
      OBVIOUS
    <2>1. /\ up /\ state' = state /\ boot' = boot
          /\ \/ now' = now + 1 /\ active' = active + 1
             \/ now' = now /\ active' = active
      BY <1>6
    <2>2. state = disk /\ segment <= Mono /\ active <= disk.wall + (Mono - segment) + unseen
          /\ disk # NoFile
      BY <2>1 DEF BudgetInv
    <2>3. disk' = disk /\ segment' = segment /\ unseen' = unseen /\ disk.wall \in Nat
      BY <1>2, <1>5, <1>7, <2>2
    <2>4. QED
      BY <1>1, <2>1, <2>2, <2>3 DEF Mono
  <1>10. disk # NoFile => /\ IsState(disk') /\ Covers(disk)' /\ disk'.anchor \in Int
                          /\ active' <= disk'.wall + (clock' - disk'.anchor) + back' + unseen'
    BY <1>2, <1>4, <1>5, <1>8 DEF IsState
  <1>11. QED
    BY <1>1, <1>2, <1>3, <1>7, <1>9, <1>10 DEF BudgetInv

-----------------------------------------------------------------------------
(* The theorem.                                                             *)

LEMMA BudgetInvHolds ==
  ASSUME SupervisorAssumption
  PROVE  BudgetSpec => []BudgetInv
  <1>1. BudgetInit => BudgetInv
    <2> SUFFICES ASSUME BudgetInit PROVE BudgetInv
      OBVIOUS
    <2>1. /\ disk = NoFile /\ up = FALSE /\ segment = 0 /\ now = 0 /\ boot = 0 /\ active = 0
          /\ granted = {} /\ spent = 0 /\ made = 0 /\ clock = 0 /\ back = 0 /\ unseen = 0
      BY DEF BudgetInit
    <2>2. MaxCalls \in Nat /\ Ceiling \in Nat
      BY DEF SupervisorAssumption
    <2>3. IsFiniteSet(granted) /\ Cardinality(granted) = 0
      BY <2>1, FS_EmptySet
    <2>4. GrantsAreRight
      BY <2>1, <2>2, <2>3 DEF GrantsAreRight, CallsAreCapped
    <2>5. ~up /\ up \in BOOLEAN
      BY <2>1
    <2>6. /\ now \in Nat /\ boot \in Nat /\ segment \in Int /\ active \in Nat /\ boot <= now
          /\ disk = NoFile /\ active = 0 /\ granted = {} /\ spent = 0
          /\ clock \in Int /\ back \in Nat /\ unseen \in Nat
      BY <2>1
    <2>7. QED
      BY ONLY <2>4, <2>5, <2>6 DEF BudgetInv
  <1>2. BudgetInv /\ [BudgetNext]_budgetVars => BudgetInv'
    <2> SUFFICES ASSUME BudgetInv, [BudgetNext]_budgetVars PROVE BudgetInv'
      OBVIOUS
    <2>1. CASE UNCHANGED budgetVars
      <3>1. /\ UNCHANGED <<disk, state, up, segment, now, clock, boot, active, back, unseen, granted,
                         spent, made>>
            /\ GrantsAreRight' /\ (disk # NoFile => Covers(disk)')
        <4>1. UNCHANGED <<disk, state, up, segment, now, clock, boot, active, back, unseen, granted,
                         spent, made>>
          BY <2>1 DEF budgetVars, clockVars
        <4>2. GrantsAreRight' /\ (disk # NoFile => Covers(disk)')
          <5>1. \A d : GrantedTo(d)' = GrantedTo(d) /\ GrantedAs(d)' = GrantedAs(d)
            BY <4>1 DEF GrantedTo, GrantedAs
          <5>2. GrantsAreRight'
            BY <4>1, NothingGranted
          <5>3. \A g : Logged(g, disk.log)' = Logged(g, disk.log)
            BY <4>1 DEF Logged
          <5>4. QED
            BY <4>1, <5>1, <5>2, <5>3 DEF BudgetInv, Covers
        <4>3. QED
          BY <4>1, <4>2
      <3>2. QED
        BY <3>1 DEF BudgetInv, Mono, IsState
    <2>2. CASE BudgetNext
      <3>1. RateWindow \in Nat /\ MaxBehind \in Nat /\ MaxAhead \in Nat
        BY DEF SupervisorAssumption
      <3>2. QED
        BY <2>2, <3>1, OpenStep, ChargeTimeStep, CallStep, MeterStep, MeasureStep, WorldStep
           DEF BudgetNext
    <2>3. QED
      BY <2>1, <2>2
  <1>3. QED
    BY <1>1, <1>2, PTL DEF BudgetSpec

\* The budgets of a run outlive kills, restarts, acknowledged halts and reboots: what its
\* processes really ran for is on file or follows from the anchor on file, but for what
\* the clock was set back by between a killed process' last tick and the next start, and
\* what they were let through to do stays within every cap on calls, on each destination
\* and type, on the rate in any window of real time, and on cost.
THEOREM BudgetsOutlive ==
  ASSUME SupervisorAssumption
  PROVE  BudgetSpec => []BudgetsOutliveRestarts
  <1>1. BudgetInv => BudgetsOutliveRestarts
    <2> SUFFICES ASSUME BudgetInv PROVE BudgetsOutliveRestarts
      OBVIOUS
    <2>1. CallsAreCapped
      BY DEF BudgetInv, GrantsAreRight
    <2>2. ASSUME disk # NoFile
          PROVE  disk.wall + Elapsed(clock - disk.anchor) + back + unseen >= active
      <3>1. /\ disk.wall \in Nat /\ disk.anchor \in Int /\ clock \in Int /\ back \in Nat
            /\ unseen \in Nat /\ active \in Nat
            /\ active <= disk.wall + (clock - disk.anchor) + back + unseen
        BY <2>2 DEF BudgetInv, IsState, States
      <3>2. QED
        BY <3>1 DEF Elapsed
    <2>3. QED
      BY <2>1, <2>2 DEF KilledTimeIsCharged, BudgetsOutliveRestarts
  <1>2. QED
    BY <1>1, BudgetInvHolds, PTL
===============================================================================
