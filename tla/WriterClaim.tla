------------------------------ MODULE WriterClaim ------------------------------
(***************************************************************************)
(* The standing writer claim of scripts/writer-claim.js: one file says     *)
(* which process attests for a state directory.  A claim is created        *)
(* exclusively, renewed in place through a descriptor that is held from    *)
(* the check of the token to the write, taken over when it is stale, and   *)
(* removed when its owner stops.  Each writer is a process with a pid of   *)
(* its own and lives once; a restart is another writer, which may have     *)
(* been given the instance id of an earlier one.                           *)
(*                                                                         *)
(* The token of a claim is named by the writer that created it, and so is  *)
(* the inode behind a descriptor.                                          *)
(***************************************************************************)
EXTENDS Integers, FiniteSets

CONSTANTS
  Writers, Hosts, Instances,
  MaxAttempts   \* ATTEMPTS of acquire

ClaimAssumption == MaxAttempts \in Nat \ {0} /\ {"none", "human"} \cap Writers = {}

VARIABLES
  identity,   \* the host and the instance id of each writer
  claim,      \* writer-claim.json: by whom, how old it looks, whether it was cut short
  writer,     \* what each writer is doing
  held,       \* the token each writer believes to hold, or "none"
  removals    \* the claims removed so far: whose, by whom, and which one was checked

claimVars == <<identity, claim, writer, held, removals>>

NoClaim == [by |-> "none", age |-> "none", torn |-> FALSE]
Fresh(token) == [by |-> token, age |-> "fresh", torn |-> FALSE]
Host(w) == identity[w].host
Instance(w) == identity[w].instance
WriterAt(w, places) == writer[w].at \in places
Go(w, place) == writer' = [writer EXCEPT ![w].at = place]
Live(w) == ~WriterAt(w, {"new", "dead", "refused", "stopped"})

-----------------------------------------------------------------------------
\* Mutant of Decide: the instance id is looked at before the host.
DecideByInstance(w, record) ==
  LET gone == Host(record.by) # Host(w) \/ ~Live(record.by) IN
  IF Instance(record.by) = Instance(w)
    THEN IF record.by # w /\ ~gone THEN "refuse" ELSE "own"
  ELSE IF Host(record.by) # Host(w) THEN "refuse"
  ELSE IF record.age = "old" \/ (record.age \in {"ahead", "skewed"} /\ gone)
    THEN "steal" ELSE "refuse"

\* The foreign host first, then the instance id, and age and liveness last: a dead
\* owner decides a claim from the future, and only age decides one from the past.
Decide(w, record) ==
  IF Host(record.by) # Host(w) THEN "refuse"
  ELSE IF Instance(record.by) = Instance(w)
    THEN IF record.by # w /\ Live(record.by) THEN "refuse" ELSE "own"
  ELSE IF record.age = "old" \/ (record.age = "ahead" /\ ~Live(record.by))
          \/ (record.age = "skewed" /\ ~Live(record.by))
    THEN "steal" ELSE "refuse"

StartWriter(w) ==
  /\ WriterAt(w, {"new"})
  /\ Go(w, "acquire")
  /\ UNCHANGED <<identity, claim, held, removals>>

CreateClaim(w) ==
  /\ WriterAt(w, {"acquire"}) /\ claim = NoClaim
  /\ claim' = Fresh(w)
  /\ held' = [held EXCEPT ![w] = w]
  /\ Go(w, "holding")
  /\ UNCHANGED <<identity, removals>>

\* The file exists: an unreadable one refuses, like every attempt too many.
Acquire(w) ==
  /\ WriterAt(w, {"acquire"}) /\ claim # NoClaim
  /\ LET verdict == IF claim.torn \/ writer[w].attempts = MaxAttempts
                      THEN "refuse" ELSE Decide(w, claim) IN
     writer' = [writer EXCEPT
       ![w] = [at |-> CASE verdict = "own" -> "holding"
                        [] verdict = "steal" -> "verify"
                        [] verdict = "refuse" -> "refused",
               seen |-> claim.by, attempts |-> @.attempts + 1]]
     /\ held' = IF verdict = "own" THEN [held EXCEPT ![w] = claim.by] ELSE held
  /\ UNCHANGED <<identity, claim, removals>>

\* unlinkIfToken: the open file is the one seen and still the one on the path; what
\* is on the path a moment later is removed.
VerifyToken(w) ==
  /\ WriterAt(w, {"verify", "verify_release"})
  /\ LET taking == WriterAt(w, {"verify"}) IN
     IF claim.torn
       THEN Go(w, IF taking THEN "refused" ELSE "holding") /\ UNCHANGED held
     ELSE IF claim.by = writer[w].seen
       THEN Go(w, IF taking THEN "unlink" ELSE "unlink_release") /\ UNCHANGED held
     ELSE /\ Go(w, IF taking THEN "acquire" ELSE "stopped")
          /\ held' = IF taking THEN held ELSE [held EXCEPT ![w] = "none"]
  /\ UNCHANGED <<identity, claim, removals>>

Removed(token, checked, who) ==
  /\ claim' = NoClaim
  /\ removals' = IF token = "none" THEN removals
                 ELSE removals \cup {[of |-> token, seen |-> checked, by |-> who]}

\* A claim that is gone by now makes release throw, and it keeps its token.
Unlink(w) ==
  /\ WriterAt(w, {"unlink", "unlink_release"})
  /\ Removed(claim.by, writer[w].seen, w)
  /\ IF WriterAt(w, {"unlink"}) THEN Go(w, "acquire") /\ UNCHANGED held
     ELSE IF claim = NoClaim THEN Go(w, "holding") /\ UNCHANGED held
     ELSE Go(w, "stopped") /\ held' = [held EXCEPT ![w] = "none"]
  /\ UNCHANGED identity

\* A heartbeat whose claim cannot be read keeps its error for itself.
OpenToRenew(w) ==
  /\ WriterAt(w, {"holding"})
  /\ \/ /\ claim # NoClaim /\ claim.torn
        /\ UNCHANGED <<writer, held>>
     \/ /\ claim.by = held[w] /\ ~claim.torn
        /\ Go(w, "truncate")
        /\ UNCHANGED held
     \/ /\ claim.by # held[w] /\ ~claim.torn
        /\ held' = [held EXCEPT ![w] = "none"]
        /\ Go(w, "lost")
  /\ UNCHANGED <<identity, claim, removals>>

Truncate(w) ==
  /\ WriterAt(w, {"truncate"})
  /\ claim' = IF claim.by = held[w] THEN [claim EXCEPT !.torn = TRUE] ELSE claim
  /\ Go(w, "rewrite")
  /\ UNCHANGED <<identity, held, removals>>

Rewrite(w) ==
  /\ WriterAt(w, {"rewrite"})
  /\ claim' = IF claim.by = held[w] THEN Fresh(held[w]) ELSE claim
  /\ Go(w, "holding")
  /\ UNCHANGED <<identity, held, removals>>

Release(w) ==
  /\ WriterAt(w, {"holding"})
  /\ writer' = [writer EXCEPT ![w].at = "verify_release", ![w].seen = held[w]]
  /\ UNCHANGED <<identity, claim, held, removals>>

WriterDies(w) ==
  /\ Live(w)
  /\ Go(w, "dead")
  /\ held' = [held EXCEPT ![w] = "none"]
  /\ UNCHANGED <<identity, claim, removals>>

\* Missed heartbeats, and a clock that was set back by a little or by a lot.
ClaimAges(age) ==
  /\ claim # NoClaim /\ claim.age # age
  /\ claim' = [claim EXCEPT !.age = age]
  /\ UNCHANGED <<identity, writer, held, removals>>

\* What the refusal of an unreadable claim asks its reader to do.
HumanRemovesClaim ==
  /\ claim.torn /\ \A w \in Writers : held[w] = "none"
  /\ Removed(claim.by, claim.by, "human")
  /\ UNCHANGED <<identity, writer, held>>

ClaimInit ==
  /\ identity \in [Writers -> [host : Hosts, instance : Instances]]
  /\ claim = NoClaim
  /\ writer = [w \in Writers |-> [at |-> "new", seen |-> "none", attempts |-> 0]]
  /\ held = [w \in Writers |-> "none"]
  /\ removals = {}

ClaimNext ==
  \/ \E w \in Writers :
       \/ StartWriter(w) \/ CreateClaim(w) \/ Acquire(w) \/ VerifyToken(w) \/ Unlink(w)
       \/ OpenToRenew(w) \/ Truncate(w) \/ Rewrite(w) \/ Release(w) \/ WriterDies(w)
  \/ \E age \in {"old", "ahead", "skewed"} : ClaimAges(age)
  \/ HumanRemovesClaim

ClaimSpec == ClaimInit /\ [][ClaimNext]_claimVars

-----------------------------------------------------------------------------

GoneTokens == {r.of : r \in removals}

\* A writer sees neither the clock nor the processes of another host, so a claim crosses
\* hosts by removal only.  What a writer removes is the claim it checked, and that is of
\* its own host, unless the checked claim was removed by another between the last look
\* and the unlink: then whatever is on the path goes, the fresh claim of another host
\* too.  And writers of two hosts believe at once to attest only when the claim of one
\* of them was removed under it.
ClaimsCrossHostsByRemoval ==
  /\ \A r \in removals :
       \/ r.by = "human"
       \/ r.of = r.seen /\ Host(r.of) = Host(r.by)
       \/ r.of # r.seen /\ r.seen \in GoneTokens
  /\ \A v, w \in Writers :
       held[v] # "none" /\ held[w] # "none" /\ Host(v) # Host(w) =>
         {held[v], held[w]} \cap GoneTokens # {}

=============================================================================
