------------------------------ MODULE Promise ------------------------------
(***************************************************************************)
(* What WaySplit promises about the expense of a run, without a word about *)
(* tokens, handlers, requests or crashes: nothing is tried without a       *)
(* consent, a consent is spent by what it allows, a run is tried again     *)
(* only if nothing was made, and what is recorded as done was done.        *)
(***************************************************************************)
CONSTANTS Runs, Digests, NoPlan

VARIABLES
    consent,  \* run |-> the consent the operator has given and not spent, if any
    phase,    \* run |-> what WaySplit says of it
    agreed,   \* run |-> the plan that was tried, or NoPlan
    remote    \* run |-> its expense at the destination

promiseVars == <<consent, phase, agreed, remote>>

ToPost(d)     == [purpose |-> "post", digest |-> d]
ToRollback(d) == [purpose |-> "rollback", digest |-> d]

Init ==
    /\ consent = [r \in Runs |-> {}]
    /\ phase = [r \in Runs |-> "open"]
    /\ agreed = [r \in Runs |-> NoPlan]
    /\ remote = [r \in Runs |-> "none"]

-----------------------------------------------------------------------------
(* The operator *)

\* A consent replaces the one before; a rollback is of what was agreed.
Consent(r, c) ==
    /\ \/ phase[r] = "open" /\ c \in {ToPost(d) : d \in Digests}
       \/ phase[r] = "done" /\ c = ToRollback(agreed[r])
    /\ consent' = [consent EXCEPT ![r] = {c}]
    /\ UNCHANGED <<phase, agreed, remote>>

\* A consent lapses: it expires, the plan changes, or it is lost.
Lapse(r) ==
    /\ consent' = [consent EXCEPT ![r] = {}]
    /\ UNCHANGED <<phase, agreed, remote>>

Spend(r, c) ==
    /\ c \in consent[r]
    /\ consent' = [consent EXCEPT ![r] = {}]

-----------------------------------------------------------------------------
(* WaySplit *)

Become(r, from, to) ==
    /\ phase[r] = from
    /\ phase' = [phase EXCEPT ![r] = to]

Try(r, d) ==
    /\ Spend(r, ToPost(d))
    /\ Become(r, "open", "trying")
    /\ agreed' = [agreed EXCEPT ![r] = d]
    /\ UNCHANGED remote

\* Nothing was made, and nothing will be: the run is open again.
NothingMade(r) ==
    /\ remote[r] = "none"
    /\ Become(r, "trying", "open")
    /\ agreed' = [agreed EXCEPT ![r] = NoPlan]
    /\ UNCHANGED <<consent, remote>>

Done(r) ==
    /\ remote[r] # "none"
    /\ Become(r, "trying", "done")
    /\ UNCHANGED <<consent, agreed, remote>>

Withdraw(r) ==
    /\ Spend(r, ToRollback(agreed[r]))
    /\ Become(r, "done", "withdrawing")
    /\ UNCHANGED <<agreed, remote>>

NothingRemoved(r) ==
    /\ remote[r] # "removed"
    /\ Become(r, "withdrawing", "done")
    /\ UNCHANGED <<consent, agreed, remote>>

Withdrawn(r) ==
    /\ remote[r] = "removed"
    /\ Become(r, "withdrawing", "withdrawn")
    /\ UNCHANGED <<consent, agreed, remote>>

\* WaySplit loses sight of an attempt, or of all of them, for good.
OutOfSight(p) ==
    CASE p = "trying"      -> "unknown"
      [] p = "withdrawing" -> "withdrawal unknown"
      [] OTHER             -> p

LoseSight(S) ==
    /\ phase' = [r \in Runs |-> IF r \in S THEN OutOfSight(phase[r]) ELSE phase[r]]
    /\ UNCHANGED <<consent, agreed, remote>>

-----------------------------------------------------------------------------
(* The destination *)

Turn(r, from, to) ==
    /\ remote[r] = from
    /\ remote' = [remote EXCEPT ![r] = to]
    /\ UNCHANGED <<consent, phase, agreed>>

Make(r)   == phase[r] \in {"trying", "unknown"} /\ Turn(r, "none", "there")
Remove(r) == phase[r] \in {"withdrawing", "withdrawal unknown"} /\ Turn(r, "there", "removed")

\* Somebody else deletes it.
Take(r) == Turn(r, "there", "taken")

-----------------------------------------------------------------------------
Next ==
    \/ \E r \in Runs :
          \/ Lapse(r)
          \/ \E d \in Digests : Consent(r, ToPost(d)) \/ Consent(r, ToRollback(d)) \/ Try(r, d)
          \/ NothingMade(r) \/ Done(r)
          \/ Withdraw(r) \/ NothingRemoved(r) \/ Withdrawn(r)
          \/ LoseSight({r})
          \/ Make(r) \/ Remove(r) \/ Take(r)
    \/ LoseSight(Runs)

Spec == Init /\ [][Next]_promiseVars
=============================================================================
