--------------------------- MODULE PostingPromise ---------------------------
(***************************************************************************)
(* Posting keeps the promise: the refinement mapping from its tables, wire *)
(* and destination to the consents, phases and expenses of Promise.        *)
(***************************************************************************)
EXTENDS PostingInvariants

\* What a token that can be consumed allows.
Allows(t) == [purpose |-> tPurpose[t], digest |-> tDigest[t]]

ConsentOf(r) == {Allows(t) : t \in {u \in Tokens : tState[u] = "valid" /\ tRun[u] = r}}

PhaseOf(s) ==
    CASE s \in {"none", "failed"}      -> "open"
      [] s = "submitting"              -> "trying"
      [] s = "ambiguous"               -> "unknown"
      [] s \in Completed               -> "done"
      [] s = "rollback_submitting"     -> "withdrawing"
      [] s = "rollback_ambiguous"      -> "withdrawal unknown"
      [] OTHER                         -> "withdrawn"

AgreedOf(r) == IF pStatus[r] \in {"none", "failed"} THEN None ELSE pDigest[r]

\* The destination has carried out a delete of run r.
Removed(r) == \E t \in applied : tRun[t] = r /\ tPurpose[t] = "rollback"

RemoteOf(r) ==
    IF Made(r) = {} THEN "none"
    ELSE IF Removed(r) THEN "removed"
    ELSE IF \E e \in Made(r) : eState[e] # "deleted" THEN "there"
    ELSE "taken"

consents   == [r \in Runs |-> ConsentOf(r)]
phases     == [r \in Runs |-> PhaseOf(pStatus[r])]
agreements == [r \in Runs |-> AgreedOf(r)]
remotes    == [r \in Runs |-> RemoteOf(r)]

Promised == INSTANCE Promise WITH
    NoPlan  <- None,
    consent <- consents,
    phase   <- phases,
    agreed  <- agreements,
    remote  <- remotes

\* Whatever crashes, is lost, comes late or is done by others: a run is tried only
\* on a consent that is spent by it, tried again only if nothing was made or ever
\* will be, and said to be posted or rolled back only when it is (all of service.py
\* and repository.py between a confirmation and an outcome).
PromiseKept == Promised!Spec
=============================================================================
