------------------------- MODULE PostingInvariants -------------------------
(***************************************************************************)
(* The inductive invariants behind the safety properties of Posting: what  *)
(* every step keeps, and from which the properties follow.  TLC checks     *)
(* their conjunction on small instances, PostingProofs.tla proves them.    *)
(***************************************************************************)
EXTENDS Posting

\* Names that are not None where a step uses them.
HandlersBound ==
    /\ \A t \in Tokens :
          IF tState[t] = "unissued" THEN hPc[t] = "idle" ELSE tRun[t] \in Runs
    /\ \A r \in Runs : pStatus[r] = "submitting" => pDigest[r] \in Digests
    /\ \A q \in Requests :
          verify[q].pc # "idle" => verify[q].run \in Runs /\ verify[q].token \in Tokens

TypeInv == TypeOK /\ HandlersBound

-----------------------------------------------------------------------------
(* Runs and postings *)

\* Statuses of a run that has no plan it could be posted by.
Unplanned == {"none", "queued", "extracting", "failed", "needs_review", "blocked"}

\* A run shows its posting's status.  One that was never posted, or whose posting
\* failed, may be anywhere between its upload and its plan: RunMirrorsPosting without
\* the assumption that every run has been extracted.
StatusInv ==
    \A r \in Runs :
        IF pStatus[r] \in {"none", "failed"} THEN status[r] \in Unplanned \cup {"ready"}
                                             ELSE status[r] = pStatus[r]

\* The unique index on fingerprints holds.
PrintsInv ==
    \A r, q \in Runs :
        /\ r # q
        /\ bill[r] # None /\ status[r] # "blocked"
        /\ bill[q] # None /\ status[q] # "blocked"
        => Fingerprint[bill[r]] # Fingerprint[bill[q]]

-----------------------------------------------------------------------------
(* Attempts to create *)

\* The create of t has made an expense or still may.
Counts(t) ==
    \/ t \in creates
    \/ hPc[t] = "create_connecting"
    \/ \E e \in Expenses : eToken[e] = t

\* A token nobody has consumed has done nothing.
FreshTokens ==
    \A t \in Tokens :
        tState[t] \in {"unissued", "valid", "expired"} =>
            hPc[t] = "idle" /\ ~ Counts(t) /\ t \notin refused \cup deletes \cup applied

\* A create is attempted only while the run has no other that counts, and once one
\* counts the posting is neither "failed" nor untried.
OneAttempt ==
    \A t \in Tokens :
        /\ Creating(t) => pStatus[tRun[t]] = "submitting"
        /\ Counts(t) => pStatus[tRun[t]] \notin {"none", "failed"}
        /\ t \in creates => pStatus[tRun[t]] \in {"submitting", "ambiguous"}
        /\ \A u \in Tokens :
              (Creating(t) \/ Counts(t)) /\ (Creating(u) \/ Counts(u)) /\ tRun[t] = tRun[u]
                  => t = u

\* A create is about to be sent, on the wire, refused or done: one of these, and
\* done means one expense.  A token that deletes is none of them.
AttemptPhases ==
    \A t \in Tokens :
        /\ t \in refused => ~ Counts(t)
        /\ hPc[t] \in {"create_connecting", "reading"} => t \notin creates
        /\ t \in creates \/ hPc[t] = "create_connecting" => t \notin applied
        /\ \A e \in Expenses :
              eToken[e] = t => /\ t \notin creates /\ hPc[t] # "create_connecting"
                              /\ \A d \in Expenses : eToken[d] = t => d = e
        /\ Deleting(t) \/ t \in deletes => ~ Counts(t)

\* Handlers live in a running server only.
DownIsIdle ==
    server # "up" => /\ \A t \in Tokens : hPc[t] = "idle"
                     /\ \A q \in Requests : verify[q].pc = "idle"

\* Every create of a run is accounted for.
AttemptInv == FreshTokens /\ OneAttempt /\ AttemptPhases /\ DownIsIdle

-----------------------------------------------------------------------------
(* Approvals and plans *)

Live(t) == tState[t] \in {"valid", "expired"}

\* A live token approves the current plan of its run, as its only one, and its
\* purpose can be told from the state of the run, though the table does not keep it.
ApprovalInv ==
    \A t \in Tokens :
        Live(t) =>
            LET r == tRun[t] IN
            /\ plan[r] = tDigest[t]
            /\ \/ tPurpose[t] = "post" /\ status[r] = "ready"
               \/ tPurpose[t] = "rollback" /\ pStatus[r] \in Completed
            /\ \A u \in Tokens : Live(u) /\ tRun[u] = r => u = t

\* From "ready" on the plan is complete, unblocked and audited; a completed posting,
\* or one whose rollback may yet fail, names an audited expense.
PlanOK(r) ==
    /\ status[r] \notin Unplanned => ValidPlan(r) /\ ~ Blocked(plan[r])
    /\ pStatus[r] \notin {"none", "failed"} => pDigest[r] = plan[r]
    /\ pStatus[r] \in Completed => AuditedTarget(r)
    /\ pStatus[r] = "rollback_submitting" =>
          CompletedFact(pDigest[r], pExpense[r], pPrior[r] = "posted") \in ledger

PlanInv == \A r \in Runs : PlanOK(r)

\* A create in progress or done carries the plan that was approved.
PayloadInv ==
    \A t \in Tokens :
        Creating(t) \/ Counts(t) =>
            LET r == tRun[t] IN
            /\ tPurpose[t] = "post"
            /\ hPayload[t] = tDigest[t]
            /\ pDigest[r] = tDigest[t] /\ plan[r] = tDigest[t] /\ bill[r] = tDigest[t].bill

\* What has been on the wire has a destination group.
WireInv ==
    /\ \A t \in Tokens : t \in creates \cup deletes \cup applied \/ Creating(t) \/ Deleting(t)
          => hPayload[t] # None /\ BuildsPayload(hPayload[t])
    /\ \A q \in Requests : verify[q].pc # "idle" => Delivered(verify[q].token)

-----------------------------------------------------------------------------
(* Attempts to delete *)

AfterPosting == Completed \cup {"rollback_submitting", "rollback_ambiguous", "rolled_back"}

\* The recorded expense is one the run has made.
ExpenseInv ==
    /\ \A e \in Expenses : eState[e] = "absent" => eToken[e] = None
    /\ \A r \in Runs : pStatus[r] \in AfterPosting => pExpense[r] \in Made(r)
    /\ \A t \in Tokens : hPc[t] = "reading" => hTarget[t] \in Expenses /\ eToken[hTarget[t]] = t

\* The delete of t is in progress or done.
DeleteCounts(t) ==
    \/ t \in deletes
    \/ Deleting(t)
    \/ t \in applied /\ tPurpose[t] = "rollback"

\* A delete that counts is the run's only one and was approved for its expense.
DeleteInv ==
    \A t \in Tokens :
        /\ Deleting(t) => pStatus[tRun[t]] = "rollback_submitting"
        /\ hPc[t] = "delete_connecting" => t \notin deletes \cup applied \cup refused
        /\ t \in refused => t \notin deletes \cup applied
        /\ t \in deletes => t \notin applied
        /\ DeleteCounts(t) =>
              /\ tPurpose[t] = "rollback"
              /\ hTarget[t] = pExpense[tRun[t]]
              /\ pStatus[tRun[t]] \in {"rollback_submitting", "rollback_ambiguous", "rolled_back"}
              /\ t \notin changedAtIssue
              /\ t \in applied => eState[hTarget[t]] = "deleted"
              /\ \A u \in Tokens : DeleteCounts(u) /\ tRun[u] = tRun[t] => u = t

\* What a rollback request that waits for its verification may rely on.
VerifyInv ==
    /\ \A q \in Requests :
          LET v == verify[q] IN
          v.pc # "idle" =>
              /\ tState[v.token] # "unissued"
              /\ v.digest # None
              /\ v.expense = pExpense[v.run]
              /\ pStatus[v.run] \in AfterPosting
              /\ v.pc = "matched" /\ tRun[v.token] = v.run => v.token \notin changedAtIssue
    /\ \A t \in changedAtIssue :
          /\ tState[t] # "unissued"
          /\ pStatus[tRun[t]] \in AfterPosting
          /\ eState[pExpense[tRun[t]]] # "live"

\* Rolled back means gone.
GoneInv == \A r \in Runs : pStatus[r] = "rolled_back" => eState[pExpense[r]] = "deleted"

PostingInv ==
    /\ TypeInv /\ AttemptInv /\ StatusInv /\ PrintsInv
    /\ ApprovalInv /\ PlanInv /\ PayloadInv /\ WireInv
    /\ ExpenseInv /\ DeleteInv /\ VerifyInv /\ GoneInv
=============================================================================
