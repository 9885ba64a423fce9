----------------------------- MODULE Repository -----------------------------
(***************************************************************************)
(* The durable state of WaySplit (waysplit/repository.py): the SQLite      *)
(* tables runs, postings and confirmations, the facts of the audit chain   *)
(* the service reads back, and the transactions that change them.          *)
(*                                                                         *)
(* A table is a family of columns, functions on the key.  Every method of  *)
(* Repository commits one SQLite transaction, so it is one operator; a     *)
(* method's event goes to the audit chain in the same transaction, which   *)
(* the callers state with Audit.  A guard that fails stands for the        *)
(* exception that rolls the transaction back: nothing changes.             *)
(*                                                                         *)
(* Data the properties do not tell apart is abstracted.  A bill is a value *)
(* with a fingerprint and a gate verdict; an expense preview is determined *)
(* by a run, its bill and a household, and that triple stands both for the *)
(* saved preview and for preview_digest, which commits to all three.       *)
(***************************************************************************)
EXTENDS Naturals, FiniteSets

CONSTANTS
    Runs,         \* run ids
    Sources,      \* contents of uploaded statements (source_sha256)
    Bills,        \* normalized bills
    Households,   \* household configurations
    Tokens,       \* one-time confirmation tokens
    Expenses,     \* expense ids the destination may allocate
    None,         \* SQL NULL
    Fingerprint,  \* bill |-> bill_fingerprint(bill)
    Approved,     \* bills evaluate_posting_gate does not block
    Repair,       \* bill |-> _ignore_prior_cycle_payment(bill)
    Resolved,     \* <<bill, household>> allocate_bill has an owner for
    Postable,     \* <<bill, household>> whose preview has no blockers
    LocalOnly     \* households with output_destination = "local_summary"

ASSUME NoneIsNoValue ==
    None \notin Runs \cup Sources \cup Bills \cup Tokens \cup Expenses
                \cup [run: Runs, bill: Bills, household: Households]

\* A repaired bill carries a zero payment, which the repair leaves alone.
ASSUME RepairIsIdempotent ==
    /\ Repair \in [Bills -> Bills]
    /\ \A b \in Bills : Repair[Repair[b]] = Repair[b]

ASSUME BillData ==
    /\ Bills \subseteq DOMAIN Fingerprint
    /\ Approved \subseteq Bills
    /\ LocalOnly \subseteq Households

VARIABLES
    \* runs
    status, source, sourcePath, bill, plan,
    \* postings: UNIQUE(run_id, destination), so at most one row for a run
    pStatus, pDigest, pExpense, pPrior,
    \* confirmations; a deleted row keeps its columns as history
    tState, tRun, tDigest,
    \* audit chain: the facts contains_event looks for
    ledger,
    \* phase of the server process (the lifespan function of web.py)
    server

runVars     == <<status, source, sourcePath, bill, plan>>
postingVars == <<pStatus, pDigest, pExpense, pPrior>>
tokenVars   == <<tState, tRun, tDigest>>
repoVars    == <<runVars, postingVars, tokenVars, ledger, server>>

RunStatus ==
    {"none", "queued", "extracting", "needs_review", "blocked", "ready",
     "submitting", "posted", "posted_unverified", "ambiguous",
     "rollback_submitting", "rollback_ambiguous", "rolled_back", "failed"}

PostingStatus ==
    {"none", "submitting", "posted", "posted_unverified", "failed", "ambiguous",
     "rollback_submitting", "rollback_ambiguous", "rolled_back"}

Completed == {"posted", "posted_unverified"}

Digests == [run: Runs, bill: Bills, household: Households]

Facts == [event: {"run.preview_created", "posting.completed"},
          digest: Digests,
          expense: Expenses \cup {None},
          flag: BOOLEAN]

RepositoryTypeOK ==
    /\ status \in [Runs -> RunStatus]
    /\ source \in [Runs -> Sources \cup {None}]
    /\ sourcePath \in [Runs -> BOOLEAN]
    /\ bill \in [Runs -> Bills \cup {None}]
    /\ plan \in [Runs -> Digests \cup {None}]
    /\ pStatus \in [Runs -> PostingStatus]
    /\ pDigest \in [Runs -> Digests \cup {None}]
    /\ pExpense \in [Runs -> Expenses \cup {None}]
    /\ pPrior \in [Runs -> Completed \cup {"none"}]
    /\ tState \in [Tokens -> {"unissued", "valid", "expired", "used", "deleted"}]
    /\ tRun \in [Tokens -> Runs \cup {None}]
    /\ tDigest \in [Tokens -> Digests \cup {None}]
    /\ ledger \subseteq Facts
    /\ server \in {"up", "down", "recovering"}

-----------------------------------------------------------------------------
(* Previews, gates and the facts of the audit chain *)

DigestOf(r, b, h) == [run |-> r, bill |-> b, household |-> h]

Pair(d) == <<d.bill, d.household>>

GateStatus(b) == IF b \in Approved THEN "needs_review" ELSE "blocked"

Blocked(d) == d.bill \notin Approved \/ Pair(d) \notin Postable

\* build_create_payload succeeds: the plan has a destination group.
BuildsPayload(d) == Pair(d) \in Postable /\ d.household \notin LocalOnly

PreviewFact(d, blocked) ==
    [event |-> "run.preview_created", digest |-> d, expense |-> None, flag |-> blocked]

CompletedFact(d, e, verified) ==
    [event |-> "posting.completed", digest |-> d, expense |-> e, flag |-> verified]

Audit(facts) == ledger' = ledger \cup facts

\* The saved plan hashes to its digest and is committed, unblocked, in the chain.
ValidPlan(r) ==
    /\ plan[r] # None
    /\ plan[r].run = r
    /\ plan[r].bill = bill[r]
    /\ PreviewFact(plan[r], FALSE) \in ledger

AuditedTarget(r) ==
    CompletedFact(pDigest[r], pExpense[r], pStatus[r] = "posted") \in ledger

-----------------------------------------------------------------------------
(* The partial unique indexes of the table runs *)

\* Fault: a rolled back run, or one of unknown outcome, no longer counts.
FingerprintFreeOfSettled(r, b) ==
    \A q \in Runs \ {r} :
        bill[q] # None /\ status[q] \notin {"blocked", "ambiguous", "rolled_back"}
            => Fingerprint[bill[q]] # Fingerprint[b]

FingerprintFree(r, b) ==
    \A q \in Runs \ {r} :
        bill[q] # None /\ status[q] # "blocked" => Fingerprint[bill[q]] # Fingerprint[b]

SourceFree(r, s) ==
    \A q \in Runs \ {r} :
        status[q] \notin {"none", "failed", "blocked"} => source[q] # s

\* An UPDATE that gives run r the status s and the bill b breaks no index.
Unique(r, s, b) ==
    /\ s # "blocked" => FingerprintFree(r, b)
    /\ s \notin {"failed", "blocked"} => SourceFree(r, source[r])

-----------------------------------------------------------------------------
(* Confirmations *)

Row(t) == tState[t] \in {"valid", "expired", "used"}

\* Fault: a change of the plan leaves its confirmations.
KeepConfirmations(r) == UNCHANGED tokenVars

DeleteConfirmations(r) ==
    /\ tState' = [t \in Tokens |->
                    IF Row(t) /\ tRun[t] = r THEN "deleted" ELSE tState[t]]
    /\ UNCHANGED <<tRun, tDigest>>

\* Fault: the earlier tokens of the run stay valid.
InsertAnotherToken(r, t) ==
    /\ tState[t] = "unissued"
    /\ tState' = [u \in Tokens |->
                    IF u = t THEN "valid"
                    ELSE IF tState[u] = "expired" THEN "deleted" ELSE tState[u]]
    /\ tRun' = [tRun EXCEPT ![t] = r]
    /\ tDigest' = [tDigest EXCEPT ![t] = plan[r]]

\* DELETE ... WHERE run_id = ? OR expires_at <= ?, then INSERT.  A used row of
\* another run may have passed its expiry too: deleted or not, nothing reads it.
InsertToken(r, t) ==
    /\ tState[t] = "unissued"
    /\ tState' = [u \in Tokens |->
                    IF u = t THEN "valid"
                    ELSE IF (Row(u) /\ tRun[u] = r) \/ tState[u] = "expired"
                         THEN "deleted" ELSE tState[u]]
    /\ tRun' = [tRun EXCEPT ![t] = r]
    /\ tDigest' = [tDigest EXCEPT ![t] = plan[r]]

IssueConfirmation(r, t) ==
    /\ status[r] = "ready"
    /\ plan[r] # None
    /\ InsertToken(r, t)
    /\ UNCHANGED <<runVars, postingVars>>

IssueRollbackConfirmation(r, t) ==
    /\ pStatus[r] \in Completed
    /\ pExpense[r] # None
    /\ plan[r] # None
    /\ InsertToken(r, t)
    /\ UNCHANGED <<runVars, postingVars>>

\* The WHERE clause of both consume_ methods: the table does not record
\* whether a token approves a posting or a rollback.
Consumable(r, t, d) ==
    /\ tState[t] = "valid"
    /\ tRun[t] = r
    /\ tDigest[t] = d

ConsumeConfirmation(r, t, d) ==
    /\ Consumable(r, t, d)
    /\ tState' = [tState EXCEPT ![t] = "used"]
    /\ UNCHANGED <<tRun, tDigest>>

\* expires_at passes.
ExpireToken(t) ==
    /\ tState[t] = "valid"
    /\ tState' = [tState EXCEPT ![t] = "expired"]
    /\ UNCHANGED <<tRun, tDigest, runVars, postingVars, ledger, server>>

-----------------------------------------------------------------------------
(* Review and preview *)

\* Faults: the status list of replace_bill_review forgets a posting state.
ReviewableWhileSubmitting == {"blocked", "needs_review", "ready", "failed", "submitting"}
ReviewableWhenAmbiguous == {"blocked", "needs_review", "ready", "failed", "ambiguous"}
ReviewableWhileExtracting == {"blocked", "needs_review", "ready", "failed", "extracting"}

Reviewable == {"blocked", "needs_review", "ready", "failed"}

ReplaceBillReview(r, b) ==
    /\ status[r] \in Reviewable
    /\ Unique(r, GateStatus(b), b)
    /\ status' = [status EXCEPT ![r] = GateStatus(b)]
    /\ bill' = [bill EXCEPT ![r] = b]
    /\ plan' = [plan EXCEPT ![r] = None]
    /\ DeleteConfirmations(r)
    /\ UNCHANGED <<source, sourcePath, postingVars>>

\* save_preview of the digest d; the bill is the one d commits to, which the
\* caller's review, if it had to repair the bill, has just saved.
Previewable == {"blocked", "needs_review", "ready"}

SavePreview(r, d) ==
    LET s == IF Blocked(d) THEN "blocked" ELSE "ready" IN
    /\ status[r] \in Previewable
    /\ Unique(r, s, d.bill)
    /\ status' = [status EXCEPT ![r] = s]
    /\ bill' = [bill EXCEPT ![r] = d.bill]
    /\ plan' = [plan EXCEPT ![r] = d]
    /\ DeleteConfirmations(r)
    /\ UNCHANGED <<source, sourcePath, postingVars>>

-----------------------------------------------------------------------------
(* Postings and rollbacks *)

SetPosting(r, ps, s) ==
    /\ pStatus' = [pStatus EXCEPT ![r] = ps]
    /\ status' = [status EXCEPT ![r] = s]
    /\ UNCHANGED <<source, sourcePath, bill, plan>>

ReservePosting(r, d) ==
    /\ status[r] = "ready"
    /\ plan[r] = d
    /\ pStatus[r] \in {"none", "failed"}
    /\ SetPosting(r, "submitting", "submitting")
    /\ pDigest' = [pDigest EXCEPT ![r] = d]
    /\ UNCHANGED <<pExpense, pPrior>>

CompletePosting(r, e, verified) ==
    LET s == IF verified THEN "posted" ELSE "posted_unverified" IN
    /\ pStatus[r] = "submitting"
    /\ SetPosting(r, s, s)
    /\ pExpense' = [pExpense EXCEPT ![r] = e]
    /\ UNCHANGED <<pDigest, pPrior>>

\* Fault: the statuses of posting and run are swapped.
FailPostingSwapped(r, ambiguous) ==
    /\ pStatus[r] = "submitting"
    /\ IF ambiguous THEN SetPosting(r, "ambiguous", "ambiguous")
                    ELSE SetPosting(r, "ready", "failed")
    /\ UNCHANGED <<pDigest, pExpense, pPrior>>

FailPosting(r, ambiguous) ==
    /\ pStatus[r] = "submitting"
    /\ IF ambiguous THEN SetPosting(r, "ambiguous", "ambiguous")
                    ELSE SetPosting(r, "failed", "ready")
    /\ UNCHANGED <<pDigest, pExpense, pPrior>>

ReserveRollback(r, d) ==
    /\ pStatus[r] \in Completed
    /\ pExpense[r] # None
    /\ pDigest[r] = d
    /\ plan[r] = d
    /\ SetPosting(r, "rollback_submitting", "rollback_submitting")
    /\ pPrior' = [pPrior EXCEPT ![r] = pStatus[r]]
    /\ UNCHANGED <<pDigest, pExpense>>

\* Fault: a failed rollback makes every posting a verified one.
FailRollbackForgetsPrior(r, ambiguous) ==
    LET s == IF ambiguous THEN "rollback_ambiguous" ELSE "posted" IN
    /\ pStatus[r] = "rollback_submitting"
    /\ SetPosting(r, s, s)
    /\ pPrior' = [pPrior EXCEPT ![r] = "none"]
    /\ UNCHANGED <<pDigest, pExpense>>

\* Fault: the posting gets its status back and the run does not.
FailRollbackForgetsRun(r, ambiguous) ==
    /\ pStatus[r] = "rollback_submitting"
    /\ pPrior[r] \in Completed
    /\ IF ambiguous THEN SetPosting(r, "rollback_ambiguous", "rollback_ambiguous")
                    ELSE SetPosting(r, pPrior[r], "posted")
    /\ pPrior' = [pPrior EXCEPT ![r] = "none"]
    /\ UNCHANGED <<pDigest, pExpense>>

FailRollback(r, ambiguous) ==
    LET s == IF ambiguous THEN "rollback_ambiguous" ELSE pPrior[r] IN
    /\ pStatus[r] = "rollback_submitting"
    /\ pPrior[r] \in Completed
    /\ SetPosting(r, s, s)
    /\ pPrior' = [pPrior EXCEPT ![r] = "none"]
    /\ UNCHANGED <<pDigest, pExpense>>

MarkRolledBack(r) ==
    /\ pStatus[r] = "rollback_submitting"
    /\ SetPosting(r, "rolled_back", "rolled_back")
    /\ pPrior' = [pPrior EXCEPT ![r] = "none"]
    /\ UNCHANGED <<pDigest, pExpense>>

-----------------------------------------------------------------------------
(* Start-up recovery *)

\* Fault: start-up recovers only the run that was being extracted.
RecoverExtractingRuns ==
    LET interrupted == {r \in Runs : status[r] = "extracting"} IN
    /\ status' = [r \in Runs |-> IF r \in interrupted THEN "failed" ELSE status[r]]
    /\ sourcePath' = [r \in Runs |-> sourcePath[r] /\ r \notin interrupted]
    /\ UNCHANGED <<source, bill, plan, postingVars, tokenVars, ledger>>

\* Fault: the paths of the files that start-up erases stay in the rows.
RecoverInterruptedRunsKeepingPaths ==
    LET interrupted == {r \in Runs : status[r] \in {"queued", "extracting"}} IN
    /\ status' = [r \in Runs |-> IF r \in interrupted THEN "failed" ELSE status[r]]
    /\ UNCHANGED <<source, sourcePath, bill, plan, postingVars, tokenVars, ledger>>

RecoverInterruptedRuns ==
    LET interrupted == {r \in Runs : status[r] \in {"queued", "extracting"}} IN
    /\ status' = [r \in Runs |-> IF r \in interrupted THEN "failed" ELSE status[r]]
    /\ sourcePath' = [r \in Runs |-> sourcePath[r] /\ r \notin interrupted]
    /\ UNCHANGED <<source, bill, plan, postingVars, tokenVars, ledger>>

\* Fault: an interrupted submission is taken for one that failed.
RecoveredStatusAsFailed(s) ==
    IF s = "submitting" THEN "failed" ELSE "rollback_ambiguous"

RecoveredStatus(s) ==
    IF s = "submitting" THEN "ambiguous" ELSE "rollback_ambiguous"

\* Fault: start-up forgets the rollbacks.
RecoverInterruptedCreates ==
    LET interrupted == {r \in Runs : pStatus[r] = "submitting"} IN
    /\ pStatus' = [r \in Runs |-> IF r \in interrupted THEN "ambiguous" ELSE pStatus[r]]
    /\ status' = [r \in Runs |-> IF r \in interrupted THEN "ambiguous" ELSE status[r]]
    /\ UNCHANGED <<source, sourcePath, bill, plan, pDigest, pExpense, pPrior,
                   tokenVars, ledger>>

RecoverInterruptedPostings ==
    LET interrupted == {r \in Runs : pStatus[r] \in {"submitting", "rollback_submitting"}} IN
    /\ pStatus' = [r \in Runs |->
                     IF r \in interrupted THEN RecoveredStatus(pStatus[r]) ELSE pStatus[r]]
    /\ status' = [r \in Runs |->
                     IF r \in interrupted THEN RecoveredStatus(pStatus[r]) ELSE status[r]]
    /\ UNCHANGED <<source, sourcePath, bill, plan, pDigest, pExpense, pPrior,
                   tokenVars, ledger>>
=============================================================================
