------------------------------ MODULE Posting ------------------------------
(***************************************************************************)
(* Posting a reviewed run to Splitwise and rolling it back: the endpoints  *)
(* of web.py, WaySplitService (service.py), SplitwiseClient                *)
(* (destinations/splitwise.py), the destination itself and the network.    *)
(*                                                                         *)
(* The server is one process with one event loop, and Repository methods   *)
(* do not await: a handler runs without interruption from one await to the *)
(* next, so each action below is one such segment with every transaction   *)
(* it commits.  Only the death of the process falls between two commits of *)
(* a segment (the ...Killed actions).                                      *)
(*                                                                         *)
(* A handler that got past its confirmation is named by the token it       *)
(* consumed: no two handlers consume the same token.                       *)
(***************************************************************************)
EXTENDS Repository

CONSTANTS
    Requests,   \* bound: rollback requests that wait for a verification at once
    Uncaught    \* may a handler end with an exception that nothing catches?

ASSUME UncaughtIsBoolean == Uncaught \in BOOLEAN

VARIABLES
    \* handlers past their confirmation, by the token they consumed
    hPc, hPayload, hTarget,
    \* rollback requests before theirs: [pc, run, token, digest, expense]
    verify,
    \* the wire: requests sent that the destination has not processed; it may
    \* process them at any later time, whatever became of the sender
    creates, deletes,
    \* the destination: expenses, and what it answered to a token's request
    eState, eToken, applied, refused,
    \* history: what a token was issued for, and the rollback tokens issued
    \* when somebody had already changed the expense at the destination
    tPurpose, changedAtIssue

handlerVars == <<hPc, hPayload, hTarget, verify>>
remoteVars  == <<creates, deletes, eState, eToken, applied, refused>>
historyVars == <<tPurpose, changedAtIssue>>
vars        == <<repoVars, handlerVars, remoteVars, historyVars>>

Idle == [pc |-> "idle", run |-> None, token |-> None, digest |-> None, expense |-> None]

HandlerPc == {"idle", "create_connecting", "create_waiting", "reading",
              "delete_connecting", "delete_waiting"}

Creating(t) == hPc[t] \in {"create_connecting", "create_waiting", "reading"}
Deleting(t) == hPc[t] \in {"delete_connecting", "delete_waiting"}

\* Type invariant of the tables, the handlers, the wire and the destination.
TypeOK ==
    /\ RepositoryTypeOK
    /\ hPc \in [Tokens -> HandlerPc]
    /\ hPayload \in [Tokens -> Digests \cup {None}]
    /\ hTarget \in [Tokens -> Expenses \cup {None}]
    /\ verify \in [Requests -> [pc: {"idle", "verifying", "matched"},
                                run: Runs \cup {None}, token: Tokens \cup {None},
                                digest: Digests \cup {None}, expense: Expenses \cup {None}]]
    /\ creates \subseteq Tokens
    /\ deletes \subseteq Tokens
    /\ eState \in [Expenses -> {"absent", "live", "changed", "deleted"}]
    /\ eToken \in [Expenses -> Tokens \cup {None}]
    /\ applied \subseteq Tokens
    /\ refused \subseteq Tokens
    /\ tPurpose \in [Tokens -> {"none", "post", "rollback"}]
    /\ changedAtIssue \subseteq Tokens

\* Every run has been extracted and none has been previewed.
Init ==
    /\ bill \in [Runs -> Bills]
    /\ status = [r \in Runs |-> GateStatus(bill[r])]
    /\ source \in [Runs -> Sources]
    /\ \A r \in Runs : Unique(r, status[r], bill[r])
    /\ sourcePath = [r \in Runs |-> FALSE]
    /\ plan = [r \in Runs |-> None]
    /\ pStatus = [r \in Runs |-> "none"]
    /\ pDigest = [r \in Runs |-> None]
    /\ pExpense = [r \in Runs |-> None]
    /\ pPrior = [r \in Runs |-> "none"]
    /\ tState = [t \in Tokens |-> "unissued"]
    /\ tRun = [t \in Tokens |-> None]
    /\ tDigest = [t \in Tokens |-> None]
    /\ ledger = {}
    /\ server = "up"
    /\ hPc = [t \in Tokens |-> "idle"]
    /\ hPayload = [t \in Tokens |-> None]
    /\ hTarget = [t \in Tokens |-> None]
    /\ verify = [q \in Requests |-> Idle]
    /\ creates = {} /\ deletes = {}
    /\ eState = [e \in Expenses |-> "absent"]
    /\ eToken = [e \in Expenses |-> None]
    /\ applied = {} /\ refused = {}
    /\ tPurpose = [t \in Tokens |-> "none"]
    /\ changedAtIssue = {}

-----------------------------------------------------------------------------
(* Review and preview endpoints *)

ReviewBill(r, b) ==
    /\ server = "up"
    /\ ReplaceBillReview(r, b)
    /\ UNCHANGED <<ledger, server, handlerVars, remoteVars, historyVars>>

\* create_preview first saves the repaired bill, when the repair changes it.
NeedsRepair(r) == bill[r] # None /\ Repair[bill[r]] # bill[r]

RepairAccepted(r) ==
    /\ status[r] \in Reviewable
    /\ Unique(r, GateStatus(Repair[bill[r]]), Repair[bill[r]])

CreatePreview(r, h) ==
    LET d == DigestOf(r, Repair[bill[r]], h) IN
    /\ server = "up"
    /\ bill[r] # None
    /\ NeedsRepair(r) => RepairAccepted(r)
    /\ Pair(d) \in Resolved
    /\ SavePreview(r, d)
    /\ Audit({PreviewFact(d, Blocked(d))})
    /\ UNCHANGED <<server, handlerVars, remoteVars, historyVars>>

\* The repair is committed and the preview is not: allocate_bill finds no owner.
PreviewUnresolved(r, h) ==
    /\ server = "up"
    /\ NeedsRepair(r)
    /\ <<Repair[bill[r]], h>> \notin Resolved
    /\ ReplaceBillReview(r, Repair[bill[r]])
    /\ UNCHANGED <<ledger, server, handlerVars, remoteVars, historyVars>>

-----------------------------------------------------------------------------
(* Confirmation endpoints *)

RequestConfirmation(r, t) ==
    /\ server = "up"
    /\ IssueConfirmation(r, t)
    /\ tPurpose' = [tPurpose EXCEPT ![t] = "post"]
    /\ UNCHANGED <<ledger, server, handlerVars, remoteVars, changedAtIssue>>

\* The endpoint returns the token with confirmation_target, whose payload
\* cannot be built for a local summary: then nobody learns the token.
Delivered(t) == BuildsPayload(tDigest[t])

RequestRollbackConfirmation(r, t) ==
    /\ server = "up"
    /\ ValidPlan(r)
    /\ AuditedTarget(r)
    /\ IssueRollbackConfirmation(r, t)
    /\ tPurpose' = [tPurpose EXCEPT ![t] = "rollback"]
    /\ changedAtIssue' = IF eState[pExpense[r]] = "live" THEN changedAtIssue
                         ELSE changedAtIssue \cup {t}
    /\ UNCHANGED <<ledger, server, handlerVars, remoteVars>>

-----------------------------------------------------------------------------
(* post_to_splitwise *)

\* The checks before the confirmation is consumed.
MayPost(r, t) ==
    /\ server = "up"
    /\ status[r] = "ready"
    /\ bill[r] # None
    /\ ValidPlan(r)
    /\ bill[r] \in Approved
    /\ Pair(plan[r]) \in Postable
    /\ tState[t] # "unissued" /\ Delivered(t)

\* The first segment: check, consume, reserve, start to connect.
PostRequest(r, t) ==
    /\ MayPost(r, t)
    /\ ConsumeConfirmation(r, t, plan[r])
    /\ ReservePosting(r, plan[r])
    /\ hPc' = [hPc EXCEPT ![t] = "create_connecting"]
    /\ hPayload' = [hPayload EXCEPT ![t] = plan[r]]
    /\ UNCHANGED <<ledger, server, hTarget, verify, remoteVars, historyVars>>

\* create_expense builds the payload and sends the request.
SendCreate(t) ==
    /\ hPc[t] = "create_connecting"
    /\ BuildsPayload(hPayload[t])
    /\ hPc' = [hPc EXCEPT ![t] = "create_waiting"]
    /\ creates' = creates \cup {t}
    /\ UNCHANGED <<repoVars, hPayload, hTarget, verify,
                   deletes, eState, eToken, applied, refused, historyVars>>

\* fail_posting, after which the handler re-raises and is gone.
EndPosting(t, ambiguous) ==
    /\ FailPosting(tRun[t], ambiguous)
    /\ hPc' = [hPc EXCEPT ![t] = "idle"]
    /\ UNCHANGED <<tokenVars, ledger, server, hPayload, hTarget, verify,
                   remoteVars, historyVars>>

\* ConnectError, ConnectTimeout or a payload that cannot be built: nothing was sent.
CreateNotSent(t) == hPc[t] = "create_connecting" /\ EndPosting(t, FALSE)

\* HTTP 4xx or an "errors" body.
CreateRefused(t) == hPc[t] = "create_waiting" /\ t \in refused /\ EndPosting(t, FALSE)

\* Fault: a timeout is taken for a failure, and the run may be posted again.
CreateUnclearAsFailed(t) == hPc[t] = "create_waiting" /\ EndPosting(t, FALSE)

\* Fault: the exception for an unreadable answer is not caught.
CreateUnclearUncaught(t) ==
    /\ hPc[t] = "create_waiting"
    /\ hPc' = [hPc EXCEPT ![t] = "idle"]
    /\ UNCHANGED <<repoVars, hPayload, hTarget, verify, remoteVars, historyVars>>

\* A timeout, a broken connection, HTTP 5xx, a body that is unreadable, too
\* large or without exactly one usable expense: the outcome is unknown.
CreateUnclear(t) == hPc[t] = "create_waiting" /\ EndPosting(t, TRUE)

CreateAnswered(t, e) ==
    /\ hPc[t] = "create_waiting"
    /\ t \in applied
    /\ eToken[e] = t
    /\ hPc' = [hPc EXCEPT ![t] = "reading"]
    /\ hTarget' = [hTarget EXCEPT ![t] = e]
    /\ UNCHANGED <<repoVars, hPayload, verify, remoteVars, historyVars>>

\* An exception that is no DestinationError: the header of an access token that is
\* not ASCII, an id such as "²", which isdigit() accepts and int() does not, a
\* number json.loads refuses to convert.  No except clause records an outcome.
CreateUncaught(t) ==
    /\ Uncaught
    /\ hPc[t] \in {"create_connecting", "create_waiting"}
    /\ hPc' = [hPc EXCEPT ![t] = "idle"]
    /\ UNCHANGED <<repoVars, hPayload, hTarget, verify, remoteVars, historyVars>>

\* The read-back: verified only if the expense is there as it was created.
ReadBack(t, verified) ==
    LET r == tRun[t] IN
    /\ hPc[t] = "reading"
    /\ verified => eState[hTarget[t]] = "live"
    /\ CompletePosting(r, hTarget[t], verified)
    /\ Audit({CompletedFact(pDigest[r], hTarget[t], verified)})
    /\ hPc' = [hPc EXCEPT ![t] = "idle"]
    /\ UNCHANGED <<tokenVars, server, hPayload, hTarget, verify, remoteVars, historyVars>>

-----------------------------------------------------------------------------
(* rollback_splitwise *)

\* The checks before verify_expense is awaited; the token is not looked at yet.
RollbackRequest(q, r, t) ==
    /\ server = "up"
    /\ verify[q].pc = "idle"
    /\ pStatus[r] \in Completed
    /\ pExpense[r] # None
    /\ ValidPlan(r)
    /\ AuditedTarget(r)
    /\ tState[t] # "unissued" /\ Delivered(t)
    /\ verify' = [verify EXCEPT ![q] = [pc |-> "verifying", run |-> r, token |-> t,
                                        digest |-> plan[r], expense |-> pExpense[r]]]
    /\ UNCHANGED <<repoVars, hPc, hPayload, hTarget, remoteVars, historyVars>>

\* Fault: the expense is looked up and not compared with the plan.
VerifyFinds(q) ==
    /\ verify[q].pc = "verifying"
    /\ eState[verify[q].expense] \in {"live", "changed"}
    /\ verify' = [verify EXCEPT ![q].pc = "matched"]
    /\ UNCHANGED <<repoVars, hPc, hPayload, hTarget, remoteVars, historyVars>>

\* The destination answers the GET with the expense exactly as it was created.
VerifyMatches(q) ==
    /\ verify[q].pc = "verifying"
    /\ eState[verify[q].expense] = "live"
    /\ verify' = [verify EXCEPT ![q].pc = "matched"]
    /\ UNCHANGED <<repoVars, hPc, hPayload, hTarget, remoteVars, historyVars>>

\* Any other answer, or none: the request ends and has changed nothing.
VerifyFails(q) ==
    /\ verify[q].pc = "verifying"
    /\ verify' = [verify EXCEPT ![q] = Idle]
    /\ UNCHANGED <<repoVars, hPc, hPayload, hTarget, remoteVars, historyVars>>

MayRollback(v) == Consumable(v.run, v.token, v.digest)

\* The segment after the answer: consume, reserve, start to connect.
RollbackApproved(q) ==
    LET v == verify[q] IN
    /\ v.pc = "matched"
    /\ ConsumeConfirmation(v.run, v.token, v.digest)
    /\ ReserveRollback(v.run, v.digest)
    /\ hPc' = [hPc EXCEPT ![v.token] = "delete_connecting"]
    /\ hPayload' = [hPayload EXCEPT ![v.token] = v.digest]
    /\ hTarget' = [hTarget EXCEPT ![v.token] = v.expense]
    /\ verify' = [verify EXCEPT ![q] = Idle]
    /\ UNCHANGED <<ledger, server, remoteVars, historyVars>>

RollbackDenied(q) ==
    /\ verify[q].pc = "matched"
    /\ ~ MayRollback(verify[q])
    /\ verify' = [verify EXCEPT ![q] = Idle]
    /\ UNCHANGED <<repoVars, hPc, hPayload, hTarget, remoteVars, historyVars>>

SendDelete(t) ==
    /\ hPc[t] = "delete_connecting"
    /\ hPc' = [hPc EXCEPT ![t] = "delete_waiting"]
    /\ deletes' = deletes \cup {t}
    /\ UNCHANGED <<repoVars, hPayload, hTarget, verify,
                   creates, eState, eToken, applied, refused, historyVars>>

EndRollback(t, ambiguous) ==
    /\ FailRollback(tRun[t], ambiguous)
    /\ hPc' = [hPc EXCEPT ![t] = "idle"]
    /\ UNCHANGED <<tokenVars, ledger, server, hPayload, hTarget, verify,
                   remoteVars, historyVars>>

DeleteNotSent(t) == hPc[t] = "delete_connecting" /\ EndRollback(t, FALSE)

\* HTTP 4xx, or a body whose "success" is not true.
DeleteRefused(t) == hPc[t] = "delete_waiting" /\ t \in refused /\ EndRollback(t, FALSE)

DeleteUnclear(t) == hPc[t] = "delete_waiting" /\ EndRollback(t, TRUE)

DeleteAnswered(t) ==
    /\ hPc[t] = "delete_waiting"
    /\ t \in applied
    /\ MarkRolledBack(tRun[t])
    /\ hPc' = [hPc EXCEPT ![t] = "idle"]
    /\ UNCHANGED <<tokenVars, ledger, server, hPayload, hTarget, verify,
                   remoteVars, historyVars>>

\* The same for the answer to a delete; the token's header was tried before.
DeleteUncaught(t) ==
    /\ Uncaught
    /\ hPc[t] = "delete_waiting"
    /\ hPc' = [hPc EXCEPT ![t] = "idle"]
    /\ UNCHANGED <<repoVars, hPayload, hTarget, verify, remoteVars, historyVars>>

-----------------------------------------------------------------------------
(* The destination (external): it processes a request on the wire once, or   *)
(* never, and other people change and delete expenses there.                 *)

ApplyCreate(t, e) ==
    /\ t \in creates
    /\ eState[e] = "absent"
    /\ creates' = creates \ {t}
    /\ applied' = applied \cup {t}
    /\ eState' = [eState EXCEPT ![e] = "live"]
    /\ eToken' = [eToken EXCEPT ![e] = t]
    /\ UNCHANGED <<repoVars, handlerVars, deletes, refused, historyVars>>

RefuseCreate(t) ==
    /\ t \in creates
    /\ creates' = creates \ {t}
    /\ refused' = refused \cup {t}
    /\ UNCHANGED <<repoVars, handlerVars, deletes, eState, eToken, applied, historyVars>>

ApplyDelete(t) ==
    /\ t \in deletes
    /\ eState[hTarget[t]] \in {"live", "changed"}
    /\ deletes' = deletes \ {t}
    /\ applied' = applied \cup {t}
    /\ eState' = [eState EXCEPT ![hTarget[t]] = "deleted"]
    /\ UNCHANGED <<repoVars, handlerVars, creates, eToken, refused, historyVars>>

RefuseDelete(t) ==
    /\ t \in deletes
    /\ deletes' = deletes \ {t}
    /\ refused' = refused \cup {t}
    /\ UNCHANGED <<repoVars, handlerVars, creates, eState, eToken, applied, historyVars>>

OthersChange(e) ==
    /\ eState[e] = "live"
    /\ eState' = [eState EXCEPT ![e] = "changed"]
    /\ UNCHANGED <<repoVars, handlerVars, creates, deletes, eToken, applied, refused,
                   historyVars>>

OthersDelete(e) ==
    /\ eState[e] \in {"live", "changed"}
    /\ eState' = [eState EXCEPT ![e] = "deleted"]
    /\ UNCHANGED <<repoVars, handlerVars, creates, deletes, eToken, applied, refused,
                   historyVars>>

-----------------------------------------------------------------------------
(* Death and restart of the process.  A request it has sent stays on the     *)
(* wire; what the handlers knew is lost.  hPayload and hTarget are kept as   *)
(* the contents of such requests.                                            *)

MemoryLost ==
    /\ server' = "down"
    /\ hPc' = [t \in Tokens |-> "idle"]
    /\ verify' = [q \in Requests |-> Idle]
    /\ UNCHANGED <<hPayload, hTarget, remoteVars, historyVars>>

Crash ==
    /\ server # "down"
    /\ MemoryLost
    /\ UNCHANGED <<runVars, postingVars, tokenVars, ledger>>

\* Killed between the two commits of create_preview.
PreviewKilled(r) ==
    /\ server = "up"
    /\ NeedsRepair(r)
    /\ ReplaceBillReview(r, Repair[bill[r]])
    /\ MemoryLost
    /\ UNCHANGED ledger

\* Killed between consume_confirmation and reserve_posting.
PostKilled(r, t) ==
    /\ MayPost(r, t)
    /\ ConsumeConfirmation(r, t, plan[r])
    /\ MemoryLost
    /\ UNCHANGED <<runVars, postingVars, ledger>>

\* Killed between consume_rollback_confirmation and reserve_rollback.
RollbackKilled(q) ==
    /\ verify[q].pc = "matched"
    /\ ConsumeConfirmation(verify[q].run, verify[q].token, verify[q].digest)
    /\ MemoryLost
    /\ UNCHANGED <<runVars, postingVars, ledger>>

\* The two transactions of the lifespan function, before any request is served.
StartUp ==
    /\ server = "down"
    /\ RecoverInterruptedRuns
    /\ server' = "recovering"
    /\ UNCHANGED <<handlerVars, remoteVars, historyVars>>

RecoverPostings ==
    /\ server = "recovering"
    /\ RecoverInterruptedPostings
    /\ server' = "up"
    /\ UNCHANGED <<handlerVars, remoteVars, historyVars>>

TokenExpires(t) == ExpireToken(t) /\ UNCHANGED <<handlerVars, remoteVars, historyVars>>

-----------------------------------------------------------------------------
Operator ==
    \E r \in Runs :
        \/ \E b \in Bills : ReviewBill(r, b)
        \/ \E h \in Households : CreatePreview(r, h) \/ PreviewUnresolved(r, h)
        \/ \E t \in Tokens :
              \/ RequestConfirmation(r, t)
              \/ RequestRollbackConfirmation(r, t)
              \/ PostRequest(r, t)
              \/ \E q \in Requests : RollbackRequest(q, r, t)

PostHandler(t) ==
    \/ SendCreate(t) \/ CreateNotSent(t)
    \/ CreateRefused(t) \/ CreateUnclear(t)
    \/ \E e \in Expenses : CreateAnswered(t, e)
    \/ CreateUncaught(t)
    \/ \E verified \in BOOLEAN : ReadBack(t, verified)

RollbackHandler(t) ==
    \/ SendDelete(t) \/ DeleteNotSent(t)
    \/ DeleteRefused(t) \/ DeleteUnclear(t) \/ DeleteAnswered(t) \/ DeleteUncaught(t)

VerifyHandler(q) ==
    \/ VerifyMatches(q) \/ VerifyFails(q)
    \/ RollbackApproved(q) \/ RollbackDenied(q)

Destination ==
    \/ \E t \in Tokens :
          \/ \E e \in Expenses : ApplyCreate(t, e)
          \/ RefuseCreate(t) \/ ApplyDelete(t) \/ RefuseDelete(t)
    \/ \E e \in Expenses : OthersChange(e) \/ OthersDelete(e)

Lifecycle ==
    \/ Crash \/ StartUp \/ RecoverPostings
    \/ \E r \in Runs : PreviewKilled(r) \/ \E t \in Tokens : PostKilled(r, t)
    \/ \E q \in Requests : RollbackKilled(q)

Next ==
    \/ Operator
    \/ \E t \in Tokens : PostHandler(t) \/ RollbackHandler(t) \/ TokenExpires(t)
    \/ \E q \in Requests : VerifyHandler(q)
    \/ Destination
    \/ Lifecycle

Spec == Init /\ [][Next]_vars

-----------------------------------------------------------------------------
(* Safety *)

\* Expenses of run r at the destination, there or deleted since.
Made(r) == {e \in Expenses : eToken[e] # None /\ tRun[eToken[e]] = r}

\* Requests to create one that are on the wire or about to be sent.
Pending(r) == {t \in Tokens : tRun[t] = r /\ (t \in creates \/ hPc[t] = "create_connecting")}

\* A run never leads to a second expense: whatever crashes, times out, arrives
\* late or is tried again, a create is attempted only while none was made and
\* none is on its way (reserve_posting, fail_posting, start-up recovery).
AtMostOneExpense ==
    \A r \in Runs :
        /\ \A d, e \in Made(r) : d = e
        /\ \A t, u \in Pending(r) : t = u
        /\ Made(r) = {} \/ Pending(r) = {}

\* What is sent to the destination, and what is there, is what the operator saw
\* when the consumed token was issued for posting, and the run still shows it:
\* no review or preview slips under a submission (confirmation_plan_digest).
PostedAsConfirmed ==
    \A t \in creates \cup {eToken[e] : e \in {x \in Expenses : eToken[x] # None}} :
        LET r == tRun[t] IN
        /\ tPurpose[t] = "post"
        /\ hPayload[t] = tDigest[t]
        /\ pDigest[r] = tDigest[t] /\ plan[r] = tDigest[t] /\ bill[r] = tDigest[t].bill

\* An expense is deleted only on a token issued for a rollback of that expense:
\* the table confirmations does not tell a posting token from a rollback token,
\* so this rests on issue_rollback_confirmation deleting the run's other rows.
DeletedAsApproved ==
    \A t \in deletes :
        /\ tPurpose[t] = "rollback"
        /\ hTarget[t] = pExpense[tRun[t]]
        /\ tRun[eToken[hTarget[t]]] = tRun[t]

\* An expense somebody had changed before the approval was given is not deleted
\* (verify_expense runs after the approval and before it is consumed).
ChangedExpenseIsKept == deletes \cap changedAtIssue = {}

\* The recorded outcome is never wrong about the destination: "failed" and a
\* posting that was never tried mean no expense and none on its way; a completed
\* one names the run's expense, which no delete of ours has touched or will;
\* "rolled_back" means the expense is gone.
ClaimsHonest ==
    \A r \in Runs :
        /\ pStatus[r] \in {"none", "failed"} => Made(r) = {} /\ Pending(r) = {}
        /\ creates # {} => \A t \in creates : pStatus[tRun[t]] \in {"submitting", "ambiguous"}
        /\ pStatus[r] \in Completed \cup {"rollback_submitting", "rollback_ambiguous", "rolled_back"}
               => pExpense[r] \in Made(r)
        /\ pStatus[r] \in Completed
               => \A t \in Tokens : tPurpose[t] = "rollback" /\ tRun[t] = r
                                      => t \notin deletes \cup applied
        /\ pStatus[r] = "rolled_back" => eState[pExpense[r]] = "deleted"

\* The two status columns never drift apart: the run shows its posting's status,
\* except that a failed posting puts it back among the runs under review.
RunMirrorsPosting ==
    \A r \in Runs :
        IF pStatus[r] \in {"none", "failed"} THEN status[r] \in {"needs_review", "blocked", "ready"}
                                             ELSE status[r] = pStatus[r]

\* A token that can still be consumed approves the plan its run has now, and a
\* run has at most one: any change of bill or household invalidates it.
ApprovalIsCurrent ==
    \A t \in Tokens :
        tState[t] \in {"valid", "expired"} =>
            /\ plan[tRun[t]] = tDigest[t]
            /\ \A u \in Tokens : tState[u] \in {"valid", "expired"} /\ tRun[u] = tRun[t] => u = t

\* The checks against the audit chain never lock the operator out: a ready run
\* passes those of post_to_splitwise (a token consumed for it is not wasted) and a
\* completed posting those of rollback_splitwise, also after a failed rollback.
RecordsStayUsable ==
    \A r \in Runs :
        /\ status[r] = "ready" =>
              /\ ValidPlan(r) /\ ~ Blocked(plan[r])
              /\ pStatus[r] \in {"none", "failed"}
        /\ pStatus[r] \in Completed =>
              ValidPlan(r) /\ AuditedTarget(r) /\ pDigest[r] = plan[r] /\ pExpense[r] # None

\* A plan made for a local summary never reaches the wire (confirmation_target
\* keeps its token back, build_create_payload refuses it).
LocalSummaryStaysLocal ==
    \A t \in creates \cup applied : hPayload[t].household \notin LocalOnly

\* While the server runs, a posting or rollback in flight has a handler that will
\* record its outcome.
InFlightIsHandled ==
    server = "up" =>
        \A r \in Runs :
            /\ pStatus[r] = "submitting" => \E t \in Tokens : tRun[t] = r /\ Creating(t)
            /\ pStatus[r] = "rollback_submitting" => \E t \in Tokens : tRun[t] = r /\ Deleting(t)

-----------------------------------------------------------------------------
(* Action property *)

Settled(r) == pStatus[r] \in {"ambiguous", "rollback_ambiguous", "rolled_back"}

KeepsSettled ==
    \A r \in Runs : Settled(r) =>
        /\ pStatus'[r] = pStatus[r] /\ status'[r] = status[r]
        /\ plan'[r] = plan[r] /\ bill'[r] = bill[r]
        /\ pExpense'[r] = pExpense[r]

\* An outcome nobody knows, and a finished rollback, are never overwritten: no
\* review, preview, late answer, retry or restart changes such a run.
SettledIsFinal == [][KeepsSettled]_vars

-----------------------------------------------------------------------------
(* Liveness.  Every await of a handler ends: the connection, the read and the  *)
(* size of an answer are limited (httpx.Timeout, MAX_RESPONSE_BYTES).  The     *)
(* container restarts (compose.yaml, restart: unless-stopped), and though it   *)
(* may die again during start-up it does not do so every time: strong fairness *)
(* of the last recovery step.                                                  *)

Fairness ==
    /\ \A t \in Tokens : WF_vars(PostHandler(t)) /\ WF_vars(RollbackHandler(t))
    /\ WF_vars(StartUp) /\ SF_vars(RecoverPostings)

FairSpec == Spec /\ Fairness

\* Every submission gets an outcome, through any number of crashes.
SubmissionSettles ==
    \A r \in Runs :
        pStatus[r] \in {"submitting", "rollback_submitting"}
            ~> pStatus[r] \notin {"submitting", "rollback_submitting"}
=============================================================================
