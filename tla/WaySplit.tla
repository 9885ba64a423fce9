------------------------------ MODULE WaySplit ------------------------------
(***************************************************************************)
(* The whole server: extraction jobs and posting handlers of one process   *)
(* over one database.  A step is a step of one of the two components that  *)
(* leaves the other's memory alone, except that they die and start         *)
(* together (the lifespan function of web.py).                             *)
(***************************************************************************)
EXTENDS Posting

CONSTANT RetainSource   \* settings.retain_source

ASSUME RetentionIsBoolean == RetainSource \in BOOLEAN

VARIABLES files, job, holder, toErase, lost

X == INSTANCE Extraction

jobVars     == <<files, job, holder, toErase, lost>>
postingOnly == <<handlerVars, remoteVars, historyVars>>
allVars     == <<vars, jobVars>>

WholeInit ==
    /\ X!Init
    /\ hPc = [t \in Tokens |-> "idle"]
    /\ hPayload = [t \in Tokens |-> None]
    /\ hTarget = [t \in Tokens |-> None]
    /\ verify = [q \in Requests |-> Idle]
    /\ creates = {} /\ deletes = {}
    /\ eState = [e \in Expenses |-> "absent"]
    /\ eToken = [e \in Expenses |-> None]
    /\ applied = {} /\ refused = {}
    /\ tPurpose = [t \in Tokens |-> "none"]
    /\ changedAtIssue = {}

PostingStep ==
    /\ \/ Operator
       \/ \E t \in Tokens : PostHandler(t) \/ RollbackHandler(t) \/ TokenExpires(t)
       \/ \E q \in Requests : VerifyHandler(q)
       \/ Destination
    /\ UNCHANGED jobVars

ExtractionStep ==
    /\ \E r \in Runs : X!UploadRequest(r) \/ X!Job(r) \/ X!EraseRecovered(r)
    /\ UNCHANGED postingOnly

Death ==
    /\ \/ Crash
       \/ \E r \in Runs : PreviewKilled(r) \/ \E t \in Tokens : PostKilled(r, t)
       \/ \E q \in Requests : RollbackKilled(q)
    /\ X!JobsLost({})

\* No handler of posting catches its cancellation: to them it is a crash.
ForcedShutdown == server = "up" /\ Crash /\ X!JobsCancelled

Lifespan ==
    \/ StartUp /\ X!RecoverRuns
    \/ RecoverPostings /\ X!RecoverPostings

WholeNext == PostingStep \/ ExtractionStep \/ Death \/ ForcedShutdown \/ Lifespan

WholeSpec == WholeInit /\ [][WholeNext]_allVars

-----------------------------------------------------------------------------
(* Safety *)

\* The same statement is never posted twice, through whatever runs it was
\* uploaded, extracted, blocked, corrected, failed or rolled back: two expenses
\* come from bills of different fingerprints.
OneExpensePerStatement ==
    \A d, e \in Expenses :
        d # e /\ eToken[d] # None /\ eToken[e] # None
            => Fingerprint[hPayload[eToken[d]].bill] # Fingerprint[hPayload[eToken[e]].bill]

\* An extraction job never touches a run that is being or was posted, though
\* fail_run itself would overwrite the statuses "submitting", "rollback_submitting"
\* and "rollback_ambiguous": by then its job has nothing left but the unlink.
PostingIsUndisturbed ==
    \A r \in Runs :
        /\ pStatus[r] # "none" => job[r] \in {"erasing", "done"}
        /\ pStatus[r] \notin {"none", "failed"} => status[r] = pStatus[r]
=============================================================================
