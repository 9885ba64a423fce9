----------------------------- MODULE Extraction -----------------------------
(***************************************************************************)
(* From an uploaded statement to a normalized bill: POST /api/runs and the *)
(* start-up recovery of web.py, and the background job process_run of      *)
(* service.py, with the upload directory it shares with the table runs.    *)
(*                                                                         *)
(* A run, its job and its upload file go by the same name: the file is     *)
(* written first, the row that names it is inserted second, and the job    *)
(* starts last.  Each action is one segment between two awaits.            *)
(***************************************************************************)
EXTENDS Repository

CONSTANT RetainSource   \* settings.retain_source

ASSUME RetainSourceIsBoolean == RetainSource \in BOOLEAN

VARIABLES
    files,    \* runs whose upload file is on disk
    job,      \* where the upload request or the extraction job of a run is
    holder,   \* the job that holds _processing_lock, or None
    toErase,  \* start-up: files of recovered runs still to be unlinked
    lost      \* history: files that the process left on disk when it died

jobVars == <<files, job, holder, toErase, lost>>
vars    == <<repoVars, jobVars>>

JobPc == {"none", "storing", "scheduled", "probing", "reading", "asking", "erasing", "done"}

Working(r) == job[r] \in {"probing", "reading", "asking", "erasing"}

\* Type invariant of the tables, the upload directory and the jobs.
TypeOK ==
    /\ RepositoryTypeOK
    /\ files \subseteq Runs
    /\ job \in [Runs -> JobPc]
    /\ holder \in Runs \cup {None}
    /\ toErase \subseteq Runs
    /\ lost \subseteq Runs

Init ==
    /\ status = [r \in Runs |-> "none"]
    /\ source = [r \in Runs |-> None]
    /\ sourcePath = [r \in Runs |-> FALSE]
    /\ bill = [r \in Runs |-> None]
    /\ plan = [r \in Runs |-> None]
    /\ pStatus = [r \in Runs |-> "none"]
    /\ pDigest = [r \in Runs |-> None]
    /\ pExpense = [r \in Runs |-> None]
    /\ pPrior = [r \in Runs |-> "none"]
    /\ tState = [t \in Tokens |-> "unissued"]
    /\ tRun = [t \in Tokens |-> None]
    /\ tDigest = [t \in Tokens |-> None]
    /\ ledger = {}
    /\ server = "up"
    /\ files = {}
    /\ job = [r \in Runs |-> "none"]
    /\ holder = None
    /\ toErase = {}
    /\ lost = {}

GoTo(r, pc) == job' = [job EXCEPT ![r] = pc]

-----------------------------------------------------------------------------
(* POST /api/runs *)

\* _store_upload opens the file and awaits its chunks.
StoreUpload(r) ==
    /\ server = "up"
    /\ status[r] = "none" /\ job[r] = "none" /\ r \notin files
    /\ files' = files \cup {r}
    /\ GoTo(r, "storing")
    /\ UNCHANGED <<repoVars, holder, toErase, lost>>

\* Too large, empty, of no known type, or the client went away.
StoreRejected(r) ==
    /\ job[r] = "storing"
    /\ files' = files \ {r}
    /\ GoTo(r, "none")
    /\ UNCHANGED <<repoVars, holder, toErase, lost>>

CreateRun(r, s) ==
    /\ job[r] = "storing"
    /\ SourceFree(r, s)
    /\ status' = [status EXCEPT ![r] = "queued"]
    /\ source' = [source EXCEPT ![r] = s]
    /\ sourcePath' = [sourcePath EXCEPT ![r] = TRUE]
    /\ GoTo(r, "scheduled")
    /\ UNCHANGED <<bill, plan, postingVars, tokenVars, ledger, server, files, holder, toErase,
                   lost>>

\* DuplicateStatementError: the upload is unlinked in the same segment.
CreateRunRefused(r, s) ==
    /\ job[r] = "storing"
    /\ ~ SourceFree(r, s)
    /\ files' = files \ {r}
    /\ GoTo(r, "none")
    /\ UNCHANGED <<repoVars, holder, toErase, lost>>

-----------------------------------------------------------------------------
(* process_run, under _processing_lock *)

StartJob(r) ==
    /\ job[r] = "scheduled"
    /\ holder = None
    /\ status[r] \in {"queued", "failed"}
    /\ status' = [status EXCEPT ![r] = "extracting"]
    /\ holder' = r
    /\ GoTo(r, "probing")
    /\ UNCHANGED <<source, sourcePath, bill, plan, postingVars, tokenVars, ledger, server,
                   files, toErase, lost>>

\* probe_model finds the attested model ready.
Probed(r) ==
    /\ job[r] = "probing"
    /\ GoTo(r, "reading")
    /\ UNCHANGED <<repoVars, files, holder, toErase, lost>>

\* extract_document_isolated has read the file.
DocumentRead(r) ==
    /\ job[r] = "reading"
    /\ r \in files
    /\ GoTo(r, "asking")
    /\ UNCHANGED <<repoVars, files, holder, toErase, lost>>

\* Fault: the finally clause without the unlink.
FinishWithoutUnlink(r) == GoTo(r, "done") /\ holder' = None

\* The finally clause: without retention the job still holds the lock while it
\* awaits the unlink; with retention it is done.
Finish(r) ==
    IF RetainSource
    THEN GoTo(r, "done") /\ holder' = None
    ELSE GoTo(r, "erasing") /\ UNCHANGED holder

FailRunStatuses ==
    RunStatus \ {"none", "posted", "posted_unverified", "ambiguous", "rolled_back"}

FailRun(r, clearSource) ==
    /\ status[r] \in FailRunStatuses
    /\ status' = [status EXCEPT ![r] = "failed"]
    /\ sourcePath' = [sourcePath EXCEPT ![r] = @ /\ ~ clearSource]
    /\ UNCHANGED <<source, bill, plan, postingVars, tokenVars, ledger>>

\* Any exception: endpoint, probe, changed model, worker, model answer, internal.
JobFails(r) ==
    /\ job[r] \in {"probing", "reading", "asking"}
    /\ FailRun(r, ~ RetainSource)
    /\ Finish(r)
    /\ UNCHANGED <<server, files, toErase, lost>>

\* The model answered with bill b and complete_extraction commits it.
ExtractionCompletes(r, b) ==
    /\ job[r] = "asking"
    /\ status[r] = "extracting"
    /\ Unique(r, GateStatus(b), b)
    /\ status' = [status EXCEPT ![r] = GateStatus(b)]
    /\ sourcePath' = [sourcePath EXCEPT ![r] = @ /\ RetainSource]
    /\ bill' = [bill EXCEPT ![r] = b]
    /\ plan' = [plan EXCEPT ![r] = None]
    /\ Finish(r)
    /\ UNCHANGED <<source, postingVars, tokenVars, ledger, server, files, toErase,
                   lost>>

\* complete_extraction meets a unique index: the run fails.
ExtractionIsDuplicate(r, b) ==
    /\ job[r] = "asking"
    /\ status[r] = "extracting"
    /\ ~ Unique(r, GateStatus(b), b)
    /\ FailRun(r, ~ RetainSource)
    /\ Finish(r)
    /\ UNCHANGED <<server, files, toErase, lost>>

EraseUpload(r) ==
    /\ job[r] = "erasing"
    /\ files' = files \ {r}
    /\ GoTo(r, "done")
    /\ holder' = None
    /\ UNCHANGED <<repoVars, toErase, lost>>

-----------------------------------------------------------------------------
(* Death, restart and recovery of the process *)

\* The jobs end where they are; the files in gone are unlinked on the way.
JobsLost(gone) ==
    /\ job' = [r \in Runs |-> IF status[r] = "none" THEN "none" ELSE "done"]
    /\ holder' = None
    /\ toErase' = {}
    /\ files' = files \ gone
    /\ lost' = lost \cup (files \ gone)

\* Killed: no clause of the code runs.
Crash ==
    /\ server # "down"
    /\ server' = "down"
    /\ JobsLost({})
    /\ UNCHANGED <<runVars, postingVars, tokenVars, ledger>>

\* CancelledError passes every "except Exception".  It reaches the unlink of
\* _store_upload's "except BaseException" and that of _process_run's "finally";
\* a job that still waits for the lock has entered neither.
UnlinkedIfCancelled ==
    {r \in files : job[r] = "storing" \/ (~ RetainSource /\ Working(r))}

\* A forced shutdown cancels all jobs, whose rows stay as they are, and waits for
\* the unlinks, unless it is killed before they are done.
JobsCancelled == \E gone \in SUBSET UnlinkedIfCancelled : JobsLost(gone)

ForcedShutdown ==
    /\ server = "up"
    /\ server' = "down"
    /\ JobsCancelled
    /\ UNCHANGED <<runVars, postingVars, tokenVars, ledger>>

\* recover_interrupted_runs commits; the paths it returns are erased after that.
RecoverRuns ==
    /\ server = "down"
    /\ RecoverInterruptedRuns
    /\ server' = "recovering"
    /\ toErase' = {r \in Runs : status[r] \in {"queued", "extracting"} /\ sourcePath[r]}
    /\ UNCHANGED <<files, job, holder, lost>>

EraseRecovered(r) ==
    /\ server = "recovering"
    /\ r \in toErase
    /\ files' = files \ {r}
    /\ toErase' = toErase \ {r}
    /\ UNCHANGED <<repoVars, job, holder, lost>>

RecoverPostings ==
    /\ server = "recovering"
    /\ toErase = {}
    /\ RecoverInterruptedPostings
    /\ server' = "up"
    /\ UNCHANGED jobVars

-----------------------------------------------------------------------------
(* The operator corrects a bill: PUT /api/runs/{run_id}/bill. *)
ReviewBill(r, b) ==
    /\ server = "up"
    /\ ReplaceBillReview(r, b)
    /\ UNCHANGED <<ledger, server, jobVars>>

UploadRequest(r) ==
    \/ StoreUpload(r) \/ StoreRejected(r)
    \/ \E s \in Sources : CreateRun(r, s) \/ CreateRunRefused(r, s)

Job(r) ==
    \/ StartJob(r) \/ Probed(r) \/ DocumentRead(r) \/ JobFails(r) \/ EraseUpload(r)
    \/ \E b \in Bills : ExtractionCompletes(r, b) \/ ExtractionIsDuplicate(r, b)

Restart == RecoverRuns \/ RecoverPostings \/ \E r \in Runs : EraseRecovered(r)

Next ==
    \/ \E r \in Runs :
          \/ UploadRequest(r) \/ Job(r)
          \/ \E b \in Bills : ReviewBill(r, b)
    \/ Crash \/ ForcedShutdown \/ Restart

Spec == Init /\ [][Next]_vars

-----------------------------------------------------------------------------
(* Safety *)

\* A running server never has a row that names a file that is gone: the file is
\* written before the row is inserted, the path is cleared before the file is
\* unlinked, and start-up clears the paths of the jobs that were cut off before it
\* erases a file or admits a request.  The one exception is on disk only, while the
\* server is down: a cancelled job unlinks its upload and leaves its row alone.
NamedFileExists ==
    \A r \in Runs :
        sourcePath[r] =>
            \/ r \in files
            \/ server = "down" /\ status[r] = "extracting" /\ ~ RetainSource

-----------------------------------------------------------------------------
(* Liveness.  The awaits of a job are bounded (model and worker timeouts);   *)
(* asyncio.Lock wakes its waiters in order, so a job that waits for the lock  *)
(* gets it: strong fairness of StartJob.  The container restarts.             *)

Fairness ==
    /\ \A r \in Runs : WF_vars(Job(r)) /\ SF_vars(StartJob(r))
    /\ WF_vars(Restart)

FairSpec == Spec /\ Fairness

\* Every accepted upload is extracted or fails, through any number of crashes.
ExtractionEnds ==
    \A r \in Runs :
        status[r] \in {"queued", "extracting"} ~> status[r] \notin {"queued", "extracting"}

\* A statement that is not to be retained is removed once its run has an outcome,
\* unless the process died while the file was on disk.
UploadsAreRemovedWhileAlive ==
    \A r \in Runs :
        status[r] \in {"needs_review", "blocked", "failed"} /\ ~ RetainSource
            ~> r \notin files \/ r \in lost

\* docs/PRIVACY.md: "original uploads ... are temporary and removed after the run
\* reaches a durable safe state".
UploadsAreRemoved ==
    \A r \in Runs :
        status[r] \in {"needs_review", "blocked", "failed"} /\ ~ RetainSource ~> r \notin files
=============================================================================
