-------------------------- MODULE ExtractionProofs --------------------------
(***************************************************************************)
(* That every behaviour of Extraction keeps the files its rows name, for   *)
(* any sets of runs, statements and bills: JobInv is inductive.            *)
(***************************************************************************)
EXTENDS ExtractionInvariants, TLAPS

\* Before the first upload there is nothing to rely on.
LEMMA JobInitially ==
    Init => JobInv
  BY NoneIsNoValue
     DEF Init, JobInv, TypeOK, RepositoryTypeOK, RunStatus, PostingStatus, JobPc, JobsMatch,
         UnreadIsUnposted, FilesInv, DownIsJobless

\* Every step of an upload, a job, the operator or a restart keeps JobInv.
LEMMA JobStep ==
    JobInv /\ [Next]_vars => JobInv'
<1> SUFFICES ASSUME JobInv, [Next]_vars PROVE JobInv'
  OBVIOUS
<1> USE NoneIsNoValue
    DEF JobInv, TypeOK, RepositoryTypeOK, RunStatus, PostingStatus, JobPc, JobsMatch, Unread,
        UnreadIsUnposted, FilesInv, DownIsJobless, GoTo, Finish, GateStatus, repoVars, runVars,
        postingVars, tokenVars, jobVars
<1>1. ASSUME NEW r \in Runs, StoreUpload(r) PROVE JobInv'
  BY <1>1 DEF StoreUpload
<1>2. ASSUME NEW r \in Runs, StoreRejected(r) PROVE JobInv'
  BY <1>2 DEF StoreRejected
<1>3. ASSUME NEW r \in Runs, NEW s \in Sources, CreateRun(r, s) PROVE JobInv'
  BY <1>3 DEF CreateRun
<1>4. ASSUME NEW r \in Runs, NEW s \in Sources, CreateRunRefused(r, s) PROVE JobInv'
  BY <1>4 DEF CreateRunRefused
<1>5. ASSUME NEW r \in Runs, StartJob(r) PROVE JobInv'
  BY <1>5 DEF StartJob
<1>6. ASSUME NEW r \in Runs, Probed(r) PROVE JobInv'
  BY <1>6 DEF Probed
<1>7. ASSUME NEW r \in Runs, DocumentRead(r) PROVE JobInv'
  BY <1>7 DEF DocumentRead
<1>8. ASSUME NEW r \in Runs, JobFails(r) PROVE JobInv'
  BY <1>8, RetainSourceIsBoolean DEF JobFails, FailRun
<1>9. ASSUME NEW r \in Runs, NEW b \in Bills, ExtractionCompletes(r, b) PROVE JobInv'
  BY <1>9, RetainSourceIsBoolean DEF ExtractionCompletes
<1>10. ASSUME NEW r \in Runs, NEW b \in Bills, ExtractionIsDuplicate(r, b) PROVE JobInv'
  BY <1>10, RetainSourceIsBoolean DEF ExtractionIsDuplicate, FailRun
<1>11. ASSUME NEW r \in Runs, EraseUpload(r) PROVE JobInv'
  BY <1>11 DEF EraseUpload
<1>12. ASSUME NEW r \in Runs, NEW b \in Bills, ReviewBill(r, b) PROVE JobInv'
  BY <1>12 DEF ReviewBill, ReplaceBillReview, Reviewable, DeleteConfirmations, Row
<1>13. ASSUME Crash PROVE JobInv'
  BY <1>13 DEF Crash, JobsLost
<1>14. ASSUME RecoverRuns PROVE JobInv'
  BY <1>14 DEF RecoverRuns, RecoverInterruptedRuns
<1>15. ASSUME NEW r \in Runs, EraseRecovered(r) PROVE JobInv'
  BY <1>15 DEF EraseRecovered
<1>16. ASSUME RecoverPostings PROVE JobInv'
  BY <1>16 DEF RecoverPostings, RecoverInterruptedPostings, RecoveredStatus
<1>17. ASSUME ForcedShutdown PROVE JobInv'
  <2>1. PICK gone \in SUBSET UnlinkedIfCancelled : JobsLost(gone)
    BY <1>17 DEF ForcedShutdown, JobsCancelled
  <2> QED
    BY <1>17, <2>1, RetainSourceIsBoolean
       DEF ForcedShutdown, JobsLost, UnlinkedIfCancelled, Working
<1>18. CASE UNCHANGED vars
  BY <1>18 DEF vars
<1> QED
  BY <1>1, <1>2, <1>3, <1>4, <1>5, <1>6, <1>7, <1>8, <1>9, <1>10, <1>11, <1>12, <1>13,
     <1>14, <1>15, <1>16, <1>17, <1>18 DEF Next, UploadRequest, Job, Restart

\* JobInv holds throughout: the inductive invariant of uploads and extraction jobs.
THEOREM JobInvariant == Spec => []JobInv
  BY JobInitially, JobStep, PTL DEF Spec

\* A row never names a file that is gone, but for one that a cancelled job unlinked,
\* until start-up has recovered its run.
THEOREM NamedFilesExist == Spec => []NamedFileExists
<1>1. JobInv => NamedFileExists
  BY DEF JobInv, FilesInv, NamedFileExists
<1> QED
  BY <1>1, JobInvariant, PTL
=============================================================================
