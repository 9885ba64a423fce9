--------------------------- MODULE WaySplitProofs ---------------------------
(***************************************************************************)
(* What becomes of Posting in company.                                     *)
(*                                                                         *)
(* That the whole server, with extraction jobs beside posting handlers,    *)
(* has the safety properties of both and posts no statement twice, for any *)
(* sets of runs, statements, bills, tokens and expenses; and that a page   *)
(* of the browser beside it follows the run it shows (last section).       *)
(*                                                                         *)
(* The induction is on the invariants of the two components together.  A   *)
(* step of posting keeps its own by InvStep and leaves runs that are not   *)
(* read yet alone; a step of extraction keeps its own as in                *)
(* ExtractionProofs and touches no run but one that is not read yet, which *)
(* therefore has no bill, no approval and no posting.                      *)
(***************************************************************************)
EXTENDS WaySplit, Browser, PostingProofs

XI == INSTANCE ExtractionInvariants

WholeInv == PostingInv /\ XI!JobInv

-----------------------------------------------------------------------------
(* Steps of posting *)

\* What extraction needs of posting: it keeps the paths and the runs not read yet.
KeepsUnread ==
    /\ UNCHANGED <<source, sourcePath>>
    /\ status' \in [Runs -> RunStatus] /\ bill' \in [Runs -> Bills \cup {None}]
    /\ \A r \in Runs :
          IF status[r] \in XI!Unread
          THEN status'[r] = status[r] /\ bill'[r] = bill[r] /\ pStatus'[r] = pStatus[r]
          ELSE status'[r] \notin XI!Unread

\* Every step of posting but the first of start-up keeps them.
LEMMA PostingKeepsUnread ==
    TypeInv /\ StatusInv /\ [Next]_vars /\ ~ StartUp => KeepsUnread
<1> SUFFICES ASSUME TypeInv, TypeInv', StatusInv, [Next]_vars, ~ StartUp PROVE KeepsUnread
  BY TypeStep
<1> USE DEF TypeInv, TypeOK, RepositoryTypeOK, HandlersBound, StatusInv, Unplanned,
      KeepsUnread, XI!Unread, RunStatus,
      PostingStatus, repoVars, runVars, postingVars, tokenVars, handlerVars, remoteVars,
      historyVars
<1>1. ASSUME NEW r \in Runs, NEW b \in Bills, ReviewBill(r, b) PROVE KeepsUnread
  BY <1>1 DEF ReviewBill, ReplaceBillReview, DeleteConfirmations, Row, GateStatus,
     Reviewable
<1>2. ASSUME NEW r \in Runs, NEW h \in Households, CreatePreview(r, h)
      PROVE KeepsUnread
  BY <1>2 DEF CreatePreview, SavePreview, DeleteConfirmations, Row, Audit, PreviewFact,
     DigestOf, Facts, Digests, Blocked, Previewable
<1>3. ASSUME NEW r \in Runs, NEW h \in Households, PreviewUnresolved(r, h)
      PROVE KeepsUnread
  BY <1>3 DEF PreviewUnresolved, ReplaceBillReview, DeleteConfirmations, Row, GateStatus,
     NeedsRepair, Reviewable
<1>4. ASSUME NEW r \in Runs, NEW t \in Tokens, RequestConfirmation(r, t)
      PROVE KeepsUnread
  BY <1>4 DEF RequestConfirmation, IssueConfirmation, InsertToken, Row
<1>5. ASSUME NEW r \in Runs, NEW t \in Tokens, RequestRollbackConfirmation(r, t)
      PROVE KeepsUnread
  BY <1>5 DEF RequestRollbackConfirmation, IssueRollbackConfirmation, InsertToken, Row
<1>6. ASSUME NEW r \in Runs, NEW t \in Tokens, PostRequest(r, t) PROVE KeepsUnread
  BY <1>6 DEF PostRequest, ConsumeConfirmation, Consumable, ReservePosting, SetPosting,
     MayPost, ValidPlan
<1>7. ASSUME NEW q \in Requests, NEW r \in Runs, NEW t \in Tokens, RollbackRequest(q, r, t)
      PROVE KeepsUnread
  BY <1>7 DEF RollbackRequest, ValidPlan, Completed
<1>8. ASSUME NEW t \in Tokens, SendCreate(t) PROVE KeepsUnread
  BY <1>8 DEF SendCreate
<1>9. ASSUME NEW t \in Tokens, CreateNotSent(t) PROVE KeepsUnread
  BY <1>9 DEF CreateNotSent, EndPosting, FailPosting, SetPosting
<1>10. ASSUME NEW t \in Tokens, CreateRefused(t) PROVE KeepsUnread
  BY <1>10 DEF CreateRefused, EndPosting, FailPosting, SetPosting
<1>11. ASSUME NEW t \in Tokens, CreateUnclear(t) PROVE KeepsUnread
  BY <1>11 DEF CreateUnclear, EndPosting, FailPosting, SetPosting
<1>12. ASSUME NEW t \in Tokens, NEW e \in Expenses, CreateAnswered(t, e)
      PROVE KeepsUnread
  BY <1>12 DEF CreateAnswered
<1>13. ASSUME NEW t \in Tokens, CreateUncaught(t) PROVE KeepsUnread
  BY <1>13 DEF CreateUncaught
<1>14. ASSUME NEW t \in Tokens, NEW verified \in BOOLEAN, ReadBack(t, verified)
      PROVE KeepsUnread
  BY <1>14 DEF ReadBack, CompletePosting, SetPosting, Audit, CompletedFact, Facts
<1>15. ASSUME NEW t \in Tokens, SendDelete(t) PROVE KeepsUnread
  BY <1>15 DEF SendDelete
<1>16. ASSUME NEW t \in Tokens, DeleteNotSent(t) PROVE KeepsUnread
  BY <1>16 DEF DeleteNotSent, EndRollback, FailRollback, SetPosting, Completed
<1>17. ASSUME NEW t \in Tokens, DeleteRefused(t) PROVE KeepsUnread
  BY <1>17 DEF DeleteRefused, EndRollback, FailRollback, SetPosting, Completed
<1>18. ASSUME NEW t \in Tokens, DeleteUnclear(t) PROVE KeepsUnread
  BY <1>18 DEF DeleteUnclear, EndRollback, FailRollback, SetPosting, Completed
<1>19. ASSUME NEW t \in Tokens, DeleteAnswered(t) PROVE KeepsUnread
  BY <1>19 DEF DeleteAnswered, MarkRolledBack, SetPosting, Completed
<1>20. ASSUME NEW t \in Tokens, DeleteUncaught(t) PROVE KeepsUnread
  BY <1>20 DEF DeleteUncaught
<1>21. ASSUME NEW t \in Tokens, TokenExpires(t) PROVE KeepsUnread
  BY <1>21 DEF TokenExpires, ExpireToken
<1>22. ASSUME NEW q \in Requests, VerifyMatches(q) PROVE KeepsUnread
  BY <1>22 DEF VerifyMatches
<1>23. ASSUME NEW q \in Requests, VerifyFails(q) PROVE KeepsUnread
  BY <1>23 DEF VerifyFails, Idle
<1>24. ASSUME NEW q \in Requests, RollbackApproved(q) PROVE KeepsUnread
  BY <1>24 DEF RollbackApproved, ConsumeConfirmation, Consumable, ReserveRollback,
     SetPosting, Idle, Completed
<1>25. ASSUME NEW q \in Requests, RollbackDenied(q) PROVE KeepsUnread
  BY <1>25 DEF RollbackDenied, Idle
<1>26. ASSUME NEW t \in Tokens, NEW e \in Expenses, ApplyCreate(t, e)
      PROVE KeepsUnread
  BY <1>26 DEF ApplyCreate
<1>27. ASSUME NEW t \in Tokens, RefuseCreate(t) PROVE KeepsUnread
  BY <1>27 DEF RefuseCreate
<1>28. ASSUME NEW t \in Tokens, ApplyDelete(t) PROVE KeepsUnread
  BY <1>28 DEF ApplyDelete
<1>29. ASSUME NEW t \in Tokens, RefuseDelete(t) PROVE KeepsUnread
  BY <1>29 DEF RefuseDelete
<1>30. ASSUME NEW e \in Expenses, OthersChange(e) PROVE KeepsUnread
  BY <1>30 DEF OthersChange
<1>31. ASSUME NEW e \in Expenses, OthersDelete(e) PROVE KeepsUnread
  BY <1>31 DEF OthersDelete
<1>32. ASSUME Crash PROVE KeepsUnread
  BY <1>32 DEF Crash, MemoryLost, Idle
<1>34. ASSUME RecoverPostings PROVE KeepsUnread
  BY <1>34 DEF RecoverPostings, RecoverInterruptedPostings, RecoveredStatus
<1>35. ASSUME NEW r \in Runs, PreviewKilled(r) PROVE KeepsUnread
  BY <1>35 DEF PreviewKilled, ReplaceBillReview, DeleteConfirmations, Row, GateStatus,
     NeedsRepair, MemoryLost, Idle, Reviewable
<1>36. ASSUME NEW r \in Runs, NEW t \in Tokens, PostKilled(r, t) PROVE KeepsUnread
  BY <1>36 DEF PostKilled, ConsumeConfirmation, Consumable, MemoryLost, Idle
<1>37. ASSUME NEW q \in Requests, RollbackKilled(q) PROVE KeepsUnread
  BY <1>37 DEF RollbackKilled, ConsumeConfirmation, Consumable, MemoryLost, Idle
<1>38. CASE UNCHANGED vars
  BY <1>38 DEF vars
<1> HIDE DEF TypeInv, TypeOK, RepositoryTypeOK, HandlersBound, StatusInv, Unplanned,
      KeepsUnread, XI!Unread, RunStatus,
      PostingStatus, repoVars, runVars, postingVars, tokenVars, handlerVars, remoteVars,
      historyVars
<1> QED
  BY <1>1, <1>2, <1>3, <1>4, <1>5, <1>6, <1>7, <1>8, <1>9, <1>10, <1>11, <1>12, <1>13,
     <1>14, <1>15, <1>16, <1>17, <1>18, <1>19, <1>20, <1>21, <1>22, <1>23, <1>24, <1>25,
     <1>26, <1>27, <1>28, <1>29, <1>30, <1>31, <1>32, <1>34, <1>35, <1>36, <1>37,
     <1>38
     DEF Next, Operator, PostHandler, RollbackHandler, VerifyHandler, Destination, Lifecycle

\* A step of a handler, the operator or the destination leaves the server running.
LEMMA PostingStepKeepsServer ==
    PostingStep => UNCHANGED <<server, jobVars>>
<1> USE DEF repoVars
<1>1. Operator => UNCHANGED server
  BY DEF Operator, ReviewBill, CreatePreview, PreviewUnresolved, RequestConfirmation,
         RequestRollbackConfirmation, PostRequest, RollbackRequest
<1>2. ASSUME NEW t \in Tokens, PostHandler(t) PROVE UNCHANGED server
  BY <1>2 DEF PostHandler, SendCreate, CreateNotSent, CreateRefused, CreateUnclear, EndPosting,
              CreateAnswered, CreateUncaught, ReadBack
<1>3. ASSUME NEW t \in Tokens, RollbackHandler(t) PROVE UNCHANGED server
  BY <1>3 DEF RollbackHandler, SendDelete, DeleteNotSent, DeleteRefused, DeleteUnclear,
              EndRollback, DeleteAnswered, DeleteUncaught
<1>4. ASSUME NEW q \in Requests, VerifyHandler(q) PROVE UNCHANGED server
  BY <1>4 DEF VerifyHandler, VerifyMatches, VerifyFails, RollbackApproved, RollbackDenied
<1>5. Destination => UNCHANGED server
  BY DEF Destination, ApplyCreate, RefuseCreate, ApplyDelete, RefuseDelete, OthersChange,
         OthersDelete
<1>6. ASSUME NEW t \in Tokens, TokenExpires(t) PROVE UNCHANGED server
  BY <1>6 DEF TokenExpires, ExpireToken
<1> QED
  BY <1>1, <1>2, <1>3, <1>4, <1>5, <1>6 DEF PostingStep, jobVars

\* The jobs end, and some that are cut off unlink their uploads.
JobsEnd == \E gone \in SUBSET X!UnlinkedIfCancelled : X!JobsLost(gone)

\* Jobs that go on, or end with the process, find their runs as they left them.
LEMMA PostingKeepsJobs ==
  ASSUME WholeInv, TypeInv', KeepsUnread,
         \/ UNCHANGED <<server, jobVars>>
         \/ server' = "up" /\ server = "recovering" /\ UNCHANGED jobVars /\ toErase = {}
         \/ server' = "down" /\ JobsEnd
  PROVE XI!JobInv'
<1> USE DEF WholeInv, KeepsUnread, TypeInv, TypeOK, RepositoryTypeOK, RunStatus, jobVars,
            XI!JobInv, XI!TypeOK, XI!RepositoryTypeOK, XI!RunStatus, XI!PostingStatus, XI!Completed,
            XI!Digests,
            XI!Facts, XI!JobPc, XI!Unread
<1>1. XI!TypeOK'
  BY DEF JobsEnd, X!JobsLost, Digests, Facts, PostingStatus, Completed
<1>2. XI!JobsMatch'
  BY DEF JobsEnd, X!JobsLost, XI!JobsMatch
<1>3. XI!UnreadIsUnposted'
  BY DEF JobsEnd, X!JobsLost, XI!UnreadIsUnposted
<1>4. XI!FilesInv'
  BY RetentionIsBoolean
     DEF JobsEnd, X!JobsLost, X!UnlinkedIfCancelled, X!Working, XI!JobsMatch, XI!FilesInv
<1>5. XI!DownIsJobless'
  BY DEF JobsEnd, X!JobsLost, XI!DownIsJobless
<1> QED
  BY <1>1, <1>2, <1>3, <1>4, <1>5

-----------------------------------------------------------------------------
(* Steps of extraction *)

\* What posting needs of extraction: at most one run changes, one that is not read yet;
\* it stays without a plan, and a bill it gets breaks no index.
ReadsRun(r) ==
    /\ status[r] \in XI!Unread
    /\ \E s \in Unplanned :
          /\ status' = [status EXCEPT ![r] = s]
          /\ s # "none"
          /\ \/ bill' = bill /\ plan' = plan
             \/ /\ plan' = [plan EXCEPT ![r] = None]
                /\ \E b \in Bills : bill' = [bill EXCEPT ![r] = b] /\ Unique(r, s, b)
    /\ source' \in [Runs -> Sources \cup {None}]
    /\ sourcePath' \in [Runs -> BOOLEAN]
    /\ UNCHANGED <<postingVars, tokenVars, ledger, server>>

\* A step of an upload request, a job or a recovery reads a run or none.
LEMMA ExtractionReads ==
    XI!JobInv /\ ExtractionStep
        => /\ UNCHANGED postingOnly
           /\ UNCHANGED repoVars \/ \E r \in Runs : ReadsRun(r)
<1> SUFFICES ASSUME XI!JobInv, ExtractionStep, ~ UNCHANGED repoVars
             PROVE \E r \in Runs : ReadsRun(r)
  BY DEF ExtractionStep
<1> USE DEF XI!JobInv, XI!TypeOK, XI!RepositoryTypeOK, XI!JobsMatch, XI!Unread, ReadsRun, Unplanned,
            X!repoVars, X!runVars, X!postingVars, X!tokenVars, repoVars, runVars, postingVars,
            tokenVars
<1>1. PICK r \in Runs : X!UploadRequest(r) \/ X!Job(r) \/ X!EraseRecovered(r)
  BY DEF ExtractionStep
<1>2. ASSUME NEW s \in Sources, X!CreateRun(r, s) PROVE ReadsRun(r)
  BY <1>2 DEF X!CreateRun
<1>3. CASE X!StartJob(r)
  BY <1>3 DEF X!StartJob
<1>4. CASE X!JobFails(r)
  BY <1>4 DEF X!JobFails, X!FailRun
<1>5. ASSUME NEW b \in Bills, X!ExtractionCompletes(r, b) PROVE ReadsRun(r)
  <2>1. X!GateStatus(b) \in {"needs_review", "blocked"}
    BY DEF X!GateStatus
  <2>2. Unique(r, X!GateStatus(b), b)
    BY <1>5 DEF X!ExtractionCompletes, X!Unique, Unique, X!FingerprintFree, FingerprintFree,
                X!SourceFree, SourceFree
  <2> QED
    BY <1>5, <2>1, <2>2 DEF X!ExtractionCompletes
<1>6. ASSUME NEW b \in Bills, X!ExtractionIsDuplicate(r, b) PROVE ReadsRun(r)
  BY <1>6 DEF X!ExtractionIsDuplicate, X!FailRun
<1>7. X!StoreUpload(r) \/ X!StoreRejected(r) \/ X!Probed(r) \/ X!DocumentRead(r) \/ X!EraseUpload(r)
        \/ X!EraseRecovered(r) \/ (\E s \in Sources : X!CreateRunRefused(r, s))
      => UNCHANGED repoVars
  BY DEF X!StoreUpload, X!StoreRejected, X!Probed, X!DocumentRead, X!EraseUpload,
         X!EraseRecovered, X!CreateRunRefused
<1> HIDE DEF ReadsRun
<1> QED
  BY <1>1, <1>2, <1>3, <1>4, <1>5, <1>6, <1>7 DEF X!UploadRequest, X!Job

\* A run that is not read yet has no bill, no approval and no posting to disturb.
LEMMA ReadingKeepsPosting ==
  ASSUME WholeInv, NEW r \in Runs, ReadsRun(r), UNCHANGED postingOnly
  PROVE PostingInv'
<1> USE DEF WholeInv, PostingInv, ReadsRun, XI!JobInv, XI!Unread, postingOnly, postingVars,
            tokenVars, handlerVars, remoteVars, historyVars
<1>1. pStatus[r] = "none" /\ bill[r] = None /\ status[r] \in Unplanned \ {"blocked"}
  BY DEF XI!UnreadIsUnposted, Unplanned
<1>2. PICK s \in Unplanned :
          /\ status' = [status EXCEPT ![r] = s]
          /\ \/ bill' = bill /\ plan' = plan
             \/ /\ plan' = [plan EXCEPT ![r] = None]
                /\ \E b \in Bills : bill' = [bill EXCEPT ![r] = b] /\ Unique(r, s, b)
  OBVIOUS
<1>3. \A x \in Runs \ {r} :
          status'[x] = status[x] /\ bill'[x] = bill[x] /\ plan'[x] = plan[x]
  BY <1>2 DEF TypeInv, TypeOK, RepositoryTypeOK
<1>4. status'[r] = s /\ status' \in [Runs -> RunStatus]
  BY <1>2 DEF TypeInv, TypeOK, RepositoryTypeOK, Unplanned, RunStatus
<1>5. bill' \in [Runs -> Bills \cup {None}] /\ plan' \in [Runs -> Digests \cup {None}]
  BY <1>2 DEF TypeInv, TypeOK, RepositoryTypeOK
<1> HIDE DEF ReadsRun
<1>6. /\ source' \in [Runs -> Sources \cup {None}] /\ sourcePath' \in [Runs -> BOOLEAN]
      /\ UNCHANGED <<pStatus, pDigest, pExpense, pPrior, tState, tRun, tDigest, ledger, server>>
  BY DEF ReadsRun
<1>7. TypeInv'
  BY <1>4, <1>5, <1>6 DEF TypeInv, TypeOK, RepositoryTypeOK, HandlersBound
<1>8. StatusInv'
  BY <1>1, <1>3, <1>4, <1>6 DEF StatusInv
<1>9. PrintsInv'
  BY <1>1, <1>2, PrintsKept, PrintsUpdated DEF TypeInv, TypeOK, RepositoryTypeOK
<1>10. AttemptInv'
  BY <1>6 DEF AttemptInv, FreshTokens, OneAttempt, AttemptPhases, DownIsIdle, Counts, Creating,
              Deleting
<1>11. ASSUME NEW t \in Tokens, Live(t) PROVE tRun[t] \in Runs \ {r}
  BY <1>1, <1>11 DEF ApprovalInv, Live, Completed, Unplanned, TypeInv, HandlersBound
<1>12. ApprovalInv'
  BY <1>3, <1>6, <1>11 DEF ApprovalInv, Live
<1>13. \A x \in Runs \ {r} : PlanOK(x)'
  BY <1>3, <1>6, PlanKept DEF PlanInv
<1>14. PlanInv'
  BY <1>1, <1>4, <1>6, <1>13 DEF PlanInv, PlanOK, Completed
<1>15. ASSUME NEW t \in Tokens, Creating(t) \/ Counts(t) PROVE tRun[t] \in Runs \ {r}
  <2>1. tState[t] # "unissued"
    BY <1>15 DEF TypeInv, HandlersBound, AttemptInv, FreshTokens, Creating
  <2>2. pStatus[tRun[t]] # "none"
    BY <1>15 DEF AttemptInv, OneAttempt
  <2> QED
    BY <1>1, <2>1, <2>2 DEF TypeInv, HandlersBound
<1>16. PayloadInv'
  BY <1>3, <1>6, <1>15 DEF PayloadInv, Creating, Counts
<1>17. WireInv' /\ ExpenseInv' /\ GoneInv'
  BY <1>6 DEF WireInv, Creating, Deleting, Delivered, ExpenseInv, Made, GoneInv
<1>18. DeleteInv'
  <2>1. DeleteInv /\ UNCHANGED <<hPc, hTarget, deletes, applied, refused, eState, tRun, tPurpose,
                                 changedAtIssue, pStatus, pExpense>>
    BY <1>6
  <2> QED
    BY <2>1 DEF DeleteInv, DeleteCounts, Deleting
<1>19. VerifyInv'
  <2>1. VerifyInv /\ UNCHANGED <<verify, changedAtIssue, pStatus, pExpense, tState, tRun, eState>>
    BY <1>6
  <2> QED
    BY <2>1 DEF VerifyInv
<1> QED
  BY <1>7, <1>8, <1>9, <1>10, <1>12, <1>14, <1>16, <1>17, <1>18, <1>19

\* Jobs keep what they rely on.
LEMMA ExtractionKeepsJobs ==
    XI!JobInv /\ (ExtractionStep \/ X!RecoverRuns) => XI!JobInv'
<1> SUFFICES ASSUME XI!JobInv, ExtractionStep \/ X!RecoverRuns PROVE XI!JobInv'
  OBVIOUS
<1> USE NoneIsNoValue
    DEF XI!JobInv, XI!TypeOK, XI!RepositoryTypeOK, XI!RunStatus, XI!PostingStatus, XI!JobPc,
        XI!JobsMatch, XI!Unread, XI!UnreadIsUnposted, XI!FilesInv, XI!DownIsJobless, X!RunStatus,
        X!GoTo, X!Finish, X!GateStatus, X!repoVars, X!runVars, X!postingVars, X!tokenVars
<1>1. ASSUME NEW r \in Runs, X!StoreUpload(r) PROVE XI!JobInv'
  BY <1>1 DEF X!StoreUpload
<1>2. ASSUME NEW r \in Runs, X!StoreRejected(r) PROVE XI!JobInv'
  BY <1>2 DEF X!StoreRejected
<1>3. ASSUME NEW r \in Runs, NEW s \in Sources, X!CreateRun(r, s) PROVE XI!JobInv'
  BY <1>3 DEF X!CreateRun
<1>4. ASSUME NEW r \in Runs, NEW s \in Sources, X!CreateRunRefused(r, s) PROVE XI!JobInv'
  BY <1>4 DEF X!CreateRunRefused
<1>5. ASSUME NEW r \in Runs, X!StartJob(r) PROVE XI!JobInv'
  BY <1>5 DEF X!StartJob
<1>6. ASSUME NEW r \in Runs, X!Probed(r) PROVE XI!JobInv'
  BY <1>6 DEF X!Probed
<1>7. ASSUME NEW r \in Runs, X!DocumentRead(r) PROVE XI!JobInv'
  BY <1>7 DEF X!DocumentRead
<1>8. ASSUME NEW r \in Runs, X!JobFails(r) PROVE XI!JobInv'
  BY <1>8, RetentionIsBoolean DEF X!JobFails, X!FailRun
<1>9. ASSUME NEW r \in Runs, NEW b \in Bills, X!ExtractionCompletes(r, b) PROVE XI!JobInv'
  BY <1>9, RetentionIsBoolean DEF X!ExtractionCompletes
<1>10. ASSUME NEW r \in Runs, NEW b \in Bills, X!ExtractionIsDuplicate(r, b) PROVE XI!JobInv'
  BY <1>10, RetentionIsBoolean DEF X!ExtractionIsDuplicate, X!FailRun
<1>11. ASSUME NEW r \in Runs, X!EraseUpload(r) PROVE XI!JobInv'
  BY <1>11 DEF X!EraseUpload
<1>12. CASE X!RecoverRuns
  BY <1>12 DEF X!RecoverRuns, X!RecoverInterruptedRuns
<1>13. ASSUME NEW r \in Runs, X!EraseRecovered(r) PROVE XI!JobInv'
  BY <1>13 DEF X!EraseRecovered
<1> QED
  BY <1>1, <1>2, <1>3, <1>4, <1>5, <1>6, <1>7, <1>8, <1>9, <1>10, <1>11, <1>12, <1>13
     DEF ExtractionStep, X!UploadRequest, X!Job

-----------------------------------------------------------------------------
(* The theorems *)

\* A step of the server is a step of posting, as Posting has it, or of extraction.
LEMMA WholeSteps ==
    [WholeNext]_allVars => [Next]_vars \/ ExtractionStep
  BY DEF WholeNext, PostingStep, Death, ForcedShutdown, Lifespan, Next, Lifecycle, allVars

\* A step of the server is one of posting, which leaves unread runs alone, or one of
\* extraction, which reads a run.
LEMMA WholeStep ==
    WholeInv /\ [WholeNext]_allVars => WholeInv'
<1> SUFFICES ASSUME WholeInv, [WholeNext]_allVars PROVE WholeInv'
  OBVIOUS
<1> USE DEF WholeInv
<1>1. ASSUME [Next]_vars, ~ StartUp,
             \/ UNCHANGED <<server, jobVars>>
             \/ server' = "up" /\ server = "recovering" /\ UNCHANGED jobVars /\ toErase = {}
             \/ server' = "down" /\ JobsEnd
      PROVE WholeInv'
  <2>1. PostingInv'
    BY <1>1, InvStep
  <2>2. KeepsUnread
    BY <1>1, PostingKeepsUnread DEF PostingInv
  <2> QED
    BY <1>1, <2>1, <2>2, PostingKeepsJobs DEF PostingInv
<1>2. CASE PostingStep
  <2>1. Next
    BY <1>2 DEF PostingStep, Next
  <2>2. UNCHANGED <<server, jobVars>>
    BY <1>2, PostingStepKeepsServer
  <2>3. ~ StartUp
    BY <2>2 DEF StartUp
  <2> QED
    BY <1>1, <2>1, <2>2, <2>3
<1>3. CASE ExtractionStep
  <2>1. XI!JobInv'
    BY <1>3, ExtractionKeepsJobs
  <2>2. CASE UNCHANGED repoVars
    BY <1>3, <2>1, <2>2, InvStep DEF ExtractionStep, postingOnly, vars
  <2>3. CASE \E r \in Runs : ReadsRun(r)
    BY <1>3, <2>1, <2>3, ReadingKeepsPosting DEF ExtractionStep
  <2> QED
    BY <1>3, <2>1, <2>2, <2>3, ExtractionReads
<1>4. CASE Death
  <2>1. Next /\ server' = "down" /\ JobsEnd
    BY <1>4 DEF JobsEnd, Death, Next, Lifecycle, Crash, PreviewKilled, PostKilled, RollbackKilled, MemoryLost
  <2>2. ~ StartUp
    BY <2>1 DEF StartUp
  <2> QED
    BY <1>1, <2>1, <2>2
<1>5. CASE StartUp /\ X!RecoverRuns
  BY <1>5, InvStep, ExtractionKeepsJobs DEF Next, Lifecycle
<1>6. CASE RecoverPostings /\ X!RecoverPostings
  <2>1. Next /\ server' = "up" /\ server = "recovering" /\ UNCHANGED jobVars /\ toErase = {}
    BY <1>6 DEF Next, Lifecycle, RecoverPostings, X!RecoverPostings, X!jobVars, jobVars
  <2>2. ~ StartUp
    BY <2>1 DEF StartUp
  <2> QED
    BY <1>1, <2>1, <2>2
<1>7. CASE ForcedShutdown
  <2>1. Next /\ server' = "down" /\ JobsEnd
    BY <1>7 DEF ForcedShutdown, X!JobsCancelled, JobsEnd, Next, Lifecycle, Crash, MemoryLost
  <2>2. ~ StartUp
    BY <2>1 DEF StartUp
  <2> QED
    BY <1>1, <2>1, <2>2
<1>8. CASE UNCHANGED allVars
  <2>1. UNCHANGED <<vars, server, jobVars>>
    BY <1>8 DEF allVars, vars, repoVars
  <2>2. CASE StartUp
    BY <2>1, <2>2 DEF StartUp
  <2> QED
    BY <1>1, <2>1, <2>2
<1> QED
  BY <1>2, <1>3, <1>4, <1>5, <1>6, <1>7, <1>8 DEF WholeNext, Lifespan

\* An empty database satisfies both invariants.
LEMMA WholeInitially ==
    WholeInit => WholeInv
<1> SUFFICES ASSUME WholeInit PROVE WholeInv
  OBVIOUS
<1> USE NoneIsNoValue DEF WholeInit, X!Init
<1>1. TypeInv
  BY DEF TypeInv, TypeOK, RepositoryTypeOK, HandlersBound, RunStatus, PostingStatus, HandlerPc,
         Idle
<1>2. AttemptInv
  BY DEF AttemptInv, FreshTokens, OneAttempt, AttemptPhases, DownIsIdle, Counts, Creating, Deleting
<1>3. StatusInv /\ PrintsInv /\ PlanInv
  BY DEF StatusInv, Unplanned, PrintsInv, PlanInv, PlanOK, Completed
<1>4. ApprovalInv /\ PayloadInv /\ WireInv
  BY DEF ApprovalInv, Live, PayloadInv, WireInv, Creating, Deleting, Counts, Idle
<1>5. ExpenseInv /\ DeleteInv /\ VerifyInv /\ GoneInv
  BY DEF ExpenseInv, DeleteInv, DeleteCounts, Deleting, VerifyInv, GoneInv, AfterPosting, Completed,
         Idle
<1>6. XI!JobInv
  BY DEF XI!JobInv, XI!TypeOK, XI!RepositoryTypeOK, XI!RunStatus, XI!PostingStatus, XI!JobPc,
         XI!JobsMatch, XI!UnreadIsUnposted, XI!FilesInv, XI!DownIsJobless
<1> QED
  BY <1>1, <1>2, <1>3, <1>4, <1>5, <1>6 DEF PostingInv, WholeInv

\* Both invariants hold of the whole server.
THEOREM WholeInvariant == WholeSpec => []WholeInv
  BY WholeInitially, WholeStep, PTL DEF WholeSpec

\* What posting promises on its own it also keeps beside uploads and extraction jobs.
THEOREM WholePostingIsSafe ==
    WholeSpec => [](/\ AtMostOneExpense /\ PostedAsConfirmed /\ DeletedAsApproved
                    /\ ChangedExpenseIsKept /\ ClaimsHonest /\ ApprovalIsCurrent
                    /\ RecordsStayUsable /\ LocalSummaryStaysLocal)
  BY Consequences, WholeInvariant, PTL DEF WholeInv

\* An extraction job never touches a run that is being or was posted.
THEOREM JobsLeavePostingsAlone == WholeSpec => []PostingIsUndisturbed
<1>1. WholeInv => PostingIsUndisturbed
  BY DEF WholeInv, PostingInv, StatusInv, XI!JobInv, XI!TypeOK, XI!JobPc, XI!JobsMatch, XI!Unread,
         XI!UnreadIsUnposted, PostingIsUndisturbed
<1> QED
  BY <1>1, WholeInvariant, PTL

\* The same statement is never posted twice, through whatever runs it went.
THEOREM NoStatementPostedTwice == WholeSpec => []OneExpensePerStatement
<1>1. WholeInv => OneExpensePerStatement
  <2> SUFFICES ASSUME WholeInv, NEW d \in Expenses, NEW e \in Expenses,
                      d # e, eToken[d] # None, eToken[e] # None
               PROVE Fingerprint[hPayload[eToken[d]].bill] # Fingerprint[hPayload[eToken[e]].bill]
    BY DEF OneExpensePerStatement
  <2> DEFINE R(x) == tRun[eToken[x]]
  <2>1. ASSUME NEW x \in {d, e}
        PROVE /\ eToken[x] \in Tokens /\ R(x) \in Runs /\ x \in Made(R(x))
              /\ hPayload[eToken[x]].bill = bill[R(x)]
              /\ bill[R(x)] \in Bills \cup {None} /\ plan[R(x)] = tDigest[eToken[x]]
              /\ status[R(x)] \notin Unplanned \cup {"ready"}
    <3>1. eToken[x] \in Tokens /\ Counts(eToken[x]) /\ R(x) \in Runs
      BY DEF WholeInv, PostingInv, TypeInv, TypeOK, HandlersBound, Counts, AttemptInv, FreshTokens
    <3>2. pStatus[R(x)] \notin {"none", "failed"}
      BY <3>1 DEF WholeInv, PostingInv, AttemptInv, OneAttempt
    <3>3. status[R(x)] \notin Unplanned \cup {"ready"}
      BY <3>1, <3>2 DEF WholeInv, PostingInv, StatusInv, Unplanned, TypeInv, TypeOK,
                        RepositoryTypeOK, PostingStatus
    <3> QED
      BY <3>1, <3>3 DEF WholeInv, PostingInv, PayloadInv, Made, TypeInv, TypeOK, RepositoryTypeOK
  <2>2. ASSUME NEW x \in {d, e} PROVE bill[R(x)] # None
    <3>1. plan[R(x)] \in Digests \cup {None} /\ PlanOK(R(x))
      BY <2>1 DEF WholeInv, PostingInv, PlanInv, TypeInv, TypeOK, RepositoryTypeOK
    <3>2. plan[R(x)] # None /\ plan[R(x)].bill = bill[R(x)]
      BY <2>1, <3>1 DEF PlanOK, ValidPlan
    <3> QED
      BY <3>1, <3>2, NoneIsNoValue DEF Digests
  <2>3. R(d) # R(e)
    <3>1. AtMostOneExpense
      BY Consequences DEF WholeInv
    <3> QED
      BY <2>1, <3>1 DEF AtMostOneExpense
  <2>4. Fingerprint[bill[R(d)]] # Fingerprint[bill[R(e)]]
    BY <2>1, <2>2, <2>3 DEF WholeInv, PostingInv, PrintsInv, Unplanned
  <2> QED
    BY <2>1, <2>4
<1> QED
  BY <1>1, WholeInvariant, PTL

\* A row never names a file that is gone, but for one that a cancelled job unlinked,
\* until start-up has recovered its run: whatever posting does beside extraction.
THEOREM WholeNamedFilesExist == WholeSpec => []X!NamedFileExists
<1>1. WholeInv => X!NamedFileExists
  BY DEF WholeInv, XI!JobInv, XI!FilesInv, X!NamedFileExists
<1> QED
  BY <1>1, WholeInvariant, PTL

\* No upload, job or restart overwrites an outcome nobody knows or a finished rollback.
THEOREM WholeSettledStaysSettled == WholeSpec => SettledIsFinal
<1>1. WholeInv /\ [WholeNext]_allVars => [KeepsSettled]_vars
  <2> SUFFICES ASSUME WholeInv, [WholeNext]_allVars, ~ UNCHANGED vars PROVE KeepsSettled
    OBVIOUS
  <2>1. CASE [Next]_vars
    BY <2>1, SettledStep DEF WholeInv, PostingInv
  <2>2. CASE ExtractionStep
    <3>1. PICK r \in Runs : ReadsRun(r)
      BY <2>2, ExtractionReads DEF WholeInv, ExtractionStep, postingOnly, vars
    <3>2. pStatus[r] = "none"
      BY <3>1 DEF ReadsRun, WholeInv, XI!JobInv, XI!UnreadIsUnposted
    <3> QED
      BY <3>1, <3>2 DEF ReadsRun, KeepsSettled, Settled, postingVars, WholeInv, PostingInv, TypeInv,
                        TypeOK, RepositoryTypeOK
  <2> QED
    BY <2>1, <2>2, WholeSteps
<1> QED
  BY <1>1, WholeInvariant, PTL DEF WholeSpec, SettledIsFinal

\* The whole server implements Promise.
THEOREM WholeKeepsPromise == WholeSpec => PromiseKept
<1>1. WholeInit => Promised!Init
  BY DEF WholeInit, X!Init, Promised!Init, consents, ConsentOf, phases, PhaseOf, Completed,
         agreements, AgreedOf, remotes, RemoteOf, Made
<1>2. WholeInv /\ [WholeNext]_allVars => [Promised!Next]_(Promised!promiseVars)
  <2> SUFFICES ASSUME WholeInv, [WholeNext]_allVars
               PROVE Promised!Next \/ UNCHANGED Promised!promiseVars
    OBVIOUS
  <2>1. CASE [Next]_vars
    BY <2>1, PromiseStep DEF WholeInv
  <2>2. CASE ExtractionStep
    <3>1. UNCHANGED <<postingVars, tokenVars, remoteVars, historyVars>>
      BY <2>2, ExtractionReads DEF WholeInv, ReadsRun, repoVars, postingOnly
    <3> QED
      BY <3>1, PromiseStutters DEF postingVars, tokenVars, remoteVars, historyVars
  <2> QED
    BY <2>1, <2>2, WholeSteps
<1> QED
  BY <1>1, <1>2, WholeInvariant, PTL DEF WholeSpec, PromiseKept, Promised!Spec

-----------------------------------------------------------------------------
(* A page of the browser beside posting *)

Known == Runs \cup {Other}

IsRequest(q) == q = NoRequest \/ (q.run \in Known /\ q = Request(q.run, q.answer))

\* While the page shows a run in flight no timer is set for another.
PageInv ==
    /\ page.status \in InFlight => page.run \in Known /\ timer \in {None, page.run}
    /\ timer \in Known \cup {None}
    /\ IsRequest(polling)
    /\ opening = [o \in Opens |-> opening[o]]
    /\ \A o \in Opens : IsRequest(opening[o])

\* No run is None, and an answer keeps the run that was asked for.
LEMMA KnownRuns ==
    /\ None \notin Known
    /\ \A r \in Known : \A a : IsRequest(Request(r, a)) /\ Request(r, a) # NoRequest
    /\ \A q : IsRequest(q) /\ q.answer # "none" =>
          /\ q.run \in Known /\ Answered(q).run = q.run
          /\ IsRequest(Answered(q)) /\ Answered(q) # NoRequest
    /\ IsRequest(NoRequest) /\ NoRequest.run = None /\ NoRequest.answer = "none"
BY NoneIsNoValue, OtherIsNoRun DEF Known, IsRequest, Request, NoRequest, Answered

LEMMA PageKeeps == PageInv /\ [ClientNext]_clientVars => PageInv'
<1> SUFFICES ASSUME PageInv, [ClientNext]_clientVars PROVE PageInv'
  OBVIOUS
<1> USE KnownRuns DEF PageInv, HasAnswer, Show, SchedulePoll, Shown
<1>1. ASSUME TimerFires PROVE PageInv'
  BY <1>1 DEF TimerFires
<1>2. ASSUME PollAnswered PROVE PageInv'
  BY <1>2 DEF PollAnswered
<1>3. ASSUME Polled PROVE PageInv'
  BY <1>3 DEF Polled
<1>4. ASSUME PollFails PROVE PageInv'
  BY <1>4 DEF PollFails
<1>5. ASSUME NEW o \in Opens, NEW r \in Known, OpenRun(o, r) PROVE PageInv'
  BY <1>5 DEF OpenRun
<1>6. ASSUME NEW o \in Opens, OpenAnswered(o) PROVE PageInv'
  BY <1>6 DEF OpenAnswered
<1>7. ASSUME NEW o \in Opens, RunOpened(o) PROVE PageInv'
  BY <1>7 DEF RunOpened
<1>8. ASSUME NEW o \in Opens, OpenFails(o) PROVE PageInv'
  BY <1>8 DEF OpenFails
<1>9. CASE UNCHANGED pageVars
  BY <1>9 DEF pageVars
<1> QED
  BY <1>1, <1>2, <1>3, <1>4, <1>5, <1>6, <1>7, <1>8, <1>9
     DEF ClientNext, PageStep, clientVars, Known

\* What the page shows and asks for is consistent throughout.
THEOREM PageInvariant == ClientSpec => []PageInv
<1>1. ClientInit => PageInv
  BY KnownRuns DEF ClientInit, PageInv, Shown, InFlight
<1> QED
  BY <1>1, PageKeeps, PTL DEF ClientSpec

\* Whatever order answers come in, the page stops to follow a run in flight only when
\* it had cancelled the timer to open another and that request failed.
THEOREM PageKeepsFollowing == ClientSpec => PollingStopsOnlyByFailedOpen
<1> DEFINE Stops == Forgotten' => Forgotten \/ \E o \in Opens : OpenFails(o)
<1>1. ASSUME PageInv, [ClientNext]_clientVars PROVE [Stops]_pageVars
  <2> SUFFICES ASSUME Forgotten', ~ Forgotten, ~ UNCHANGED pageVars,
                      \A o \in Opens : ~ OpenFails(o)
               PROVE  FALSE
    OBVIOUS
  <2> USE <1>1, KnownRuns DEF PageInv, Forgotten, HasAnswer, Show, SchedulePoll, Shown
  <2>1. ASSUME TimerFires PROVE FALSE
    BY <2>1 DEF TimerFires, Request
  <2>2. ASSUME PollAnswered PROVE FALSE
    BY <2>2 DEF PollAnswered
  <2>3. ASSUME Polled PROVE FALSE
    BY <2>3 DEF Polled
  <2>4. ASSUME PollFails PROVE FALSE
    BY <2>4 DEF PollFails
  <2>5. ASSUME NEW o \in Opens, NEW r \in Known, OpenRun(o, r) PROVE FALSE
    BY <2>5 DEF OpenRun
  <2>6. ASSUME NEW o \in Opens, OpenAnswered(o) PROVE FALSE
    BY <2>6 DEF OpenAnswered
  <2>7. ASSUME NEW o \in Opens, RunOpened(o) PROVE FALSE
    BY <2>7 DEF RunOpened
  <2> QED
    BY <2>1, <2>2, <2>3, <2>4, <2>5, <2>6, <2>7
       DEF ClientNext, PageStep, clientVars, Known
<1> QED
  BY <1>1, PageInvariant, PTL DEF ClientSpec, PollingStopsOnlyByFailedOpen

\* A page changes nothing on the server, so all that is proved of Posting holds beside it.
THEOREM PageOnlyWatches == ClientSpec => Spec
<1>1. [ClientNext]_clientVars => [Next]_vars
  BY DEF ClientNext, clientVars
<1> QED
  BY <1>1, PTL DEF ClientSpec, ClientInit, Spec
=============================================================================
