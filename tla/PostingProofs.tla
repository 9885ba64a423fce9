--------------------------- MODULE PostingProofs ---------------------------
(***************************************************************************)
(* That every behaviour of Posting has its safety properties, for any sets *)
(* of runs, bills, households, tokens and expenses.                        *)
(*                                                                         *)
(* The induction is on PostingInv.  A lemma for each conjunct says which   *)
(* others it needs in the state before the step, and has one step for each *)
(* action; the properties then follow from PostingInv state by state.      *)
(* The last part shows that Posting implements Promise.                    *)
(***************************************************************************)
EXTENDS PostingPromise, TLAPS

-----------------------------------------------------------------------------
(* Types and the two status columns *)

\* create_preview keeps the types: its digest is a digest, its event a fact.
LEMMA PreviewTypes ==
  ASSUME TypeInv, NEW r \in Runs, NEW h \in Households, CreatePreview(r, h)
  PROVE TypeInv'
<1> DEFINE d == DigestOf(r, Repair[bill[r]], h)
<1>1. SavePreview(r, d) /\ ledger' = ledger \cup {PreviewFact(d, Blocked(d))}
  BY DEF CreatePreview, Audit
<1>2. d \in Digests /\ d.bill \in Bills
  BY NoneIsNoValue, RepairIsIdempotent
     DEF CreatePreview, TypeInv, TypeOK, RepositoryTypeOK, DigestOf, Digests
<1>3. Blocked(d) \in BOOLEAN
  BY DEF Blocked
<1>4. PreviewFact(d, Blocked(d)) \in Facts
  BY <1>2, <1>3 DEF PreviewFact, Facts
<1>5. UNCHANGED <<server, handlerVars, remoteVars, historyVars>>
  BY DEF CreatePreview
<1> HIDE DEF d
<1> QED
  BY <1>1, <1>2, <1>4, <1>5
     DEF SavePreview, DeleteConfirmations, Row, TypeInv, TypeOK, RepositoryTypeOK,
           HandlersBound,
         RunStatus, postingVars, handlerVars, remoteVars, historyVars

\* Every step keeps the types of the tables, the handlers and the wire.
LEMMA TypeStep ==
    TypeInv /\ [Next]_vars => TypeInv'
<1> SUFFICES ASSUME TypeInv, [Next]_vars PROVE TypeInv'
  OBVIOUS
<1> USE NoneIsNoValue, RepairIsIdempotent, BillData DEF TypeInv, TypeOK, RepositoryTypeOK,
      HandlersBound, RunStatus, PostingStatus, HandlerPc, repoVars, runVars, postingVars,
      tokenVars, handlerVars, remoteVars, historyVars
<1>1. ASSUME NEW r \in Runs, NEW b \in Bills, ReviewBill(r, b) PROVE TypeInv'
  BY <1>1 DEF ReviewBill, ReplaceBillReview, DeleteConfirmations, Row, GateStatus
<1>2. ASSUME NEW r \in Runs, NEW h \in Households, CreatePreview(r, h) PROVE TypeInv'
  BY <1>2, PreviewTypes
<1>3. ASSUME NEW r \in Runs, NEW h \in Households, PreviewUnresolved(r, h) PROVE TypeInv'
  BY <1>3 DEF PreviewUnresolved, ReplaceBillReview, DeleteConfirmations, Row, GateStatus,
     NeedsRepair
<1>4. ASSUME NEW r \in Runs, NEW t \in Tokens, RequestConfirmation(r, t) PROVE TypeInv'
  BY <1>4 DEF RequestConfirmation, IssueConfirmation, InsertToken, Row
<1>5. ASSUME NEW r \in Runs, NEW t \in Tokens, RequestRollbackConfirmation(r, t)
      PROVE TypeInv'
  BY <1>5 DEF RequestRollbackConfirmation, IssueRollbackConfirmation, InsertToken, Row
<1>6. ASSUME NEW r \in Runs, NEW t \in Tokens, PostRequest(r, t) PROVE TypeInv'
  BY <1>6 DEF PostRequest, ConsumeConfirmation, Consumable, ReservePosting, SetPosting,
     MayPost, ValidPlan
<1>7. ASSUME NEW q \in Requests, NEW r \in Runs, NEW t \in Tokens, RollbackRequest(q, r, t)
      PROVE TypeInv'
  BY <1>7 DEF RollbackRequest, ValidPlan, Completed
<1>8. ASSUME NEW t \in Tokens, SendCreate(t) PROVE TypeInv'
  BY <1>8 DEF SendCreate
<1>9. ASSUME NEW t \in Tokens, CreateNotSent(t) PROVE TypeInv'
  BY <1>9, SMTT(30) DEF CreateNotSent, EndPosting, FailPosting, SetPosting
<1>10. ASSUME NEW t \in Tokens, CreateRefused(t) PROVE TypeInv'
  BY <1>10 DEF CreateRefused, EndPosting, FailPosting, SetPosting
<1>11. ASSUME NEW t \in Tokens, CreateUnclear(t) PROVE TypeInv'
  BY <1>11 DEF CreateUnclear, EndPosting, FailPosting, SetPosting
<1>12. ASSUME NEW t \in Tokens, NEW e \in Expenses, CreateAnswered(t, e) PROVE TypeInv'
  BY <1>12 DEF CreateAnswered
<1>13. ASSUME NEW t \in Tokens, CreateUncaught(t) PROVE TypeInv'
  BY <1>13 DEF CreateUncaught
<1>14. ASSUME NEW t \in Tokens, NEW verified \in BOOLEAN, ReadBack(t, verified)
      PROVE TypeInv'
  BY <1>14 DEF ReadBack, CompletePosting, SetPosting, Audit, CompletedFact, Facts
<1>15. ASSUME NEW t \in Tokens, SendDelete(t) PROVE TypeInv'
  BY <1>15 DEF SendDelete
<1>16. ASSUME NEW t \in Tokens, DeleteNotSent(t) PROVE TypeInv'
  BY <1>16 DEF DeleteNotSent, EndRollback, FailRollback, SetPosting, Completed
<1>17. ASSUME NEW t \in Tokens, DeleteRefused(t) PROVE TypeInv'
  BY <1>17 DEF DeleteRefused, EndRollback, FailRollback, SetPosting, Completed
<1>18. ASSUME NEW t \in Tokens, DeleteUnclear(t) PROVE TypeInv'
  BY <1>18 DEF DeleteUnclear, EndRollback, FailRollback, SetPosting, Completed
<1>19. ASSUME NEW t \in Tokens, DeleteAnswered(t) PROVE TypeInv'
  BY <1>19 DEF DeleteAnswered, MarkRolledBack, SetPosting, Completed
<1>20. ASSUME NEW t \in Tokens, DeleteUncaught(t) PROVE TypeInv'
  BY <1>20 DEF DeleteUncaught
<1>21. ASSUME NEW t \in Tokens, TokenExpires(t) PROVE TypeInv'
  BY <1>21 DEF TokenExpires, ExpireToken
<1>22. ASSUME NEW q \in Requests, VerifyMatches(q) PROVE TypeInv'
  BY <1>22, SMTT(30) DEF VerifyMatches
<1>23. ASSUME NEW q \in Requests, VerifyFails(q) PROVE TypeInv'
  BY <1>23 DEF VerifyFails, Idle
<1>24. ASSUME NEW q \in Requests, RollbackApproved(q) PROVE TypeInv'
  BY <1>24 DEF RollbackApproved, ConsumeConfirmation, Consumable, ReserveRollback,
     SetPosting, Idle, Completed
<1>25. ASSUME NEW q \in Requests, RollbackDenied(q) PROVE TypeInv'
  BY <1>25 DEF RollbackDenied, Idle
<1>26. ASSUME NEW t \in Tokens, NEW e \in Expenses, ApplyCreate(t, e) PROVE TypeInv'
  BY <1>26 DEF ApplyCreate
<1>27. ASSUME NEW t \in Tokens, RefuseCreate(t) PROVE TypeInv'
  BY <1>27 DEF RefuseCreate
<1>28. ASSUME NEW t \in Tokens, ApplyDelete(t) PROVE TypeInv'
  <2>1. eState' \in [Expenses -> {"absent", "live", "changed", "deleted"}]
    BY <1>28 DEF ApplyDelete
  <2>2. applied' \subseteq Tokens /\ deletes' \subseteq Tokens
    BY <1>28 DEF ApplyDelete
  <2>3. UNCHANGED <<repoVars, handlerVars, creates, eToken, refused, historyVars>>
    BY <1>28 DEF ApplyDelete
  <2> QED
    BY <2>1, <2>2, <2>3
<1>29. ASSUME NEW t \in Tokens, RefuseDelete(t) PROVE TypeInv'
  BY <1>29 DEF RefuseDelete
<1>30. ASSUME NEW e \in Expenses, OthersChange(e) PROVE TypeInv'
  BY <1>30 DEF OthersChange
<1>31. ASSUME NEW e \in Expenses, OthersDelete(e) PROVE TypeInv'
  BY <1>31 DEF OthersDelete
<1>32. ASSUME Crash PROVE TypeInv'
  BY <1>32 DEF Crash, MemoryLost, Idle
<1>33. ASSUME StartUp PROVE TypeInv'
  BY <1>33 DEF StartUp, RecoverInterruptedRuns
<1>34. ASSUME RecoverPostings PROVE TypeInv'
  BY <1>34 DEF RecoverPostings, RecoverInterruptedPostings, RecoveredStatus
<1>35. ASSUME NEW r \in Runs, PreviewKilled(r) PROVE TypeInv'
  BY <1>35 DEF PreviewKilled, ReplaceBillReview, DeleteConfirmations, Row, GateStatus,
     NeedsRepair, MemoryLost, Idle
<1>36. ASSUME NEW r \in Runs, NEW t \in Tokens, PostKilled(r, t) PROVE TypeInv'
  BY <1>36 DEF PostKilled, ConsumeConfirmation, Consumable, MemoryLost, Idle
<1>37. ASSUME NEW q \in Requests, RollbackKilled(q) PROVE TypeInv'
  BY <1>37 DEF RollbackKilled, ConsumeConfirmation, Consumable, MemoryLost, Idle
<1>38. CASE UNCHANGED vars
  BY <1>38 DEF vars
<1> HIDE DEF TypeInv, TypeOK, RepositoryTypeOK, HandlersBound, RunStatus, PostingStatus,
      HandlerPc, repoVars, runVars, postingVars, tokenVars, handlerVars, remoteVars,
      historyVars
<1> QED
  BY <1>1, <1>2, <1>3, <1>4, <1>5, <1>6, <1>7, <1>8, <1>9, <1>10, <1>11, <1>12, <1>13,
     <1>14, <1>15, <1>16, <1>17, <1>18, <1>19, <1>20, <1>21, <1>22, <1>23, <1>24, <1>25,
     <1>26, <1>27, <1>28, <1>29, <1>30, <1>31, <1>32, <1>33, <1>34, <1>35, <1>36, <1>37,
     <1>38
     DEF Next, Operator, PostHandler, RollbackHandler, VerifyHandler, Destination, Lifecycle

\* Every transaction moves both status columns of a run.
LEMMA MirrorStep ==
    TypeInv /\ RunMirrorsPosting /\ [Next]_vars => RunMirrorsPosting'
<1> SUFFICES ASSUME TypeInv, RunMirrorsPosting, [Next]_vars PROVE RunMirrorsPosting'
  OBVIOUS
<1> USE DEF TypeInv, TypeOK, RepositoryTypeOK, HandlersBound, RunMirrorsPosting, RunStatus,
      PostingStatus, repoVars, runVars, postingVars, tokenVars, handlerVars, remoteVars,
      historyVars
<1>1. ASSUME NEW r \in Runs, NEW b \in Bills, ReviewBill(r, b) PROVE RunMirrorsPosting'
  BY <1>1 DEF ReviewBill, ReplaceBillReview, DeleteConfirmations, Row, GateStatus,
     Reviewable
<1>2. ASSUME NEW r \in Runs, NEW h \in Households, CreatePreview(r, h)
      PROVE RunMirrorsPosting'
  BY <1>2 DEF CreatePreview, SavePreview, DeleteConfirmations, Row, Audit, PreviewFact,
     DigestOf, Facts, Digests, Blocked, Previewable
<1>3. ASSUME NEW r \in Runs, NEW h \in Households, PreviewUnresolved(r, h)
      PROVE RunMirrorsPosting'
  BY <1>3 DEF PreviewUnresolved, ReplaceBillReview, DeleteConfirmations, Row, GateStatus,
     NeedsRepair, Reviewable
<1>4. ASSUME NEW r \in Runs, NEW t \in Tokens, RequestConfirmation(r, t)
      PROVE RunMirrorsPosting'
  BY <1>4 DEF RequestConfirmation, IssueConfirmation, InsertToken, Row
<1>5. ASSUME NEW r \in Runs, NEW t \in Tokens, RequestRollbackConfirmation(r, t)
      PROVE RunMirrorsPosting'
  BY <1>5 DEF RequestRollbackConfirmation, IssueRollbackConfirmation, InsertToken, Row
<1>6. ASSUME NEW r \in Runs, NEW t \in Tokens, PostRequest(r, t) PROVE RunMirrorsPosting'
  BY <1>6 DEF PostRequest, ConsumeConfirmation, Consumable, ReservePosting, SetPosting,
     MayPost, ValidPlan
<1>7. ASSUME NEW q \in Requests, NEW r \in Runs, NEW t \in Tokens, RollbackRequest(q, r, t)
      PROVE RunMirrorsPosting'
  BY <1>7 DEF RollbackRequest, ValidPlan, Completed
<1>8. ASSUME NEW t \in Tokens, SendCreate(t) PROVE RunMirrorsPosting'
  BY <1>8 DEF SendCreate
<1>9. ASSUME NEW t \in Tokens, CreateNotSent(t) PROVE RunMirrorsPosting'
  BY <1>9 DEF CreateNotSent, EndPosting, FailPosting, SetPosting
<1>10. ASSUME NEW t \in Tokens, CreateRefused(t) PROVE RunMirrorsPosting'
  BY <1>10 DEF CreateRefused, EndPosting, FailPosting, SetPosting
<1>11. ASSUME NEW t \in Tokens, CreateUnclear(t) PROVE RunMirrorsPosting'
  BY <1>11 DEF CreateUnclear, EndPosting, FailPosting, SetPosting
<1>12. ASSUME NEW t \in Tokens, NEW e \in Expenses, CreateAnswered(t, e)
      PROVE RunMirrorsPosting'
  BY <1>12 DEF CreateAnswered
<1>13. ASSUME NEW t \in Tokens, CreateUncaught(t) PROVE RunMirrorsPosting'
  BY <1>13 DEF CreateUncaught
<1>14. ASSUME NEW t \in Tokens, NEW verified \in BOOLEAN, ReadBack(t, verified)
      PROVE RunMirrorsPosting'
  BY <1>14 DEF ReadBack, CompletePosting, SetPosting, Audit, CompletedFact, Facts
<1>15. ASSUME NEW t \in Tokens, SendDelete(t) PROVE RunMirrorsPosting'
  BY <1>15 DEF SendDelete
<1>16. ASSUME NEW t \in Tokens, DeleteNotSent(t) PROVE RunMirrorsPosting'
  BY <1>16 DEF DeleteNotSent, EndRollback, FailRollback, SetPosting, Completed
<1>17. ASSUME NEW t \in Tokens, DeleteRefused(t) PROVE RunMirrorsPosting'
  BY <1>17 DEF DeleteRefused, EndRollback, FailRollback, SetPosting, Completed
<1>18. ASSUME NEW t \in Tokens, DeleteUnclear(t) PROVE RunMirrorsPosting'
  BY <1>18 DEF DeleteUnclear, EndRollback, FailRollback, SetPosting, Completed
<1>19. ASSUME NEW t \in Tokens, DeleteAnswered(t) PROVE RunMirrorsPosting'
  BY <1>19 DEF DeleteAnswered, MarkRolledBack, SetPosting, Completed
<1>20. ASSUME NEW t \in Tokens, DeleteUncaught(t) PROVE RunMirrorsPosting'
  BY <1>20 DEF DeleteUncaught
<1>21. ASSUME NEW t \in Tokens, TokenExpires(t) PROVE RunMirrorsPosting'
  BY <1>21 DEF TokenExpires, ExpireToken
<1>22. ASSUME NEW q \in Requests, VerifyMatches(q) PROVE RunMirrorsPosting'
  BY <1>22 DEF VerifyMatches
<1>23. ASSUME NEW q \in Requests, VerifyFails(q) PROVE RunMirrorsPosting'
  BY <1>23 DEF VerifyFails, Idle
<1>24. ASSUME NEW q \in Requests, RollbackApproved(q) PROVE RunMirrorsPosting'
  BY <1>24 DEF RollbackApproved, ConsumeConfirmation, Consumable, ReserveRollback,
     SetPosting, Idle, Completed
<1>25. ASSUME NEW q \in Requests, RollbackDenied(q) PROVE RunMirrorsPosting'
  BY <1>25 DEF RollbackDenied, Idle
<1>26. ASSUME NEW t \in Tokens, NEW e \in Expenses, ApplyCreate(t, e)
      PROVE RunMirrorsPosting'
  BY <1>26 DEF ApplyCreate
<1>27. ASSUME NEW t \in Tokens, RefuseCreate(t) PROVE RunMirrorsPosting'
  BY <1>27 DEF RefuseCreate
<1>28. ASSUME NEW t \in Tokens, ApplyDelete(t) PROVE RunMirrorsPosting'
  BY <1>28 DEF ApplyDelete
<1>29. ASSUME NEW t \in Tokens, RefuseDelete(t) PROVE RunMirrorsPosting'
  BY <1>29 DEF RefuseDelete
<1>30. ASSUME NEW e \in Expenses, OthersChange(e) PROVE RunMirrorsPosting'
  BY <1>30 DEF OthersChange
<1>31. ASSUME NEW e \in Expenses, OthersDelete(e) PROVE RunMirrorsPosting'
  BY <1>31 DEF OthersDelete
<1>32. ASSUME Crash PROVE RunMirrorsPosting'
  BY <1>32 DEF Crash, MemoryLost, Idle
<1>33. ASSUME StartUp PROVE RunMirrorsPosting'
  BY <1>33 DEF StartUp, RecoverInterruptedRuns
<1>34. ASSUME RecoverPostings PROVE RunMirrorsPosting'
  BY <1>34 DEF RecoverPostings, RecoverInterruptedPostings, RecoveredStatus
<1>35. ASSUME NEW r \in Runs, PreviewKilled(r) PROVE RunMirrorsPosting'
  BY <1>35 DEF PreviewKilled, ReplaceBillReview, DeleteConfirmations, Row, GateStatus,
     NeedsRepair, MemoryLost, Idle, Reviewable
<1>36. ASSUME NEW r \in Runs, NEW t \in Tokens, PostKilled(r, t) PROVE RunMirrorsPosting'
  BY <1>36 DEF PostKilled, ConsumeConfirmation, Consumable, MemoryLost, Idle
<1>37. ASSUME NEW q \in Requests, RollbackKilled(q) PROVE RunMirrorsPosting'
  BY <1>37 DEF RollbackKilled, ConsumeConfirmation, Consumable, MemoryLost, Idle
<1>38. CASE UNCHANGED vars
  BY <1>38 DEF vars
<1> HIDE DEF TypeInv, TypeOK, RepositoryTypeOK, HandlersBound, RunMirrorsPosting, RunStatus,
      PostingStatus, repoVars, runVars, postingVars, tokenVars, handlerVars, remoteVars,
      historyVars
<1> QED
  BY <1>1, <1>2, <1>3, <1>4, <1>5, <1>6, <1>7, <1>8, <1>9, <1>10, <1>11, <1>12, <1>13,
     <1>14, <1>15, <1>16, <1>17, <1>18, <1>19, <1>20, <1>21, <1>22, <1>23, <1>24, <1>25,
     <1>26, <1>27, <1>28, <1>29, <1>30, <1>31, <1>32, <1>33, <1>34, <1>35, <1>36, <1>37,
     <1>38
     DEF Next, Operator, PostHandler, RollbackHandler, VerifyHandler, Destination, Lifecycle

\* Every step keeps what posting and extraction have to agree on.
LEMMA StatusStep ==
    TypeInv /\ StatusInv /\ [Next]_vars => StatusInv'
<1> SUFFICES ASSUME TypeInv, StatusInv, [Next]_vars PROVE StatusInv'
  OBVIOUS
<1> USE DEF TypeInv, TypeOK, RepositoryTypeOK, HandlersBound, StatusInv, Unplanned, RunStatus,
      PostingStatus, repoVars, runVars, postingVars, tokenVars, handlerVars, remoteVars,
      historyVars
<1>1. ASSUME NEW r \in Runs, NEW b \in Bills, ReviewBill(r, b) PROVE StatusInv'
  BY <1>1 DEF ReviewBill, ReplaceBillReview, DeleteConfirmations, Row, GateStatus,
     Reviewable
<1>2. ASSUME NEW r \in Runs, NEW h \in Households, CreatePreview(r, h)
      PROVE StatusInv'
  BY <1>2 DEF CreatePreview, SavePreview, DeleteConfirmations, Row, Audit, PreviewFact,
     DigestOf, Facts, Digests, Blocked, Previewable
<1>3. ASSUME NEW r \in Runs, NEW h \in Households, PreviewUnresolved(r, h)
      PROVE StatusInv'
  BY <1>3 DEF PreviewUnresolved, ReplaceBillReview, DeleteConfirmations, Row, GateStatus,
     NeedsRepair, Reviewable
<1>4. ASSUME NEW r \in Runs, NEW t \in Tokens, RequestConfirmation(r, t)
      PROVE StatusInv'
  BY <1>4 DEF RequestConfirmation, IssueConfirmation, InsertToken, Row
<1>5. ASSUME NEW r \in Runs, NEW t \in Tokens, RequestRollbackConfirmation(r, t)
      PROVE StatusInv'
  BY <1>5 DEF RequestRollbackConfirmation, IssueRollbackConfirmation, InsertToken, Row
<1>6. ASSUME NEW r \in Runs, NEW t \in Tokens, PostRequest(r, t) PROVE StatusInv'
  BY <1>6 DEF PostRequest, ConsumeConfirmation, Consumable, ReservePosting, SetPosting,
     MayPost, ValidPlan
<1>7. ASSUME NEW q \in Requests, NEW r \in Runs, NEW t \in Tokens, RollbackRequest(q, r, t)
      PROVE StatusInv'
  BY <1>7 DEF RollbackRequest, ValidPlan, Completed
<1>8. ASSUME NEW t \in Tokens, SendCreate(t) PROVE StatusInv'
  BY <1>8 DEF SendCreate
<1>9. ASSUME NEW t \in Tokens, CreateNotSent(t) PROVE StatusInv'
  BY <1>9 DEF CreateNotSent, EndPosting, FailPosting, SetPosting
<1>10. ASSUME NEW t \in Tokens, CreateRefused(t) PROVE StatusInv'
  BY <1>10 DEF CreateRefused, EndPosting, FailPosting, SetPosting
<1>11. ASSUME NEW t \in Tokens, CreateUnclear(t) PROVE StatusInv'
  BY <1>11 DEF CreateUnclear, EndPosting, FailPosting, SetPosting
<1>12. ASSUME NEW t \in Tokens, NEW e \in Expenses, CreateAnswered(t, e)
      PROVE StatusInv'
  BY <1>12 DEF CreateAnswered
<1>13. ASSUME NEW t \in Tokens, CreateUncaught(t) PROVE StatusInv'
  BY <1>13 DEF CreateUncaught
<1>14. ASSUME NEW t \in Tokens, NEW verified \in BOOLEAN, ReadBack(t, verified)
      PROVE StatusInv'
  BY <1>14 DEF ReadBack, CompletePosting, SetPosting, Audit, CompletedFact, Facts
<1>15. ASSUME NEW t \in Tokens, SendDelete(t) PROVE StatusInv'
  BY <1>15 DEF SendDelete
<1>16. ASSUME NEW t \in Tokens, DeleteNotSent(t) PROVE StatusInv'
  BY <1>16 DEF DeleteNotSent, EndRollback, FailRollback, SetPosting, Completed
<1>17. ASSUME NEW t \in Tokens, DeleteRefused(t) PROVE StatusInv'
  BY <1>17 DEF DeleteRefused, EndRollback, FailRollback, SetPosting, Completed
<1>18. ASSUME NEW t \in Tokens, DeleteUnclear(t) PROVE StatusInv'
  BY <1>18 DEF DeleteUnclear, EndRollback, FailRollback, SetPosting, Completed
<1>19. ASSUME NEW t \in Tokens, DeleteAnswered(t) PROVE StatusInv'
  BY <1>19 DEF DeleteAnswered, MarkRolledBack, SetPosting, Completed
<1>20. ASSUME NEW t \in Tokens, DeleteUncaught(t) PROVE StatusInv'
  BY <1>20 DEF DeleteUncaught
<1>21. ASSUME NEW t \in Tokens, TokenExpires(t) PROVE StatusInv'
  BY <1>21 DEF TokenExpires, ExpireToken
<1>22. ASSUME NEW q \in Requests, VerifyMatches(q) PROVE StatusInv'
  BY <1>22 DEF VerifyMatches
<1>23. ASSUME NEW q \in Requests, VerifyFails(q) PROVE StatusInv'
  BY <1>23 DEF VerifyFails, Idle
<1>24. ASSUME NEW q \in Requests, RollbackApproved(q) PROVE StatusInv'
  BY <1>24 DEF RollbackApproved, ConsumeConfirmation, Consumable, ReserveRollback,
     SetPosting, Idle, Completed
<1>25. ASSUME NEW q \in Requests, RollbackDenied(q) PROVE StatusInv'
  BY <1>25 DEF RollbackDenied, Idle
<1>26. ASSUME NEW t \in Tokens, NEW e \in Expenses, ApplyCreate(t, e)
      PROVE StatusInv'
  BY <1>26 DEF ApplyCreate
<1>27. ASSUME NEW t \in Tokens, RefuseCreate(t) PROVE StatusInv'
  BY <1>27 DEF RefuseCreate
<1>28. ASSUME NEW t \in Tokens, ApplyDelete(t) PROVE StatusInv'
  BY <1>28 DEF ApplyDelete
<1>29. ASSUME NEW t \in Tokens, RefuseDelete(t) PROVE StatusInv'
  BY <1>29 DEF RefuseDelete
<1>30. ASSUME NEW e \in Expenses, OthersChange(e) PROVE StatusInv'
  BY <1>30 DEF OthersChange
<1>31. ASSUME NEW e \in Expenses, OthersDelete(e) PROVE StatusInv'
  BY <1>31 DEF OthersDelete
<1>32. ASSUME Crash PROVE StatusInv'
  BY <1>32 DEF Crash, MemoryLost, Idle
<1>33. ASSUME StartUp PROVE StatusInv'
  BY <1>33 DEF StartUp, RecoverInterruptedRuns
<1>34. ASSUME RecoverPostings PROVE StatusInv'
  BY <1>34 DEF RecoverPostings, RecoverInterruptedPostings, RecoveredStatus
<1>35. ASSUME NEW r \in Runs, PreviewKilled(r) PROVE StatusInv'
  BY <1>35 DEF PreviewKilled, ReplaceBillReview, DeleteConfirmations, Row, GateStatus,
     NeedsRepair, MemoryLost, Idle, Reviewable
<1>36. ASSUME NEW r \in Runs, NEW t \in Tokens, PostKilled(r, t) PROVE StatusInv'
  BY <1>36 DEF PostKilled, ConsumeConfirmation, Consumable, MemoryLost, Idle
<1>37. ASSUME NEW q \in Requests, RollbackKilled(q) PROVE StatusInv'
  BY <1>37 DEF RollbackKilled, ConsumeConfirmation, Consumable, MemoryLost, Idle
<1>38. CASE UNCHANGED vars
  BY <1>38 DEF vars
<1> HIDE DEF TypeInv, TypeOK, RepositoryTypeOK, HandlersBound, StatusInv, Unplanned, RunStatus,
      PostingStatus, repoVars, runVars, postingVars, tokenVars, handlerVars, remoteVars,
      historyVars
<1> QED
  BY <1>1, <1>2, <1>3, <1>4, <1>5, <1>6, <1>7, <1>8, <1>9, <1>10, <1>11, <1>12, <1>13,
     <1>14, <1>15, <1>16, <1>17, <1>18, <1>19, <1>20, <1>21, <1>22, <1>23, <1>24, <1>25,
     <1>26, <1>27, <1>28, <1>29, <1>30, <1>31, <1>32, <1>33, <1>34, <1>35, <1>36, <1>37,
     <1>38
     DEF Next, Operator, PostHandler, RollbackHandler, VerifyHandler, Destination, Lifecycle

\* An update that breaks no index leaves the fingerprints unique.
LEMMA PrintsUpdated ==
  ASSUME TypeInv, PrintsInv, NEW r \in Runs, NEW s, NEW b \in Bills, Unique(r, s, b),
         status' = [status EXCEPT ![r] = s], bill' = [bill EXCEPT ![r] = b]
  PROVE PrintsInv'
<1> SUFFICES ASSUME NEW p \in Runs, NEW q \in Runs, p # q,
                    bill'[p] # None, status'[p] # "blocked",
                    bill'[q] # None, status'[q] # "blocked"
             PROVE Fingerprint[bill'[p]] # Fingerprint[bill'[q]]
  BY DEF PrintsInv
<1> USE DEF TypeInv, TypeOK, RepositoryTypeOK
<1>1. CASE p = r
  BY <1>1 DEF Unique, FingerprintFree
<1>2. CASE q = r
  BY <1>2 DEF Unique, FingerprintFree
<1>3. CASE p # r /\ q # r
  BY <1>3 DEF PrintsInv
<1> QED
  BY <1>1, <1>2, <1>3

\* So does any step that keeps the bills and takes no run out of "blocked".
LEMMA PrintsKept ==
  ASSUME PrintsInv, bill' = bill,
         \A q \in Runs : status'[q] # "blocked" => status[q] # "blocked"
  PROVE PrintsInv'
  BY DEF PrintsInv

\* A change of a posting's status takes no run out of "blocked".
LEMMA PrintsOfPosting ==
  ASSUME TypeInv, StatusInv, PrintsInv, NEW r \in Runs, NEW ps, NEW s, SetPosting(r, ps, s),
         status[r] = "ready" \/ pStatus[r] \in Completed \cup {"submitting", "rollback_submitting"}
  PROVE PrintsInv'
<1>1. status[r] # "blocked"
  BY DEF StatusInv, Completed
<1>2. bill' = bill /\ \A q \in Runs : status'[q] # "blocked" => status[q] # "blocked"
  BY <1>1 DEF SetPosting, TypeInv, TypeOK, RepositoryTypeOK
<1> QED
  BY <1>2, PrintsKept

\* No step lets two runs have bills of one fingerprint.
LEMMA PrintsStep ==
    TypeInv /\ StatusInv /\ PrintsInv /\ [Next]_vars => PrintsInv'
<1> SUFFICES ASSUME TypeInv, StatusInv, PrintsInv, [Next]_vars PROVE PrintsInv'
  OBVIOUS
<1> DEFINE Same == UNCHANGED <<status, bill>>
<1>0. ASSUME Same PROVE PrintsInv'
  BY <1>0, PrintsKept
<1>a. ASSUME NEW r \in Runs, NEW b \in Bills, ReplaceBillReview(r, b) PROVE PrintsInv'
  BY <1>a, PrintsUpdated DEF ReplaceBillReview
<1>b. ASSUME NEW r \in Runs, NeedsRepair(r) PROVE Repair[bill[r]] \in Bills
  BY <1>b, NoneIsNoValue, RepairIsIdempotent DEF NeedsRepair, TypeInv, TypeOK, RepositoryTypeOK
<1>d. ASSUME NEW t \in Tokens, hPc[t] # "idle" PROVE tRun[t] \in Runs
  BY <1>d DEF TypeInv, HandlersBound
<1>e. ASSUME NEW q \in Requests, verify[q].pc # "idle" PROVE verify[q].run \in Runs
  BY <1>e DEF TypeInv, HandlersBound
<1>c. ASSUME NEW t \in Tokens, NEW a \in BOOLEAN, hPc[t] # "idle", FailPosting(tRun[t], a)
      PROVE PrintsInv'
  BY <1>c, <1>d, PrintsOfPosting DEF FailPosting
<1> USE DEF repoVars, runVars, postingVars, tokenVars, handlerVars, remoteVars, historyVars
<1>1. ASSUME NEW r \in Runs, NEW b \in Bills, ReviewBill(r, b) PROVE PrintsInv'
  BY <1>1, <1>a DEF ReviewBill
<1>2. ASSUME NEW r \in Runs, NEW h \in Households, CreatePreview(r, h)
      PROVE PrintsInv'
  <2> DEFINE d == DigestOf(r, Repair[bill[r]], h)
  <2>1. d.bill \in Bills
    BY <1>2, NoneIsNoValue, RepairIsIdempotent
       DEF CreatePreview, TypeInv, TypeOK, RepositoryTypeOK, DigestOf
  <2>2. SavePreview(r, d)
    BY <1>2 DEF CreatePreview
  <2> HIDE DEF d
  <2> QED
    BY <2>1, <2>2, PrintsUpdated DEF SavePreview
<1>3. ASSUME NEW r \in Runs, NEW h \in Households, PreviewUnresolved(r, h)
      PROVE PrintsInv'
  BY <1>3, <1>a, <1>b DEF PreviewUnresolved
<1>4. ASSUME NEW r \in Runs, NEW t \in Tokens, RequestConfirmation(r, t)
      PROVE PrintsInv'
  BY <1>4, <1>0 DEF RequestConfirmation, IssueConfirmation
<1>5. ASSUME NEW r \in Runs, NEW t \in Tokens, RequestRollbackConfirmation(r, t)
      PROVE PrintsInv'
  BY <1>5, <1>0 DEF RequestRollbackConfirmation, IssueRollbackConfirmation
<1>6. ASSUME NEW r \in Runs, NEW t \in Tokens, PostRequest(r, t)
      PROVE PrintsInv'
  BY <1>6, PrintsOfPosting DEF PostRequest, ReservePosting
<1>7. ASSUME NEW q \in Requests, NEW r \in Runs, NEW t \in Tokens, RollbackRequest(q, r, t)
      PROVE PrintsInv'
  BY <1>7, <1>0 DEF RollbackRequest
<1>8. ASSUME NEW t \in Tokens, SendCreate(t) PROVE PrintsInv'
  BY <1>8, <1>0 DEF SendCreate
<1>9. ASSUME NEW t \in Tokens, CreateNotSent(t) PROVE PrintsInv'
  BY <1>9, <1>c DEF CreateNotSent, EndPosting
<1>10. ASSUME NEW t \in Tokens, CreateRefused(t) PROVE PrintsInv'
  BY <1>10, <1>c DEF CreateRefused, EndPosting
<1>11. ASSUME NEW t \in Tokens, CreateUnclear(t) PROVE PrintsInv'
  BY <1>11, <1>c DEF CreateUnclear, EndPosting
<1>12. ASSUME NEW t \in Tokens, NEW e \in Expenses, CreateAnswered(t, e)
      PROVE PrintsInv'
  BY <1>12, <1>0 DEF CreateAnswered
<1>13. ASSUME NEW t \in Tokens, CreateUncaught(t) PROVE PrintsInv'
  BY <1>13, <1>0 DEF CreateUncaught
<1>14. ASSUME NEW t \in Tokens, NEW verified \in BOOLEAN, ReadBack(t, verified)
      PROVE PrintsInv'
  BY <1>14, <1>d, PrintsOfPosting DEF ReadBack, CompletePosting
<1>15. ASSUME NEW t \in Tokens, SendDelete(t) PROVE PrintsInv'
  BY <1>15, <1>0 DEF SendDelete
<1>16. ASSUME NEW t \in Tokens, DeleteNotSent(t) PROVE PrintsInv'
  BY <1>16, <1>d, PrintsOfPosting DEF DeleteNotSent, EndRollback, FailRollback
<1>17. ASSUME NEW t \in Tokens, DeleteRefused(t) PROVE PrintsInv'
  BY <1>17, <1>d, PrintsOfPosting DEF DeleteRefused, EndRollback, FailRollback
<1>18. ASSUME NEW t \in Tokens, DeleteUnclear(t) PROVE PrintsInv'
  BY <1>18, <1>d, PrintsOfPosting DEF DeleteUnclear, EndRollback, FailRollback
<1>19. ASSUME NEW t \in Tokens, DeleteAnswered(t) PROVE PrintsInv'
  BY <1>19, <1>d, PrintsOfPosting DEF DeleteAnswered, MarkRolledBack
<1>20. ASSUME NEW t \in Tokens, DeleteUncaught(t) PROVE PrintsInv'
  BY <1>20, <1>0 DEF DeleteUncaught
<1>21. ASSUME NEW t \in Tokens, TokenExpires(t) PROVE PrintsInv'
  BY <1>21, <1>0 DEF TokenExpires, ExpireToken
<1>22. ASSUME NEW q \in Requests, VerifyMatches(q) PROVE PrintsInv'
  BY <1>22, <1>0 DEF VerifyMatches
<1>23. ASSUME NEW q \in Requests, VerifyFails(q) PROVE PrintsInv'
  BY <1>23, <1>0 DEF VerifyFails
<1>24. ASSUME NEW q \in Requests, RollbackApproved(q) PROVE PrintsInv'
  BY <1>24, <1>e, PrintsOfPosting DEF RollbackApproved, ReserveRollback
<1>25. ASSUME NEW q \in Requests, RollbackDenied(q) PROVE PrintsInv'
  BY <1>25, <1>0 DEF RollbackDenied
<1>26. ASSUME NEW t \in Tokens, NEW e \in Expenses, ApplyCreate(t, e)
      PROVE PrintsInv'
  BY <1>26, <1>0 DEF ApplyCreate
<1>27. ASSUME NEW t \in Tokens, RefuseCreate(t) PROVE PrintsInv'
  BY <1>27, <1>0 DEF RefuseCreate
<1>28. ASSUME NEW t \in Tokens, ApplyDelete(t) PROVE PrintsInv'
  BY <1>28, <1>0 DEF ApplyDelete
<1>29. ASSUME NEW t \in Tokens, RefuseDelete(t) PROVE PrintsInv'
  BY <1>29, <1>0 DEF RefuseDelete
<1>30. ASSUME NEW e \in Expenses, OthersChange(e) PROVE PrintsInv'
  BY <1>30, <1>0 DEF OthersChange
<1>31. ASSUME NEW e \in Expenses, OthersDelete(e) PROVE PrintsInv'
  BY <1>31, <1>0 DEF OthersDelete
<1>32. ASSUME Crash PROVE PrintsInv'
  BY <1>32, <1>0 DEF Crash
<1>33. ASSUME StartUp PROVE PrintsInv'
  BY <1>33, PrintsKept DEF StartUp, RecoverInterruptedRuns
<1>34. ASSUME RecoverPostings PROVE PrintsInv'
  <2>1. bill' = bill /\ \A q \in Runs : status'[q] # "blocked" => status[q] # "blocked"
    BY <1>34 DEF RecoverPostings, RecoverInterruptedPostings, StatusInv
  <2> QED
    BY <2>1, PrintsKept
<1>35. ASSUME NEW r \in Runs, PreviewKilled(r) PROVE PrintsInv'
  BY <1>35, <1>a, <1>b DEF PreviewKilled
<1>36. ASSUME NEW r \in Runs, NEW t \in Tokens, PostKilled(r, t) PROVE PrintsInv'
  BY <1>36, <1>0 DEF PostKilled
<1>37. ASSUME NEW q \in Requests, RollbackKilled(q) PROVE PrintsInv'
  BY <1>37, <1>0 DEF RollbackKilled
<1>38. CASE UNCHANGED vars
  BY <1>38, <1>0 DEF vars
<1> HIDE DEF Same, repoVars, runVars, postingVars, tokenVars, handlerVars, remoteVars, historyVars
<1> QED
  BY <1>1, <1>2, <1>3, <1>4, <1>5, <1>6, <1>7, <1>8, <1>9, <1>10, <1>11, <1>12, <1>13,
     <1>14, <1>15, <1>16, <1>17, <1>18, <1>19, <1>20, <1>21, <1>22, <1>23, <1>24, <1>25,
     <1>26, <1>27, <1>28, <1>29, <1>30, <1>31, <1>32, <1>33, <1>34, <1>35, <1>36, <1>37,
     <1>38
     DEF Next, Operator, PostHandler, RollbackHandler, VerifyHandler, Destination, Lifecycle

\* replace_bill_review and save_preview find no posting but a failed one.
LEMMA EditableIsUnposted ==
  ASSUME TypeInv, StatusInv, NEW r \in Runs, status[r] \in Reviewable \cup
        Previewable
  PROVE pStatus[r] \in {"none", "failed"}
  BY DEF TypeInv, TypeOK, RepositoryTypeOK, PostingStatus, StatusInv, Unplanned, Reviewable,
     Previewable

-----------------------------------------------------------------------------
(* Attempts to create *)

\* Every step keeps the account of the attempts to create.
LEMMA AttemptStep ==
    TypeInv /\ AttemptInv /\ [Next]_vars => AttemptInv'
<1> SUFFICES ASSUME TypeInv, AttemptInv, [Next]_vars PROVE AttemptInv'
  OBVIOUS
<1> USE NoneIsNoValue DEF TypeInv, TypeOK, RepositoryTypeOK, HandlersBound, AttemptInv,
      FreshTokens, OneAttempt, AttemptPhases, DownIsIdle, Counts, Creating, Deleting,
      HandlerPc, repoVars, runVars, postingVars, tokenVars, handlerVars, remoteVars,
      historyVars
<1>1. ASSUME NEW r \in Runs, NEW b \in Bills, ReviewBill(r, b) PROVE AttemptInv'
  BY <1>1 DEF ReviewBill, ReplaceBillReview, DeleteConfirmations, Row, GateStatus
<1>2. ASSUME NEW r \in Runs, NEW h \in Households, CreatePreview(r, h) PROVE AttemptInv'
  BY <1>2 DEF CreatePreview, SavePreview, DeleteConfirmations, Row, Audit, PreviewFact,
     DigestOf, Facts, Digests, Blocked
<1>3. ASSUME NEW r \in Runs, NEW h \in Households, PreviewUnresolved(r, h) PROVE AttemptInv'
  BY <1>3 DEF PreviewUnresolved, ReplaceBillReview, DeleteConfirmations, Row, GateStatus,
     NeedsRepair
<1>4. ASSUME NEW r \in Runs, NEW t \in Tokens, RequestConfirmation(r, t) PROVE AttemptInv'
  BY <1>4 DEF RequestConfirmation, IssueConfirmation, InsertToken, Row
<1>5. ASSUME NEW r \in Runs, NEW t \in Tokens, RequestRollbackConfirmation(r, t)
      PROVE AttemptInv'
  BY <1>5 DEF RequestRollbackConfirmation, IssueRollbackConfirmation, InsertToken, Row
<1>6. ASSUME NEW r \in Runs, NEW t \in Tokens, PostRequest(r, t) PROVE AttemptInv'
  BY <1>6 DEF PostRequest, ConsumeConfirmation, Consumable, ReservePosting, SetPosting,
     MayPost, ValidPlan
<1>7. ASSUME NEW q \in Requests, NEW r \in Runs, NEW t \in Tokens, RollbackRequest(q, r, t)
      PROVE AttemptInv'
  BY <1>7 DEF RollbackRequest, ValidPlan, Completed
<1>8. ASSUME NEW t \in Tokens, SendCreate(t) PROVE AttemptInv'
  BY <1>8 DEF SendCreate
<1>9. ASSUME NEW t \in Tokens, CreateNotSent(t) PROVE AttemptInv'
  BY <1>9 DEF CreateNotSent, EndPosting, FailPosting, SetPosting
<1>10. ASSUME NEW t \in Tokens, CreateRefused(t) PROVE AttemptInv'
  BY <1>10 DEF CreateRefused, EndPosting, FailPosting, SetPosting
<1>11. ASSUME NEW t \in Tokens, CreateUnclear(t) PROVE AttemptInv'
  BY <1>11 DEF CreateUnclear, EndPosting, FailPosting, SetPosting
<1>12. ASSUME NEW t \in Tokens, NEW e \in Expenses, CreateAnswered(t, e) PROVE AttemptInv'
  BY <1>12 DEF CreateAnswered
<1>13. ASSUME NEW t \in Tokens, CreateUncaught(t) PROVE AttemptInv'
  BY <1>13 DEF CreateUncaught
<1>14. ASSUME NEW t \in Tokens, NEW verified \in BOOLEAN, ReadBack(t, verified)
      PROVE AttemptInv'
  BY <1>14 DEF ReadBack, CompletePosting, SetPosting, Audit, CompletedFact, Facts
<1>15. ASSUME NEW t \in Tokens, SendDelete(t) PROVE AttemptInv'
  BY <1>15 DEF SendDelete
<1>16. ASSUME NEW t \in Tokens, DeleteNotSent(t) PROVE AttemptInv'
  BY <1>16 DEF DeleteNotSent, EndRollback, FailRollback, SetPosting, Completed
<1>17. ASSUME NEW t \in Tokens, DeleteRefused(t) PROVE AttemptInv'
  BY <1>17 DEF DeleteRefused, EndRollback, FailRollback, SetPosting, Completed
<1>18. ASSUME NEW t \in Tokens, DeleteUnclear(t) PROVE AttemptInv'
  BY <1>18 DEF DeleteUnclear, EndRollback, FailRollback, SetPosting, Completed
<1>19. ASSUME NEW t \in Tokens, DeleteAnswered(t) PROVE AttemptInv'
  BY <1>19 DEF DeleteAnswered, MarkRolledBack, SetPosting, Completed
<1>20. ASSUME NEW t \in Tokens, DeleteUncaught(t) PROVE AttemptInv'
  BY <1>20 DEF DeleteUncaught
<1>21. ASSUME NEW t \in Tokens, TokenExpires(t) PROVE AttemptInv'
  BY <1>21 DEF TokenExpires, ExpireToken
<1>22. ASSUME NEW q \in Requests, VerifyMatches(q) PROVE AttemptInv'
  BY <1>22 DEF VerifyMatches
<1>23. ASSUME NEW q \in Requests, VerifyFails(q) PROVE AttemptInv'
  BY <1>23 DEF VerifyFails, Idle
<1>24. ASSUME NEW q \in Requests, RollbackApproved(q) PROVE AttemptInv'
  BY <1>24 DEF RollbackApproved, ConsumeConfirmation, Consumable, ReserveRollback,
     SetPosting, Idle, Completed
<1>25. ASSUME NEW q \in Requests, RollbackDenied(q) PROVE AttemptInv'
  BY <1>25 DEF RollbackDenied, Idle
<1>26. ASSUME NEW t \in Tokens, NEW e \in Expenses, ApplyCreate(t, e) PROVE AttemptInv'
  BY <1>26 DEF ApplyCreate
<1>27. ASSUME NEW t \in Tokens, RefuseCreate(t) PROVE AttemptInv'
  BY <1>27 DEF RefuseCreate
<1>28. ASSUME NEW t \in Tokens, ApplyDelete(t) PROVE AttemptInv'
  BY <1>28 DEF ApplyDelete
<1>29. ASSUME NEW t \in Tokens, RefuseDelete(t) PROVE AttemptInv'
  BY <1>29 DEF RefuseDelete
<1>30. ASSUME NEW e \in Expenses, OthersChange(e) PROVE AttemptInv'
  BY <1>30 DEF OthersChange
<1>31. ASSUME NEW e \in Expenses, OthersDelete(e) PROVE AttemptInv'
  BY <1>31 DEF OthersDelete
<1>32. ASSUME Crash PROVE AttemptInv'
  BY <1>32 DEF Crash, MemoryLost, Idle
<1>33. ASSUME StartUp PROVE AttemptInv'
  BY <1>33 DEF StartUp, RecoverInterruptedRuns
<1>34. ASSUME RecoverPostings PROVE AttemptInv'
  BY <1>34 DEF RecoverPostings, RecoverInterruptedPostings, RecoveredStatus
<1>35. ASSUME NEW r \in Runs, PreviewKilled(r) PROVE AttemptInv'
  BY <1>35 DEF PreviewKilled, ReplaceBillReview, DeleteConfirmations, Row, GateStatus,
     NeedsRepair, MemoryLost, Idle
<1>36. ASSUME NEW r \in Runs, NEW t \in Tokens, PostKilled(r, t) PROVE AttemptInv'
  BY <1>36 DEF PostKilled, ConsumeConfirmation, Consumable, MemoryLost, Idle
<1>37. ASSUME NEW q \in Requests, RollbackKilled(q) PROVE AttemptInv'
  BY <1>37 DEF RollbackKilled, ConsumeConfirmation, Consumable, MemoryLost, Idle
<1>38. CASE UNCHANGED vars
  BY <1>38 DEF vars
<1> HIDE DEF TypeInv, TypeOK, RepositoryTypeOK, HandlersBound, AttemptInv, FreshTokens,
      OneAttempt, AttemptPhases, DownIsIdle, Counts, Creating, Deleting, HandlerPc,
      repoVars, runVars, postingVars, tokenVars, handlerVars, remoteVars, historyVars
<1> QED
  BY <1>1, <1>2, <1>3, <1>4, <1>5, <1>6, <1>7, <1>8, <1>9, <1>10, <1>11, <1>12, <1>13,
     <1>14, <1>15, <1>16, <1>17, <1>18, <1>19, <1>20, <1>21, <1>22, <1>23, <1>24, <1>25,
     <1>26, <1>27, <1>28, <1>29, <1>30, <1>31, <1>32, <1>33, <1>34, <1>35, <1>36, <1>37,
     <1>38
     DEF Next, Operator, PostHandler, RollbackHandler, VerifyHandler, Destination, Lifecycle

\* A change of the plan deletes the tokens that approved the old one.
LEMMA ApprovalStep ==
    TypeInv /\ StatusInv /\ ApprovalInv /\ [Next]_vars => ApprovalInv'
<1> SUFFICES ASSUME TypeInv, StatusInv, ApprovalInv, [Next]_vars PROVE ApprovalInv'
  OBVIOUS
<1> USE NoneIsNoValue DEF TypeInv, TypeOK, RepositoryTypeOK, HandlersBound,
      StatusInv, Unplanned, ApprovalInv, Live, Completed, Row, repoVars, runVars, postingVars,
      tokenVars, handlerVars, remoteVars, historyVars
<1>1. ASSUME NEW r \in Runs, NEW b \in Bills, ReviewBill(r, b) PROVE ApprovalInv'
  BY <1>1 DEF ReviewBill, ReplaceBillReview, DeleteConfirmations, GateStatus
<1>2. ASSUME NEW r \in Runs, NEW h \in Households, CreatePreview(r, h) PROVE ApprovalInv'
  BY <1>2 DEF CreatePreview, SavePreview, DeleteConfirmations, Audit, PreviewFact, DigestOf,
     Facts, Digests, Blocked
<1>3. ASSUME NEW r \in Runs, NEW h \in Households, PreviewUnresolved(r, h)
      PROVE ApprovalInv'
  BY <1>3 DEF PreviewUnresolved, ReplaceBillReview, DeleteConfirmations, GateStatus,
     NeedsRepair
<1>4. ASSUME NEW r \in Runs, NEW t \in Tokens, RequestConfirmation(r, t) PROVE ApprovalInv'
  BY <1>4 DEF RequestConfirmation, IssueConfirmation, InsertToken
<1>5. ASSUME NEW r \in Runs, NEW t \in Tokens, RequestRollbackConfirmation(r, t)
      PROVE ApprovalInv'
  BY <1>5 DEF RequestRollbackConfirmation, IssueRollbackConfirmation, InsertToken
<1>6. ASSUME NEW r \in Runs, NEW t \in Tokens, PostRequest(r, t) PROVE ApprovalInv'
  BY <1>6 DEF PostRequest, ConsumeConfirmation, Consumable, ReservePosting, SetPosting,
     MayPost, ValidPlan
<1>7. ASSUME NEW q \in Requests, NEW r \in Runs, NEW t \in Tokens, RollbackRequest(q, r, t)
      PROVE ApprovalInv'
  BY <1>7 DEF RollbackRequest, ValidPlan
<1>8. ASSUME NEW t \in Tokens, SendCreate(t) PROVE ApprovalInv'
  BY <1>8 DEF SendCreate
<1>9. ASSUME NEW t \in Tokens, CreateNotSent(t) PROVE ApprovalInv'
  BY <1>9 DEF CreateNotSent, EndPosting, FailPosting, SetPosting
<1>10. ASSUME NEW t \in Tokens, CreateRefused(t) PROVE ApprovalInv'
  BY <1>10 DEF CreateRefused, EndPosting, FailPosting, SetPosting
<1>11. ASSUME NEW t \in Tokens, CreateUnclear(t) PROVE ApprovalInv'
  BY <1>11 DEF CreateUnclear, EndPosting, FailPosting, SetPosting
<1>12. ASSUME NEW t \in Tokens, NEW e \in Expenses, CreateAnswered(t, e) PROVE ApprovalInv'
  BY <1>12 DEF CreateAnswered
<1>13. ASSUME NEW t \in Tokens, CreateUncaught(t) PROVE ApprovalInv'
  BY <1>13 DEF CreateUncaught
<1>14. ASSUME NEW t \in Tokens, NEW verified \in BOOLEAN, ReadBack(t, verified)
      PROVE ApprovalInv'
  BY <1>14 DEF ReadBack, CompletePosting, SetPosting, Audit, CompletedFact, Facts
<1>15. ASSUME NEW t \in Tokens, SendDelete(t) PROVE ApprovalInv'
  BY <1>15 DEF SendDelete
<1>16. ASSUME NEW t \in Tokens, DeleteNotSent(t) PROVE ApprovalInv'
  BY <1>16 DEF DeleteNotSent, EndRollback, FailRollback, SetPosting
<1>17. ASSUME NEW t \in Tokens, DeleteRefused(t) PROVE ApprovalInv'
  BY <1>17 DEF DeleteRefused, EndRollback, FailRollback, SetPosting
<1>18. ASSUME NEW t \in Tokens, DeleteUnclear(t) PROVE ApprovalInv'
  BY <1>18 DEF DeleteUnclear, EndRollback, FailRollback, SetPosting
<1>19. ASSUME NEW t \in Tokens, DeleteAnswered(t) PROVE ApprovalInv'
  BY <1>19 DEF DeleteAnswered, MarkRolledBack, SetPosting
<1>20. ASSUME NEW t \in Tokens, DeleteUncaught(t) PROVE ApprovalInv'
  BY <1>20 DEF DeleteUncaught
<1>21. ASSUME NEW t \in Tokens, TokenExpires(t) PROVE ApprovalInv'
  BY <1>21 DEF TokenExpires, ExpireToken
<1>22. ASSUME NEW q \in Requests, VerifyMatches(q) PROVE ApprovalInv'
  BY <1>22 DEF VerifyMatches
<1>23. ASSUME NEW q \in Requests, VerifyFails(q) PROVE ApprovalInv'
  BY <1>23 DEF VerifyFails, Idle
<1>24. ASSUME NEW q \in Requests, RollbackApproved(q) PROVE ApprovalInv'
  BY <1>24 DEF RollbackApproved, ConsumeConfirmation, Consumable, ReserveRollback,
     SetPosting, Idle
<1>25. ASSUME NEW q \in Requests, RollbackDenied(q) PROVE ApprovalInv'
  BY <1>25 DEF RollbackDenied, Idle
<1>26. ASSUME NEW t \in Tokens, NEW e \in Expenses, ApplyCreate(t, e) PROVE ApprovalInv'
  BY <1>26 DEF ApplyCreate
<1>27. ASSUME NEW t \in Tokens, RefuseCreate(t) PROVE ApprovalInv'
  BY <1>27 DEF RefuseCreate
<1>28. ASSUME NEW t \in Tokens, ApplyDelete(t) PROVE ApprovalInv'
  BY <1>28 DEF ApplyDelete
<1>29. ASSUME NEW t \in Tokens, RefuseDelete(t) PROVE ApprovalInv'
  BY <1>29 DEF RefuseDelete
<1>30. ASSUME NEW e \in Expenses, OthersChange(e) PROVE ApprovalInv'
  BY <1>30 DEF OthersChange
<1>31. ASSUME NEW e \in Expenses, OthersDelete(e) PROVE ApprovalInv'
  BY <1>31 DEF OthersDelete
<1>32. ASSUME Crash PROVE ApprovalInv'
  BY <1>32 DEF Crash, MemoryLost, Idle
<1>33. ASSUME StartUp PROVE ApprovalInv'
  BY <1>33 DEF StartUp, RecoverInterruptedRuns
<1>34. ASSUME RecoverPostings PROVE ApprovalInv'
  BY <1>34 DEF RecoverPostings, RecoverInterruptedPostings, RecoveredStatus
<1>35. ASSUME NEW r \in Runs, PreviewKilled(r) PROVE ApprovalInv'
  BY <1>35 DEF PreviewKilled, ReplaceBillReview, DeleteConfirmations, GateStatus,
     NeedsRepair, MemoryLost, Idle
<1>36. ASSUME NEW r \in Runs, NEW t \in Tokens, PostKilled(r, t) PROVE ApprovalInv'
  BY <1>36 DEF PostKilled, ConsumeConfirmation, Consumable, MemoryLost, Idle
<1>37. ASSUME NEW q \in Requests, RollbackKilled(q) PROVE ApprovalInv'
  BY <1>37 DEF RollbackKilled, ConsumeConfirmation, Consumable, MemoryLost, Idle
<1>38. CASE UNCHANGED vars
  BY <1>38 DEF vars
<1> HIDE DEF TypeInv, TypeOK, RepositoryTypeOK, HandlersBound, StatusInv, Unplanned,
      ApprovalInv, Live, Completed, Row, repoVars, runVars, postingVars, tokenVars,
      handlerVars, remoteVars, historyVars
<1> QED
  BY <1>1, <1>2, <1>3, <1>4, <1>5, <1>6, <1>7, <1>8, <1>9, <1>10, <1>11, <1>12, <1>13,
     <1>14, <1>15, <1>16, <1>17, <1>18, <1>19, <1>20, <1>21, <1>22, <1>23, <1>24, <1>25,
     <1>26, <1>27, <1>28, <1>29, <1>30, <1>31, <1>32, <1>33, <1>34, <1>35, <1>36, <1>37,
     <1>38
     DEF Next, Operator, PostHandler, RollbackHandler, VerifyHandler, Destination, Lifecycle

\* A review or a preview changes the plan of a run no create of which is under way.
LEMMA PayloadReviewed ==
  ASSUME TypeInv, StatusInv, AttemptInv, PayloadInv,
         NEW r \in Runs, status[r] \in Reviewable \cup Previewable,
         \A x \in Runs \ {r} : plan'[x] = plan[x] /\ bill'[x] = bill[x],
         \A t \in Tokens : hPc'[t] \in {hPc[t], "idle"},
         UNCHANGED <<postingVars, tRun, tDigest, hPayload, creates, eToken, historyVars>>
  PROVE PayloadInv'
<1>1. pStatus[r] \in {"none", "failed"}
  BY EditableIsUnposted
<1>2. ASSUME NEW t \in Tokens, Creating(t) \/ Counts(t)
      PROVE tRun[t] # r /\ tRun[t] \in Runs
  BY <1>1, <1>2 DEF AttemptInv, FreshTokens, OneAttempt, TypeInv, HandlersBound, TypeOK,
     RepositoryTypeOK, Creating
<1> QED
  BY <1>2 DEF PayloadInv, Creating, Counts, postingVars, historyVars

\* Nothing changes the plan of a run while a create of it is under way or done.
LEMMA PayloadStep ==
    TypeInv /\ StatusInv /\ AttemptInv /\ ApprovalInv /\ PayloadInv /\ [Next]_vars
        => PayloadInv'
<1> SUFFICES ASSUME TypeInv, StatusInv, AttemptInv, ApprovalInv, PayloadInv,
      [Next]_vars
      PROVE PayloadInv'
  OBVIOUS
<1> USE NoneIsNoValue DEF TypeInv, TypeOK, RepositoryTypeOK, HandlersBound,
      StatusInv, Unplanned, AttemptInv, FreshTokens, OneAttempt, ApprovalInv, Live, Completed,
      PayloadInv, Counts, Creating, repoVars, runVars, postingVars, tokenVars, handlerVars,
      remoteVars, historyVars
<1>1. ASSUME NEW r \in Runs, NEW b \in Bills, ReviewBill(r, b) PROVE PayloadInv'
  BY <1>1, PayloadReviewed DEF ReviewBill, ReplaceBillReview, DeleteConfirmations
<1>2. ASSUME NEW r \in Runs, NEW h \in Households, CreatePreview(r, h) PROVE PayloadInv'
  BY <1>2, PayloadReviewed DEF CreatePreview, SavePreview, DeleteConfirmations
<1>3. ASSUME NEW r \in Runs, NEW h \in Households, PreviewUnresolved(r, h) PROVE PayloadInv'
  BY <1>3, PayloadReviewed DEF PreviewUnresolved, ReplaceBillReview, DeleteConfirmations
<1>4. ASSUME NEW r \in Runs, NEW t \in Tokens, RequestConfirmation(r, t) PROVE PayloadInv'
  BY <1>4 DEF RequestConfirmation, IssueConfirmation, InsertToken, Row
<1>5. ASSUME NEW r \in Runs, NEW t \in Tokens, RequestRollbackConfirmation(r, t)
      PROVE PayloadInv'
  BY <1>5 DEF RequestRollbackConfirmation, IssueRollbackConfirmation, InsertToken, Row
<1>6. ASSUME NEW r \in Runs, NEW t \in Tokens, PostRequest(r, t) PROVE PayloadInv'
  BY <1>6 DEF PostRequest, ConsumeConfirmation, Consumable, ReservePosting, SetPosting,
     MayPost, ValidPlan
<1>7. ASSUME NEW q \in Requests, NEW r \in Runs, NEW t \in Tokens, RollbackRequest(q, r, t)
      PROVE PayloadInv'
  BY <1>7 DEF RollbackRequest, ValidPlan
<1>8. ASSUME NEW t \in Tokens, SendCreate(t) PROVE PayloadInv'
  BY <1>8 DEF SendCreate
<1>9. ASSUME NEW t \in Tokens, CreateNotSent(t) PROVE PayloadInv'
  BY <1>9 DEF CreateNotSent, EndPosting, FailPosting, SetPosting
<1>10. ASSUME NEW t \in Tokens, CreateRefused(t) PROVE PayloadInv'
  BY <1>10 DEF CreateRefused, EndPosting, FailPosting, SetPosting
<1>11. ASSUME NEW t \in Tokens, CreateUnclear(t) PROVE PayloadInv'
  BY <1>11 DEF CreateUnclear, EndPosting, FailPosting, SetPosting
<1>12. ASSUME NEW t \in Tokens, NEW e \in Expenses, CreateAnswered(t, e) PROVE PayloadInv'
  BY <1>12 DEF CreateAnswered
<1>13. ASSUME NEW t \in Tokens, CreateUncaught(t) PROVE PayloadInv'
  BY <1>13 DEF CreateUncaught
<1>14. ASSUME NEW t \in Tokens, NEW verified \in BOOLEAN, ReadBack(t, verified)
      PROVE PayloadInv'
  BY <1>14 DEF ReadBack, CompletePosting, SetPosting, Audit, CompletedFact, Facts
<1>15. ASSUME NEW t \in Tokens, SendDelete(t) PROVE PayloadInv'
  BY <1>15 DEF SendDelete
<1>16. ASSUME NEW t \in Tokens, DeleteNotSent(t) PROVE PayloadInv'
  BY <1>16 DEF DeleteNotSent, EndRollback, FailRollback, SetPosting
<1>17. ASSUME NEW t \in Tokens, DeleteRefused(t) PROVE PayloadInv'
  BY <1>17 DEF DeleteRefused, EndRollback, FailRollback, SetPosting
<1>18. ASSUME NEW t \in Tokens, DeleteUnclear(t) PROVE PayloadInv'
  BY <1>18 DEF DeleteUnclear, EndRollback, FailRollback, SetPosting
<1>19. ASSUME NEW t \in Tokens, DeleteAnswered(t) PROVE PayloadInv'
  BY <1>19 DEF DeleteAnswered, MarkRolledBack, SetPosting
<1>20. ASSUME NEW t \in Tokens, DeleteUncaught(t) PROVE PayloadInv'
  BY <1>20 DEF DeleteUncaught
<1>21. ASSUME NEW t \in Tokens, TokenExpires(t) PROVE PayloadInv'
  BY <1>21 DEF TokenExpires, ExpireToken
<1>22. ASSUME NEW q \in Requests, VerifyMatches(q) PROVE PayloadInv'
  BY <1>22 DEF VerifyMatches
<1>23. ASSUME NEW q \in Requests, VerifyFails(q) PROVE PayloadInv'
  BY <1>23 DEF VerifyFails, Idle
<1>24. ASSUME NEW q \in Requests, RollbackApproved(q) PROVE PayloadInv'
  BY <1>24 DEF RollbackApproved, ConsumeConfirmation, Consumable, ReserveRollback,
     SetPosting, Idle
<1>25. ASSUME NEW q \in Requests, RollbackDenied(q) PROVE PayloadInv'
  BY <1>25 DEF RollbackDenied, Idle
<1>26. ASSUME NEW t \in Tokens, NEW e \in Expenses, ApplyCreate(t, e) PROVE PayloadInv'
  BY <1>26 DEF ApplyCreate
<1>27. ASSUME NEW t \in Tokens, RefuseCreate(t) PROVE PayloadInv'
  BY <1>27 DEF RefuseCreate
<1>28. ASSUME NEW t \in Tokens, ApplyDelete(t) PROVE PayloadInv'
  BY <1>28 DEF ApplyDelete
<1>29. ASSUME NEW t \in Tokens, RefuseDelete(t) PROVE PayloadInv'
  BY <1>29 DEF RefuseDelete
<1>30. ASSUME NEW e \in Expenses, OthersChange(e) PROVE PayloadInv'
  BY <1>30 DEF OthersChange
<1>31. ASSUME NEW e \in Expenses, OthersDelete(e) PROVE PayloadInv'
  BY <1>31 DEF OthersDelete
<1>32. ASSUME Crash PROVE PayloadInv'
  BY <1>32 DEF Crash, MemoryLost, Idle
<1>33. ASSUME StartUp PROVE PayloadInv'
  BY <1>33 DEF StartUp, RecoverInterruptedRuns
<1>34. ASSUME RecoverPostings PROVE PayloadInv'
  BY <1>34 DEF RecoverPostings, RecoverInterruptedPostings, RecoveredStatus
<1>35. ASSUME NEW r \in Runs, PreviewKilled(r) PROVE PayloadInv'
  BY <1>35, PayloadReviewed DEF PreviewKilled, ReplaceBillReview, DeleteConfirmations,
     MemoryLost
<1>36. ASSUME NEW r \in Runs, NEW t \in Tokens, PostKilled(r, t) PROVE PayloadInv'
  BY <1>36 DEF PostKilled, ConsumeConfirmation, Consumable, MemoryLost, Idle
<1>37. ASSUME NEW q \in Requests, RollbackKilled(q) PROVE PayloadInv'
  BY <1>37 DEF RollbackKilled, ConsumeConfirmation, Consumable, MemoryLost, Idle
<1>38. CASE UNCHANGED vars
  BY <1>38 DEF vars
<1> HIDE DEF TypeInv, TypeOK, RepositoryTypeOK, HandlersBound, StatusInv, Unplanned,
      AttemptInv, FreshTokens, OneAttempt, ApprovalInv, Live, Completed, PayloadInv, Counts,
      Creating, repoVars, runVars, postingVars, tokenVars, handlerVars, remoteVars,
      historyVars
<1> QED
  BY <1>1, <1>2, <1>3, <1>4, <1>5, <1>6, <1>7, <1>8, <1>9, <1>10, <1>11, <1>12, <1>13,
     <1>14, <1>15, <1>16, <1>17, <1>18, <1>19, <1>20, <1>21, <1>22, <1>23, <1>24, <1>25,
     <1>26, <1>27, <1>28, <1>29, <1>30, <1>31, <1>32, <1>33, <1>34, <1>35, <1>36, <1>37,
     <1>38
     DEF Next, Operator, PostHandler, RollbackHandler, VerifyHandler, Destination, Lifecycle

\* Only what has a destination group gets to the wire.
LEMMA WireStep ==
    TypeInv /\ AttemptInv /\ VerifyInv /\ WireInv /\ [Next]_vars => WireInv'
<1> SUFFICES ASSUME TypeInv, AttemptInv, VerifyInv, WireInv, [Next]_vars PROVE WireInv'
  OBVIOUS
<1> USE NoneIsNoValue DEF TypeInv, TypeOK, RepositoryTypeOK, HandlersBound, AttemptInv,
      FreshTokens, VerifyInv, WireInv, Delivered, Creating, Deleting, ValidPlan, repoVars,
      runVars, postingVars, tokenVars, handlerVars, remoteVars, historyVars
<1>1. ASSUME NEW r \in Runs, NEW b \in Bills, ReviewBill(r, b) PROVE WireInv'
  BY <1>1 DEF ReviewBill, ReplaceBillReview, DeleteConfirmations, Row, GateStatus
<1>2. ASSUME NEW r \in Runs, NEW h \in Households, CreatePreview(r, h) PROVE WireInv'
  BY <1>2 DEF CreatePreview, SavePreview, DeleteConfirmations, Row, Audit, PreviewFact,
     DigestOf, Facts, Digests, Blocked
<1>3. ASSUME NEW r \in Runs, NEW h \in Households, PreviewUnresolved(r, h) PROVE WireInv'
  BY <1>3 DEF PreviewUnresolved, ReplaceBillReview, DeleteConfirmations, Row, GateStatus,
     NeedsRepair
<1>4. ASSUME NEW r \in Runs, NEW t \in Tokens, RequestConfirmation(r, t) PROVE WireInv'
  BY <1>4 DEF RequestConfirmation, IssueConfirmation, InsertToken, Row
<1>5. ASSUME NEW r \in Runs, NEW t \in Tokens, RequestRollbackConfirmation(r, t)
      PROVE WireInv'
  BY <1>5 DEF RequestRollbackConfirmation, IssueRollbackConfirmation, InsertToken, Row
<1>6. ASSUME NEW r \in Runs, NEW t \in Tokens, PostRequest(r, t) PROVE WireInv'
  BY <1>6 DEF PostRequest, ConsumeConfirmation, Consumable, ReservePosting, SetPosting,
     MayPost
<1>7. ASSUME NEW q \in Requests, NEW r \in Runs, NEW t \in Tokens, RollbackRequest(q, r, t)
      PROVE WireInv'
  BY <1>7 DEF RollbackRequest, Completed
<1>8. ASSUME NEW t \in Tokens, SendCreate(t) PROVE WireInv'
  BY <1>8 DEF SendCreate
<1>9. ASSUME NEW t \in Tokens, CreateNotSent(t) PROVE WireInv'
  BY <1>9 DEF CreateNotSent, EndPosting, FailPosting, SetPosting
<1>10. ASSUME NEW t \in Tokens, CreateRefused(t) PROVE WireInv'
  BY <1>10 DEF CreateRefused, EndPosting, FailPosting, SetPosting
<1>11. ASSUME NEW t \in Tokens, CreateUnclear(t) PROVE WireInv'
  BY <1>11 DEF CreateUnclear, EndPosting, FailPosting, SetPosting
<1>12. ASSUME NEW t \in Tokens, NEW e \in Expenses, CreateAnswered(t, e) PROVE WireInv'
  BY <1>12 DEF CreateAnswered
<1>13. ASSUME NEW t \in Tokens, CreateUncaught(t) PROVE WireInv'
  BY <1>13 DEF CreateUncaught
<1>14. ASSUME NEW t \in Tokens, NEW verified \in BOOLEAN, ReadBack(t, verified)
      PROVE WireInv'
  BY <1>14 DEF ReadBack, CompletePosting, SetPosting, Audit, CompletedFact, Facts
<1>15. ASSUME NEW t \in Tokens, SendDelete(t) PROVE WireInv'
  BY <1>15 DEF SendDelete
<1>16. ASSUME NEW t \in Tokens, DeleteNotSent(t) PROVE WireInv'
  BY <1>16 DEF DeleteNotSent, EndRollback, FailRollback, SetPosting, Completed
<1>17. ASSUME NEW t \in Tokens, DeleteRefused(t) PROVE WireInv'
  BY <1>17 DEF DeleteRefused, EndRollback, FailRollback, SetPosting, Completed
<1>18. ASSUME NEW t \in Tokens, DeleteUnclear(t) PROVE WireInv'
  BY <1>18 DEF DeleteUnclear, EndRollback, FailRollback, SetPosting, Completed
<1>19. ASSUME NEW t \in Tokens, DeleteAnswered(t) PROVE WireInv'
  BY <1>19 DEF DeleteAnswered, MarkRolledBack, SetPosting, Completed
<1>20. ASSUME NEW t \in Tokens, DeleteUncaught(t) PROVE WireInv'
  BY <1>20 DEF DeleteUncaught
<1>21. ASSUME NEW t \in Tokens, TokenExpires(t) PROVE WireInv'
  BY <1>21 DEF TokenExpires, ExpireToken
<1>22. ASSUME NEW q \in Requests, VerifyMatches(q) PROVE WireInv'
  BY <1>22 DEF VerifyMatches
<1>23. ASSUME NEW q \in Requests, VerifyFails(q) PROVE WireInv'
  BY <1>23 DEF VerifyFails, Idle
<1>24. ASSUME NEW q \in Requests, RollbackApproved(q) PROVE WireInv'
  BY <1>24 DEF RollbackApproved, ConsumeConfirmation, Consumable, ReserveRollback,
     SetPosting, Idle, Completed
<1>25. ASSUME NEW q \in Requests, RollbackDenied(q) PROVE WireInv'
  BY <1>25 DEF RollbackDenied, Idle
<1>26. ASSUME NEW t \in Tokens, NEW e \in Expenses, ApplyCreate(t, e) PROVE WireInv'
  BY <1>26 DEF ApplyCreate
<1>27. ASSUME NEW t \in Tokens, RefuseCreate(t) PROVE WireInv'
  BY <1>27 DEF RefuseCreate
<1>28. ASSUME NEW t \in Tokens, ApplyDelete(t) PROVE WireInv'
  BY <1>28 DEF ApplyDelete
<1>29. ASSUME NEW t \in Tokens, RefuseDelete(t) PROVE WireInv'
  BY <1>29 DEF RefuseDelete
<1>30. ASSUME NEW e \in Expenses, OthersChange(e) PROVE WireInv'
  BY <1>30 DEF OthersChange
<1>31. ASSUME NEW e \in Expenses, OthersDelete(e) PROVE WireInv'
  BY <1>31 DEF OthersDelete
<1>32. ASSUME Crash PROVE WireInv'
  BY <1>32 DEF Crash, MemoryLost, Idle
<1>33. ASSUME StartUp PROVE WireInv'
  BY <1>33 DEF StartUp, RecoverInterruptedRuns
<1>34. ASSUME RecoverPostings PROVE WireInv'
  BY <1>34 DEF RecoverPostings, RecoverInterruptedPostings, RecoveredStatus
<1>35. ASSUME NEW r \in Runs, PreviewKilled(r) PROVE WireInv'
  BY <1>35 DEF PreviewKilled, ReplaceBillReview, DeleteConfirmations, Row, GateStatus,
     NeedsRepair, MemoryLost, Idle
<1>36. ASSUME NEW r \in Runs, NEW t \in Tokens, PostKilled(r, t) PROVE WireInv'
  BY <1>36 DEF PostKilled, ConsumeConfirmation, Consumable, MemoryLost, Idle
<1>37. ASSUME NEW q \in Requests, RollbackKilled(q) PROVE WireInv'
  BY <1>37 DEF RollbackKilled, ConsumeConfirmation, Consumable, MemoryLost, Idle
<1>38. CASE UNCHANGED vars
  BY <1>38 DEF vars
<1> HIDE DEF TypeInv, TypeOK, RepositoryTypeOK, HandlersBound, AttemptInv, FreshTokens,
      VerifyInv, WireInv, Delivered, Creating, Deleting, ValidPlan, repoVars, runVars,
      postingVars, tokenVars, handlerVars, remoteVars, historyVars
<1> QED
  BY <1>1, <1>2, <1>3, <1>4, <1>5, <1>6, <1>7, <1>8, <1>9, <1>10, <1>11, <1>12, <1>13,
     <1>14, <1>15, <1>16, <1>17, <1>18, <1>19, <1>20, <1>21, <1>22, <1>23, <1>24, <1>25,
     <1>26, <1>27, <1>28, <1>29, <1>30, <1>31, <1>32, <1>33, <1>34, <1>35, <1>36, <1>37,
     <1>38
     DEF Next, Operator, PostHandler, RollbackHandler, VerifyHandler, Destination, Lifecycle

-----------------------------------------------------------------------------
(* Plans and the audit chain *)

\* The plan of a run whose columns stay is as good as it was, the chain only grows.
LEMMA PlanKept ==
  ASSUME NEW r \in Runs, PlanOK(r), ledger \subseteq ledger',
         status'[r] = status[r], bill'[r] = bill[r], plan'[r] = plan[r],
         pStatus'[r] = pStatus[r], pDigest'[r] = pDigest[r],
         pExpense'[r] = pExpense[r], pPrior'[r] = pPrior[r]
  PROVE PlanOK(r)'
  BY DEF PlanOK, ValidPlan, Blocked, Pair, AuditedTarget, PreviewFact, CompletedFact

\* A handler that is not idle works for a run.
LEMMA HandlerHasRun ==
    ASSUME TypeInv, NEW t \in Tokens, hPc[t] # "idle"
    PROVE tRun[t] \in Runs
  BY DEF TypeInv, HandlersBound, TypeOK, RepositoryTypeOK

\* So does a rollback request that waits for its verification.
LEMMA RequestHasRun ==
    ASSUME TypeInv, NEW q \in Requests, verify[q].pc = "matched"
    PROVE verify[q].run \in Runs
  BY DEF TypeInv, HandlersBound

\* The repaired bill of create_preview is a bill.
LEMMA RepairedIsBill ==
    ASSUME TypeInv, NEW r \in Runs, NeedsRepair(r)
    PROVE Repair[bill[r]] \in Bills
  BY RepairIsIdempotent DEF NeedsRepair, TypeInv, TypeOK, RepositoryTypeOK

\* A step that leaves runs, postings and the audit chain alone keeps the plans.
LEMMA PlanUnchanged ==
    ASSUME PlanInv, UNCHANGED <<runVars, postingVars, ledger>>
    PROVE PlanInv'
<1>1. ASSUME NEW r \in Runs PROVE PlanOK(r)'
  BY PlanKept DEF PlanInv, runVars, postingVars
<1> QED
  BY <1>1 DEF PlanInv

\* replace_bill_review keeps the plans: it leaves the run without one.
LEMMA PlanReviewed ==
  ASSUME TypeInv, StatusInv, PlanInv, NEW r \in Runs, NEW b \in Bills,
         ReplaceBillReview(r, b), UNCHANGED ledger
  PROVE PlanInv'
<1>1. pStatus[r] \in {"none", "failed"}
  BY EditableIsUnposted DEF ReplaceBillReview
<1>2. ASSUME NEW x \in Runs, x # r PROVE PlanOK(x)'
  BY <1>2, PlanKept DEF ReplaceBillReview, PlanInv, TypeInv, TypeOK, RepositoryTypeOK,
     postingVars
<1>3. PlanOK(r)'
  BY <1>1 DEF PlanOK, Unplanned, ReplaceBillReview, GateStatus, Completed, TypeInv, TypeOK,
     RepositoryTypeOK, postingVars
<1> QED
  BY <1>2, <1>3 DEF PlanInv

\* create_preview keeps the plans: the one it saves is complete and audited.
LEMMA PlanSaved ==
  ASSUME TypeInv, StatusInv, PlanInv, NEW r \in Runs, NEW h \in Households,
        CreatePreview(r, h)
  PROVE PlanInv'
<1> DEFINE d == DigestOf(r, Repair[bill[r]], h)
<1> USE DEF TypeInv, TypeOK, RepositoryTypeOK, postingVars
<1>1. SavePreview(r, d) /\ ledger' = ledger \cup {PreviewFact(d, Blocked(d))}
  BY DEF CreatePreview, Audit
<1>2. d.run = r /\ d # None /\ d.bill \in Bills
  BY NoneIsNoValue, RepairIsIdempotent DEF DigestOf, CreatePreview
<1>3. pStatus[r] \in {"none", "failed"}
  BY <1>1, EditableIsUnposted DEF SavePreview
<1> HIDE DEF d
<1>4. ASSUME NEW x \in Runs, x # r PROVE PlanOK(x)'
  BY <1>1, <1>4, PlanKept DEF SavePreview, PlanInv
<1>5. CASE Blocked(d)
  <2>1. status'[r] = "blocked" /\ pStatus'[r] = pStatus[r]
    BY <1>1, <1>5 DEF SavePreview
  <2> QED
    BY <1>3, <1>4, <2>1 DEF PlanOK, Unplanned, PlanInv, Completed
<1>6. CASE ~ Blocked(d)
  <2>1. status'[r] = "ready" /\ pStatus'[r] = pStatus[r] /\ plan'[r] = d /\ bill'[r] =
        d.bill
    BY <1>1, <1>6 DEF SavePreview
  <2>2. PreviewFact(d, FALSE) \in ledger'
    BY <1>1, <1>6, Zenon DEF Blocked, PreviewFact
  <2>3. ValidPlan(r)'
    BY <1>2, <2>1, <2>2 DEF ValidPlan, PreviewFact
  <2>4. ~ Blocked(plan[r])'
    BY <1>6, <2>1 DEF Blocked, Pair
  <2> QED
    BY <1>3, <1>4, <2>1, <2>3, <2>4 DEF PlanOK, PlanInv, Completed
<1> QED
  BY <1>5, <1>6

\* A transaction on the posting of a run that has its plan keeps the plans if the
\* posting it writes names the plan and a completed one an audited expense.
LEMMA PlanOfPosting ==
    ASSUME TypeInv, PlanInv, NEW r \in Runs, NEW ps \in PostingStatus, NEW s \in RunStatus,
           SetPosting(r, ps, s), ledger \subseteq ledger',
           \A x \in Runs \ {r} : /\ pDigest'[x] = pDigest[x] /\ pExpense'[x] = pExpense[x]
                                 /\ pPrior'[x] = pPrior[x],
           status[r] \notin Unplanned,
           ps \notin {"none", "failed"} => pDigest'[r] = plan[r],
           ps \in Completed
        => CompletedFact(pDigest'[r], pExpense'[r], ps = "posted") \in ledger',
           ps = "rollback_submitting" =>
              CompletedFact(pDigest'[r], pExpense'[r], pPrior'[r] = "posted") \in ledger'
    PROVE PlanInv'
<1>1. /\ pStatus'[r] = ps /\ status'[r] = s /\ UNCHANGED <<bill, plan>>
      /\ \A x \in Runs \ {r} : pStatus'[x] = pStatus[x] /\ status'[x] = status[x]
  BY DEF SetPosting, TypeInv, TypeOK, RepositoryTypeOK
<1>2. ASSUME NEW x \in Runs, x # r PROVE PlanOK(x)'
  BY <1>1, <1>2, PlanKept DEF PlanInv
<1>3. ValidPlan(r)' /\ ~ Blocked(plan[r])'
  BY <1>1 DEF PlanInv, PlanOK, ValidPlan, Blocked, Pair, PreviewFact
<1>4. pStatus'[r] \in Completed => AuditedTarget(r)'
  BY <1>1 DEF AuditedTarget, CompletedFact
<1>5. pStatus'[r] = "rollback_submitting" =>
        CompletedFact(pDigest[r], pExpense[r], pPrior[r] = "posted")' \in ledger'
  BY <1>1 DEF CompletedFact
<1> QED
  BY <1>1, <1>2, <1>3, <1>4, <1>5 DEF PlanInv, PlanOK

\* fail_posting keeps the plans.
LEMMA FailPostingKeepsPlans ==
    ASSUME TypeInv, StatusInv, PlanInv, NEW r \in Runs, NEW a \in BOOLEAN,
           FailPosting(r, a), UNCHANGED ledger
    PROVE PlanInv'
<1>1. status[r] = "submitting" /\ pDigest[r] = plan[r]
  BY DEF FailPosting, StatusInv, Unplanned, PlanInv, PlanOK
<1>2. CASE a
  BY <1>1, <1>2, PlanOfPosting DEF FailPosting, PostingStatus, RunStatus, Completed, Unplanned
<1>3. CASE ~ a
  BY <1>1, <1>3, PlanOfPosting DEF FailPosting, PostingStatus, RunStatus, Completed, Unplanned
<1> QED
  BY <1>2, <1>3

\* fail_rollback keeps the plans: the posting is again what it was before.
LEMMA FailRollbackKeepsPlans ==
    ASSUME TypeInv, StatusInv, PlanInv, NEW r \in Runs, NEW a \in BOOLEAN,
           FailRollback(r, a), UNCHANGED ledger
    PROVE PlanInv'
<1>1. /\ status[r] = "rollback_submitting" /\ pDigest[r] = plan[r]
      /\ CompletedFact(pDigest[r], pExpense[r], pPrior[r] = "posted") \in ledger
  BY DEF FailRollback, StatusInv, Unplanned, PlanInv, PlanOK
<1>2. \A x \in Runs \ {r} : pPrior'[x] = pPrior[x]
  BY DEF FailRollback, TypeInv, TypeOK, RepositoryTypeOK
<1>3. CASE a
  BY <1>1, <1>2, <1>3, PlanOfPosting
     DEF FailRollback, PostingStatus, RunStatus, Completed, Unplanned
<1>4. CASE ~ a
  <2>1. pPrior[r] \in PostingStatus \cap RunStatus /\ pPrior[r] # "rollback_submitting"
    BY DEF FailRollback, Completed, PostingStatus, RunStatus
  <2> QED
    BY <1>1, <1>2, <1>4, <2>1, PlanOfPosting DEF FailRollback, Unplanned
<1> QED
  BY <1>3, <1>4

\* complete_posting, with its event, keeps the plans.
LEMMA CompletionKeepsPlans ==
    ASSUME TypeInv, StatusInv, PlanInv, NEW r \in Runs, NEW e, NEW verified \in
          BOOLEAN,
           CompletePosting(r, e, verified), Audit({CompletedFact(pDigest[r], e, verified)})
    PROVE PlanInv'
<1> DEFINE s == IF verified THEN "posted" ELSE "posted_unverified"
<1>1. /\ SetPosting(r, s, s)
      /\ status[r] = "submitting" /\ pDigest[r] = plan[r]
      /\ s \in PostingStatus \cap RunStatus /\ s # "rollback_submitting"
  BY DEF CompletePosting, StatusInv, Unplanned, PlanInv, PlanOK, PostingStatus, RunStatus
<1>2. /\ pExpense'[r] = e /\ UNCHANGED <<pDigest, pPrior>>
      /\ \A x \in Runs \ {r} : pExpense'[x] = pExpense[x]
  BY DEF CompletePosting, TypeInv, TypeOK, RepositoryTypeOK
<1>3. ledger \subseteq ledger' /\ CompletedFact(pDigest'[r], pExpense'[r], s = "posted") \in
      ledger'
  <2>1. (s = "posted") = verified
    BY Zenon
  <2> QED
    BY <1>2, <2>1 DEF Audit
<1> HIDE DEF s
<1> QED
  BY <1>1, <1>2, <1>3, PlanOfPosting DEF Unplanned

\* reserve_posting, reserve_rollback and mark_rolled_back keep the plans.
LEMMA ReservationKeepsPlans ==
    ASSUME TypeInv, StatusInv, PlanInv, NEW r \in Runs, NEW d, UNCHANGED ledger,
           ReservePosting(r, d) \/ ReserveRollback(r, d) \/ MarkRolledBack(r)
    PROVE PlanInv'
<1>1. CASE ReservePosting(r, d)
  <2>1. pDigest'[r] = plan[r] /\ \A x \in Runs \ {r} : pDigest'[x] = pDigest[x]
    BY <1>1 DEF ReservePosting, TypeInv, TypeOK, RepositoryTypeOK
  <2> QED
    BY <1>1, <2>1, PlanOfPosting DEF ReservePosting, PostingStatus, RunStatus, Completed,
       Unplanned
<1>2. CASE ReserveRollback(r, d)
  <2>1. status[r] \in Completed /\ AuditedTarget(r)
    BY <1>2 DEF ReserveRollback, StatusInv, Unplanned, PlanInv, PlanOK, Completed
  <2>2. pPrior'[r] = pStatus[r] /\ \A x \in Runs \ {r} : pPrior'[x] = pPrior[x]
    BY <1>2 DEF ReserveRollback, TypeInv, TypeOK, RepositoryTypeOK
  <2> QED
    BY <1>2, <2>1, <2>2, PlanOfPosting
       DEF ReserveRollback, AuditedTarget, PostingStatus, RunStatus, Completed,
          Unplanned
<1>3. CASE MarkRolledBack(r)
  <2>1. status[r] = "rollback_submitting" /\ pDigest[r] = plan[r]
    BY <1>3 DEF MarkRolledBack, StatusInv, Unplanned, PlanInv, PlanOK
  <2>2. \A x \in Runs \ {r} : pPrior'[x] = pPrior[x]
    BY <1>3 DEF MarkRolledBack, TypeInv, TypeOK, RepositoryTypeOK
  <2> QED
    BY <1>3, <2>1, <2>2, PlanOfPosting DEF MarkRolledBack, PostingStatus, RunStatus,
       Completed, Unplanned
<1> QED
  BY <1>1, <1>2, <1>3

\* Every step keeps the plans of reviewed runs complete, unblocked and audited: the
\* checks against the audit chain stay passable.
LEMMA PlanStep ==
    TypeInv /\ StatusInv /\ PlanInv /\ [Next]_vars => PlanInv'
<1> SUFFICES ASSUME TypeInv, StatusInv, PlanInv, [Next]_vars PROVE PlanInv'
  OBVIOUS
<1> USE DEF Completed, repoVars, runVars, postingVars, tokenVars, handlerVars, remoteVars,
      historyVars
<1>1. ASSUME NEW r \in Runs, NEW b \in Bills, ReviewBill(r, b) PROVE PlanInv'
  BY <1>1, PlanReviewed DEF ReviewBill
<1>2. ASSUME NEW r \in Runs, NEW h \in Households, CreatePreview(r, h) PROVE PlanInv'
  BY <1>2, PlanSaved
<1>3. ASSUME NEW r \in Runs, NEW h \in Households, PreviewUnresolved(r, h) PROVE PlanInv'
  BY <1>3, PlanReviewed, RepairedIsBill DEF PreviewUnresolved
<1>4. ASSUME NEW r \in Runs, NEW t \in Tokens, RequestConfirmation(r, t) PROVE PlanInv'
  BY <1>4, PlanUnchanged DEF RequestConfirmation, IssueConfirmation, repoVars
<1>5. ASSUME NEW r \in Runs, NEW t \in Tokens, RequestRollbackConfirmation(r, t)
      PROVE PlanInv'
  BY <1>5, PlanUnchanged DEF RequestRollbackConfirmation, IssueRollbackConfirmation,
     repoVars
<1>6. ASSUME NEW r \in Runs, NEW t \in Tokens, PostRequest(r, t) PROVE PlanInv'
  BY <1>6, ReservationKeepsPlans DEF PostRequest
<1>7. ASSUME NEW q \in Requests, NEW r \in Runs, NEW t \in Tokens, RollbackRequest(q, r, t)
      PROVE PlanInv'
  BY <1>7, PlanUnchanged DEF RollbackRequest, repoVars
<1>8. ASSUME NEW t \in Tokens, SendCreate(t) PROVE PlanInv'
  BY <1>8, PlanUnchanged DEF SendCreate, repoVars
<1>9. ASSUME NEW t \in Tokens, CreateNotSent(t) PROVE PlanInv'
  BY <1>9, HandlerHasRun, FailPostingKeepsPlans DEF CreateNotSent, EndPosting
<1>10. ASSUME NEW t \in Tokens, CreateRefused(t) PROVE PlanInv'
  BY <1>10, HandlerHasRun, FailPostingKeepsPlans DEF CreateRefused, EndPosting
<1>11. ASSUME NEW t \in Tokens, CreateUnclear(t) PROVE PlanInv'
  BY <1>11, HandlerHasRun, FailPostingKeepsPlans DEF CreateUnclear, EndPosting
<1>12. ASSUME NEW t \in Tokens, NEW e \in Expenses, CreateAnswered(t, e) PROVE PlanInv'
  BY <1>12, PlanUnchanged DEF CreateAnswered, repoVars
<1>13. ASSUME NEW t \in Tokens, CreateUncaught(t) PROVE PlanInv'
  BY <1>13, PlanUnchanged DEF CreateUncaught, repoVars
<1>14. ASSUME NEW t \in Tokens, NEW verified \in BOOLEAN, ReadBack(t, verified)
      PROVE PlanInv'
  BY <1>14, HandlerHasRun, CompletionKeepsPlans DEF ReadBack
<1>15. ASSUME NEW t \in Tokens, SendDelete(t) PROVE PlanInv'
  BY <1>15, PlanUnchanged DEF SendDelete, repoVars
<1>16. ASSUME NEW t \in Tokens, DeleteNotSent(t) PROVE PlanInv'
  BY <1>16, HandlerHasRun, FailRollbackKeepsPlans DEF DeleteNotSent, EndRollback
<1>17. ASSUME NEW t \in Tokens, DeleteRefused(t) PROVE PlanInv'
  BY <1>17, HandlerHasRun, FailRollbackKeepsPlans DEF DeleteRefused, EndRollback
<1>18. ASSUME NEW t \in Tokens, DeleteUnclear(t) PROVE PlanInv'
  BY <1>18, HandlerHasRun, FailRollbackKeepsPlans DEF DeleteUnclear, EndRollback
<1>19. ASSUME NEW t \in Tokens, DeleteAnswered(t) PROVE PlanInv'
  BY <1>19, HandlerHasRun, ReservationKeepsPlans DEF DeleteAnswered
<1>20. ASSUME NEW t \in Tokens, DeleteUncaught(t) PROVE PlanInv'
  BY <1>20, PlanUnchanged DEF DeleteUncaught, repoVars
<1>21. ASSUME NEW t \in Tokens, TokenExpires(t) PROVE PlanInv'
  BY <1>21, PlanUnchanged DEF TokenExpires, ExpireToken, repoVars
<1>22. ASSUME NEW q \in Requests, VerifyMatches(q) PROVE PlanInv'
  BY <1>22, PlanUnchanged DEF VerifyMatches, repoVars
<1>23. ASSUME NEW q \in Requests, VerifyFails(q) PROVE PlanInv'
  BY <1>23, PlanUnchanged DEF VerifyFails, repoVars
<1>24. ASSUME NEW q \in Requests, RollbackApproved(q) PROVE PlanInv'
  BY <1>24, RequestHasRun, ReservationKeepsPlans DEF RollbackApproved
<1>25. ASSUME NEW q \in Requests, RollbackDenied(q) PROVE PlanInv'
  BY <1>25, PlanUnchanged DEF RollbackDenied, repoVars
<1>26. ASSUME NEW t \in Tokens, NEW e \in Expenses, ApplyCreate(t, e) PROVE PlanInv'
  BY <1>26, PlanUnchanged DEF ApplyCreate, repoVars
<1>27. ASSUME NEW t \in Tokens, RefuseCreate(t) PROVE PlanInv'
  BY <1>27, PlanUnchanged DEF RefuseCreate, repoVars
<1>28. ASSUME NEW t \in Tokens, ApplyDelete(t) PROVE PlanInv'
  BY <1>28, PlanUnchanged DEF ApplyDelete, repoVars
<1>29. ASSUME NEW t \in Tokens, RefuseDelete(t) PROVE PlanInv'
  BY <1>29, PlanUnchanged DEF RefuseDelete, repoVars
<1>30. ASSUME NEW e \in Expenses, OthersChange(e) PROVE PlanInv'
  BY <1>30, PlanUnchanged DEF OthersChange, repoVars
<1>31. ASSUME NEW e \in Expenses, OthersDelete(e) PROVE PlanInv'
  BY <1>31, PlanUnchanged DEF OthersDelete, repoVars
<1>32. ASSUME Crash PROVE PlanInv'
  BY <1>32, PlanUnchanged DEF Crash, repoVars
<1>33. ASSUME StartUp PROVE PlanInv'
  BY <1>33, NoneIsNoValue DEF StartUp, RecoverInterruptedRuns, TypeInv, TypeOK,
     RepositoryTypeOK, StatusInv, Unplanned, PlanInv, PlanOK, Completed, ValidPlan, Blocked,
     Pair, AuditedTarget, PreviewFact, CompletedFact, Audit
<1>34. ASSUME RecoverPostings PROVE PlanInv'
  BY <1>34, NoneIsNoValue DEF RecoverPostings, RecoverInterruptedPostings, RecoveredStatus,
     TypeInv, TypeOK, RepositoryTypeOK, StatusInv, Unplanned, PlanInv, PlanOK, Completed,
     ValidPlan, Blocked, Pair, AuditedTarget, PreviewFact, CompletedFact, Audit
<1>35. ASSUME NEW r \in Runs, PreviewKilled(r) PROVE PlanInv'
  BY <1>35, PlanReviewed, RepairedIsBill DEF PreviewKilled
<1>36. ASSUME NEW r \in Runs, NEW t \in Tokens, PostKilled(r, t) PROVE PlanInv'
  BY <1>36, PlanUnchanged DEF PostKilled, repoVars
<1>37. ASSUME NEW q \in Requests, RollbackKilled(q) PROVE PlanInv'
  BY <1>37, PlanUnchanged DEF RollbackKilled, repoVars
<1>38. CASE UNCHANGED vars
  BY <1>38, PlanUnchanged DEF vars, repoVars
<1> HIDE DEF Completed, repoVars, runVars, postingVars, tokenVars, handlerVars, remoteVars,
      historyVars
<1> QED
  BY <1>1, <1>2, <1>3, <1>4, <1>5, <1>6, <1>7, <1>8, <1>9, <1>10, <1>11, <1>12, <1>13,
     <1>14, <1>15, <1>16, <1>17, <1>18, <1>19, <1>20, <1>21, <1>22, <1>23, <1>24, <1>25,
     <1>26, <1>27, <1>28, <1>29, <1>30, <1>31, <1>32, <1>33, <1>34, <1>35, <1>36, <1>37,
     <1>38
     DEF Next, Operator, PostHandler, RollbackHandler, VerifyHandler, Destination, Lifecycle

-----------------------------------------------------------------------------
(* Expenses and attempts to delete *)

\* The recorded expense is the one the handler's token has made.
LEMMA ExpenseStep ==
    TypeInv /\ StatusInv /\ AttemptInv /\ ExpenseInv /\ [Next]_vars
        => ExpenseInv'
<1> SUFFICES ASSUME TypeInv, StatusInv, AttemptInv, ExpenseInv, [Next]_vars
      PROVE ExpenseInv'
  OBVIOUS
<1> USE NoneIsNoValue DEF TypeInv, TypeOK, RepositoryTypeOK, HandlersBound,
      StatusInv, Unplanned, AttemptInv, FreshTokens, ExpenseInv, AfterPosting, Completed, Made,
      Counts, repoVars, runVars, postingVars, tokenVars, handlerVars, remoteVars,
      historyVars
<1>1. ASSUME NEW r \in Runs, NEW b \in Bills, ReviewBill(r, b) PROVE ExpenseInv'
  BY <1>1 DEF ReviewBill, ReplaceBillReview, DeleteConfirmations, Row, GateStatus,
     Reviewable
<1>2. ASSUME NEW r \in Runs, NEW h \in Households, CreatePreview(r, h) PROVE ExpenseInv'
  BY <1>2 DEF CreatePreview, SavePreview, DeleteConfirmations, Row, Audit, PreviewFact,
     DigestOf, Facts, Digests, Blocked, Previewable
<1>3. ASSUME NEW r \in Runs, NEW h \in Households, PreviewUnresolved(r, h) PROVE ExpenseInv'
  BY <1>3 DEF PreviewUnresolved, ReplaceBillReview, DeleteConfirmations, Row, GateStatus,
     NeedsRepair, Reviewable
<1>4. ASSUME NEW r \in Runs, NEW t \in Tokens, RequestConfirmation(r, t) PROVE ExpenseInv'
  BY <1>4 DEF RequestConfirmation, IssueConfirmation, InsertToken, Row
<1>5. ASSUME NEW r \in Runs, NEW t \in Tokens, RequestRollbackConfirmation(r, t)
      PROVE ExpenseInv'
  BY <1>5 DEF RequestRollbackConfirmation, IssueRollbackConfirmation, InsertToken, Row
<1>6. ASSUME NEW r \in Runs, NEW t \in Tokens, PostRequest(r, t) PROVE ExpenseInv'
  BY <1>6 DEF PostRequest, ConsumeConfirmation, Consumable, ReservePosting, SetPosting,
     MayPost, ValidPlan
<1>7. ASSUME NEW q \in Requests, NEW r \in Runs, NEW t \in Tokens, RollbackRequest(q, r, t)
      PROVE ExpenseInv'
  BY <1>7 DEF RollbackRequest, ValidPlan
<1>8. ASSUME NEW t \in Tokens, SendCreate(t) PROVE ExpenseInv'
  BY <1>8 DEF SendCreate
<1>9. ASSUME NEW t \in Tokens, CreateNotSent(t) PROVE ExpenseInv'
  BY <1>9 DEF CreateNotSent, EndPosting, FailPosting, SetPosting
<1>10. ASSUME NEW t \in Tokens, CreateRefused(t) PROVE ExpenseInv'
  BY <1>10 DEF CreateRefused, EndPosting, FailPosting, SetPosting
<1>11. ASSUME NEW t \in Tokens, CreateUnclear(t) PROVE ExpenseInv'
  BY <1>11 DEF CreateUnclear, EndPosting, FailPosting, SetPosting
<1>12. ASSUME NEW t \in Tokens, NEW e \in Expenses, CreateAnswered(t, e) PROVE ExpenseInv'
  BY <1>12 DEF CreateAnswered
<1>13. ASSUME NEW t \in Tokens, CreateUncaught(t) PROVE ExpenseInv'
  BY <1>13 DEF CreateUncaught
<1>14. ASSUME NEW t \in Tokens, NEW verified \in BOOLEAN, ReadBack(t, verified)
      PROVE ExpenseInv'
  BY <1>14 DEF ReadBack, CompletePosting, SetPosting, Audit, CompletedFact, Facts
<1>15. ASSUME NEW t \in Tokens, SendDelete(t) PROVE ExpenseInv'
  BY <1>15 DEF SendDelete
<1>16. ASSUME NEW t \in Tokens, DeleteNotSent(t) PROVE ExpenseInv'
  BY <1>16 DEF DeleteNotSent, EndRollback, FailRollback, SetPosting
<1>17. ASSUME NEW t \in Tokens, DeleteRefused(t) PROVE ExpenseInv'
  BY <1>17 DEF DeleteRefused, EndRollback, FailRollback, SetPosting
<1>18. ASSUME NEW t \in Tokens, DeleteUnclear(t) PROVE ExpenseInv'
  BY <1>18 DEF DeleteUnclear, EndRollback, FailRollback, SetPosting
<1>19. ASSUME NEW t \in Tokens, DeleteAnswered(t) PROVE ExpenseInv'
  BY <1>19 DEF DeleteAnswered, MarkRolledBack, SetPosting
<1>20. ASSUME NEW t \in Tokens, DeleteUncaught(t) PROVE ExpenseInv'
  BY <1>20 DEF DeleteUncaught
<1>21. ASSUME NEW t \in Tokens, TokenExpires(t) PROVE ExpenseInv'
  BY <1>21 DEF TokenExpires, ExpireToken
<1>22. ASSUME NEW q \in Requests, VerifyMatches(q) PROVE ExpenseInv'
  BY <1>22 DEF VerifyMatches
<1>23. ASSUME NEW q \in Requests, VerifyFails(q) PROVE ExpenseInv'
  BY <1>23 DEF VerifyFails, Idle
<1>24. ASSUME NEW q \in Requests, RollbackApproved(q) PROVE ExpenseInv'
  BY <1>24 DEF RollbackApproved, ConsumeConfirmation, Consumable, ReserveRollback,
     SetPosting, Idle
<1>25. ASSUME NEW q \in Requests, RollbackDenied(q) PROVE ExpenseInv'
  BY <1>25 DEF RollbackDenied, Idle
<1>26. ASSUME NEW t \in Tokens, NEW e \in Expenses, ApplyCreate(t, e) PROVE ExpenseInv'
  BY <1>26 DEF ApplyCreate
<1>27. ASSUME NEW t \in Tokens, RefuseCreate(t) PROVE ExpenseInv'
  BY <1>27 DEF RefuseCreate
<1>28. ASSUME NEW t \in Tokens, ApplyDelete(t) PROVE ExpenseInv'
  BY <1>28 DEF ApplyDelete
<1>29. ASSUME NEW t \in Tokens, RefuseDelete(t) PROVE ExpenseInv'
  BY <1>29 DEF RefuseDelete
<1>30. ASSUME NEW e \in Expenses, OthersChange(e) PROVE ExpenseInv'
  BY <1>30 DEF OthersChange
<1>31. ASSUME NEW e \in Expenses, OthersDelete(e) PROVE ExpenseInv'
  BY <1>31 DEF OthersDelete
<1>32. ASSUME Crash PROVE ExpenseInv'
  BY <1>32 DEF Crash, MemoryLost, Idle
<1>33. ASSUME StartUp PROVE ExpenseInv'
  BY <1>33 DEF StartUp, RecoverInterruptedRuns
<1>34. ASSUME RecoverPostings PROVE ExpenseInv'
  BY <1>34 DEF RecoverPostings, RecoverInterruptedPostings, RecoveredStatus
<1>35. ASSUME NEW r \in Runs, PreviewKilled(r) PROVE ExpenseInv'
  BY <1>35 DEF PreviewKilled, ReplaceBillReview, DeleteConfirmations, Row, GateStatus,
     NeedsRepair, MemoryLost, Idle, Reviewable
<1>36. ASSUME NEW r \in Runs, NEW t \in Tokens, PostKilled(r, t) PROVE ExpenseInv'
  BY <1>36 DEF PostKilled, ConsumeConfirmation, Consumable, MemoryLost, Idle
<1>37. ASSUME NEW q \in Requests, RollbackKilled(q) PROVE ExpenseInv'
  BY <1>37 DEF RollbackKilled, ConsumeConfirmation, Consumable, MemoryLost, Idle
<1>38. CASE UNCHANGED vars
  BY <1>38 DEF vars
<1> HIDE DEF TypeInv, TypeOK, RepositoryTypeOK, HandlersBound, StatusInv, Unplanned,
      AttemptInv, FreshTokens, ExpenseInv, AfterPosting, Completed, Made, Counts, repoVars,
      runVars, postingVars, tokenVars, handlerVars, remoteVars, historyVars
<1> QED
  BY <1>1, <1>2, <1>3, <1>4, <1>5, <1>6, <1>7, <1>8, <1>9, <1>10, <1>11, <1>12, <1>13,
     <1>14, <1>15, <1>16, <1>17, <1>18, <1>19, <1>20, <1>21, <1>22, <1>23, <1>24, <1>25,
     <1>26, <1>27, <1>28, <1>29, <1>30, <1>31, <1>32, <1>33, <1>34, <1>35, <1>36, <1>37,
     <1>38
     DEF Next, Operator, PostHandler, RollbackHandler, VerifyHandler, Destination, Lifecycle

\* What a rollback request read before its await is still so after it.
LEMMA VerifyStep ==
    TypeInv /\ AttemptInv /\ ExpenseInv /\ VerifyInv /\ [Next]_vars
        => VerifyInv'
<1> SUFFICES ASSUME TypeInv, AttemptInv, ExpenseInv, VerifyInv,
      [Next]_vars
      PROVE VerifyInv'
  OBVIOUS
<1> USE NoneIsNoValue DEF TypeInv, TypeOK, RepositoryTypeOK, HandlersBound,
      AttemptInv, FreshTokens, DownIsIdle, ExpenseInv, VerifyInv,
      AfterPosting, Completed, Made, ValidPlan, repoVars, runVars, postingVars, tokenVars,
      handlerVars, remoteVars, historyVars
<1>1. ASSUME NEW r \in Runs, NEW b \in Bills, ReviewBill(r, b) PROVE VerifyInv'
  BY <1>1 DEF ReviewBill, ReplaceBillReview, DeleteConfirmations, Row, GateStatus,
     Reviewable
<1>2. ASSUME NEW r \in Runs, NEW h \in Households, CreatePreview(r, h) PROVE VerifyInv'
  BY <1>2 DEF CreatePreview, SavePreview, DeleteConfirmations, Row, Audit, PreviewFact,
     DigestOf, Facts, Digests, Blocked, Previewable
<1>3. ASSUME NEW r \in Runs, NEW h \in Households, PreviewUnresolved(r, h) PROVE VerifyInv'
  BY <1>3 DEF PreviewUnresolved, ReplaceBillReview, DeleteConfirmations, Row, GateStatus,
     NeedsRepair, Reviewable
<1>4. ASSUME NEW r \in Runs, NEW t \in Tokens, RequestConfirmation(r, t) PROVE VerifyInv'
  BY <1>4 DEF RequestConfirmation, IssueConfirmation, InsertToken, Row
<1>5. ASSUME NEW r \in Runs, NEW t \in Tokens, RequestRollbackConfirmation(r, t)
      PROVE VerifyInv'
  BY <1>5 DEF RequestRollbackConfirmation, IssueRollbackConfirmation, InsertToken, Row
<1>6. ASSUME NEW r \in Runs, NEW t \in Tokens, PostRequest(r, t) PROVE VerifyInv'
  BY <1>6 DEF PostRequest, ConsumeConfirmation, Consumable, ReservePosting, SetPosting,
     MayPost
<1>7. ASSUME NEW q \in Requests, NEW r \in Runs, NEW t \in Tokens, RollbackRequest(q, r, t)
      PROVE VerifyInv'
  BY <1>7 DEF RollbackRequest
<1>8. ASSUME NEW t \in Tokens, SendCreate(t) PROVE VerifyInv'
  BY <1>8 DEF SendCreate
<1>9. ASSUME NEW t \in Tokens, CreateNotSent(t) PROVE VerifyInv'
  BY <1>9 DEF CreateNotSent, EndPosting, FailPosting, SetPosting
<1>10. ASSUME NEW t \in Tokens, CreateRefused(t) PROVE VerifyInv'
  BY <1>10 DEF CreateRefused, EndPosting, FailPosting, SetPosting
<1>11. ASSUME NEW t \in Tokens, CreateUnclear(t) PROVE VerifyInv'
  BY <1>11 DEF CreateUnclear, EndPosting, FailPosting, SetPosting
<1>12. ASSUME NEW t \in Tokens, NEW e \in Expenses, CreateAnswered(t, e) PROVE VerifyInv'
  BY <1>12 DEF CreateAnswered
<1>13. ASSUME NEW t \in Tokens, CreateUncaught(t) PROVE VerifyInv'
  BY <1>13 DEF CreateUncaught
<1>14. ASSUME NEW t \in Tokens, NEW verified \in BOOLEAN, ReadBack(t, verified)
      PROVE VerifyInv'
  BY <1>14 DEF ReadBack, CompletePosting, SetPosting, Audit, CompletedFact, Facts
<1>15. ASSUME NEW t \in Tokens, SendDelete(t) PROVE VerifyInv'
  BY <1>15 DEF SendDelete
<1>16. ASSUME NEW t \in Tokens, DeleteNotSent(t) PROVE VerifyInv'
  BY <1>16 DEF DeleteNotSent, EndRollback, FailRollback, SetPosting
<1>17. ASSUME NEW t \in Tokens, DeleteRefused(t) PROVE VerifyInv'
  BY <1>17 DEF DeleteRefused, EndRollback, FailRollback, SetPosting
<1>18. ASSUME NEW t \in Tokens, DeleteUnclear(t) PROVE VerifyInv'
  BY <1>18 DEF DeleteUnclear, EndRollback, FailRollback, SetPosting
<1>19. ASSUME NEW t \in Tokens, DeleteAnswered(t) PROVE VerifyInv'
  BY <1>19 DEF DeleteAnswered, MarkRolledBack, SetPosting
<1>20. ASSUME NEW t \in Tokens, DeleteUncaught(t) PROVE VerifyInv'
  BY <1>20 DEF DeleteUncaught
<1>21. ASSUME NEW t \in Tokens, TokenExpires(t) PROVE VerifyInv'
  BY <1>21 DEF TokenExpires, ExpireToken
<1>22. ASSUME NEW q \in Requests, VerifyMatches(q) PROVE VerifyInv'
  BY <1>22 DEF VerifyMatches
<1>23. ASSUME NEW q \in Requests, VerifyFails(q) PROVE VerifyInv'
  BY <1>23 DEF VerifyFails, Idle
<1>24. ASSUME NEW q \in Requests, RollbackApproved(q) PROVE VerifyInv'
  BY <1>24 DEF RollbackApproved, ConsumeConfirmation, Consumable, ReserveRollback,
     SetPosting, Idle
<1>25. ASSUME NEW q \in Requests, RollbackDenied(q) PROVE VerifyInv'
  BY <1>25 DEF RollbackDenied, Idle
<1>26. ASSUME NEW t \in Tokens, NEW e \in Expenses, ApplyCreate(t, e) PROVE VerifyInv'
  BY <1>26 DEF ApplyCreate
<1>27. ASSUME NEW t \in Tokens, RefuseCreate(t) PROVE VerifyInv'
  BY <1>27 DEF RefuseCreate
<1>28. ASSUME NEW t \in Tokens, ApplyDelete(t) PROVE VerifyInv'
  BY <1>28 DEF ApplyDelete
<1>29. ASSUME NEW t \in Tokens, RefuseDelete(t) PROVE VerifyInv'
  BY <1>29 DEF RefuseDelete
<1>30. ASSUME NEW e \in Expenses, OthersChange(e) PROVE VerifyInv'
  BY <1>30 DEF OthersChange
<1>31. ASSUME NEW e \in Expenses, OthersDelete(e) PROVE VerifyInv'
  BY <1>31 DEF OthersDelete
<1>32. ASSUME Crash PROVE VerifyInv'
  BY <1>32 DEF Crash, MemoryLost, Idle
<1>33. ASSUME StartUp PROVE VerifyInv'
  BY <1>33 DEF StartUp, RecoverInterruptedRuns
<1>34. ASSUME RecoverPostings PROVE VerifyInv'
  BY <1>34 DEF RecoverPostings, RecoverInterruptedPostings, RecoveredStatus
<1>35. ASSUME NEW r \in Runs, PreviewKilled(r) PROVE VerifyInv'
  BY <1>35 DEF PreviewKilled, ReplaceBillReview, DeleteConfirmations, Row, GateStatus,
     NeedsRepair, MemoryLost, Idle, Reviewable
<1>36. ASSUME NEW r \in Runs, NEW t \in Tokens, PostKilled(r, t) PROVE VerifyInv'
  BY <1>36 DEF PostKilled, ConsumeConfirmation, Consumable, MemoryLost, Idle
<1>37. ASSUME NEW q \in Requests, RollbackKilled(q) PROVE VerifyInv'
  BY <1>37 DEF RollbackKilled, ConsumeConfirmation, Consumable, MemoryLost, Idle
<1>38. CASE UNCHANGED vars
  BY <1>38 DEF vars
<1> HIDE DEF TypeInv, TypeOK, RepositoryTypeOK, HandlersBound, 
      AttemptInv, FreshTokens, DownIsIdle, ExpenseInv, VerifyInv, AfterPosting, Completed,
      Made, ValidPlan, repoVars, runVars, postingVars, tokenVars, handlerVars, remoteVars,
      historyVars
<1> QED
  BY <1>1, <1>2, <1>3, <1>4, <1>5, <1>6, <1>7, <1>8, <1>9, <1>10, <1>11, <1>12, <1>13,
     <1>14, <1>15, <1>16, <1>17, <1>18, <1>19, <1>20, <1>21, <1>22, <1>23, <1>24, <1>25,
     <1>26, <1>27, <1>28, <1>29, <1>30, <1>31, <1>32, <1>33, <1>34, <1>35, <1>36, <1>37,
     <1>38
     DEF Next, Operator, PostHandler, RollbackHandler, VerifyHandler, Destination, Lifecycle

\* The delete that rollback_splitwise starts is approved for the recorded expense and
\* the run's first: the token was valid, and the posting not yet being rolled back.
LEMMA ApprovedDelete ==
    ASSUME TypeInv, StatusInv, AttemptInv, ApprovalInv, PayloadInv, ExpenseInv, VerifyInv,
           DeleteInv, NEW q \in Requests, RollbackApproved(q)
    PROVE DeleteInv'
<1> DEFINE v == verify[q]
<1>1. /\ v.run \in Runs /\ v.token \in Tokens /\ v.expense = pExpense[v.run]
      /\ tState[v.token] = "valid" /\ tRun[v.token] = v.run
      /\ pStatus[v.run] \in Completed /\ v.token \notin changedAtIssue
  BY DEF RollbackApproved, ConsumeConfirmation, Consumable, ReserveRollback, TypeInv, HandlersBound,
         VerifyInv
<1>2. v.token \notin refused \cup deletes \cup applied /\ tPurpose[v.token] = "rollback"
  BY <1>1 DEF AttemptInv, FreshTokens, ApprovalInv, Live, StatusInv, Unplanned, Completed
<1>3. /\ hPc' = [hPc EXCEPT ![v.token] = "delete_connecting"]
      /\ hTarget' = [hTarget EXCEPT ![v.token] = v.expense]
      /\ pStatus' = [pStatus EXCEPT ![v.run] = "rollback_submitting"]
      /\ UNCHANGED <<pExpense, tRun, remoteVars, historyVars>>
  BY DEF RollbackApproved, ConsumeConfirmation, ReserveRollback, SetPosting
<1> HIDE DEF v
<1> USE DEF TypeInv, TypeOK, RepositoryTypeOK, remoteVars, historyVars
<1>4. ASSUME NEW t \in Tokens, DeleteCounts(t) PROVE t # v.token /\ tRun[t] # v.run
  BY <1>1, <1>2, <1>4 DEF DeleteInv, Completed
<1>5. ASSUME NEW t \in Tokens, t # v.token PROVE DeleteCounts(t)' <=> DeleteCounts(t)
  BY <1>3, <1>5 DEF DeleteCounts, Deleting
<1>6. ASSUME NEW t \in Tokens, NEW u \in Tokens, DeleteCounts(t)', DeleteCounts(u)',
             tRun[t] = tRun[u]
      PROVE t = u
  BY <1>1, <1>4, <1>5, <1>6 DEF DeleteInv
<1>7. ASSUME NEW t \in Tokens, t = v.token
      PROVE /\ hPc'[t] = "delete_connecting" /\ hTarget'[t] = pExpense'[tRun'[t]]
            /\ pStatus'[tRun'[t]] = "rollback_submitting"
  BY <1>1, <1>3, <1>7
<1>8. ASSUME NEW t \in Tokens, t # v.token
      PROVE hPc'[t] = hPc[t] /\ hTarget'[t] = hTarget[t]
  BY <1>3, <1>8
<1>9. ASSUME NEW t \in Tokens, DeleteCounts(t) PROVE pStatus'[tRun[t]] = pStatus[tRun[t]]
  BY <1>3, <1>4, <1>9
<1>10. ASSUME NEW t \in Tokens, t # v.token
       PROVE /\ Deleting(t)' => pStatus'[tRun'[t]] = "rollback_submitting"
             /\ hPc'[t] = "delete_connecting" => t \notin (deletes \cup applied \cup refused)'
             /\ t \in refused' => t \notin (deletes \cup applied)'
             /\ t \in deletes' => t \notin applied'
  BY <1>3, <1>8, <1>9, <1>10 DEF DeleteInv, Deleting, DeleteCounts
<1>11. ASSUME NEW t \in Tokens, t # v.token, DeleteCounts(t)'
       PROVE /\ tPurpose'[t] = "rollback"
             /\ hTarget'[t] = pExpense'[tRun'[t]]
             /\ pStatus'[tRun'[t]] \in {"rollback_submitting", "rollback_ambiguous", "rolled_back"}
             /\ t \notin changedAtIssue'
             /\ t \in applied' => eState'[hTarget'[t]] = "deleted"
  BY <1>3, <1>5, <1>8, <1>9, <1>11 DEF DeleteInv
<1> QED
  BY <1>1, <1>2, <1>3, <1>6, <1>7, <1>10, <1>11 DEF DeleteInv, Deleting

\* Every step keeps the account of the attempts to delete.
LEMMA DeleteStep ==
    TypeInv /\ StatusInv /\ AttemptInv /\ ApprovalInv /\ PayloadInv /\ ExpenseInv /\
          VerifyInv /\ DeleteInv /\ [Next]_vars
        => DeleteInv'
<1> SUFFICES ASSUME TypeInv, StatusInv, AttemptInv, ApprovalInv, PayloadInv,
      ExpenseInv, VerifyInv, DeleteInv, [Next]_vars
      PROVE DeleteInv'
  OBVIOUS
<1> USE NoneIsNoValue DEF TypeInv, TypeOK, RepositoryTypeOK, HandlersBound,
      StatusInv, Unplanned, AttemptInv, FreshTokens, OneAttempt, AttemptPhases, DownIsIdle,
      ApprovalInv, Live, PayloadInv, ExpenseInv, VerifyInv, DeleteInv, AfterPosting,
      Completed, DeleteCounts, Deleting, Counts, Creating, Made, repoVars, runVars,
      postingVars, tokenVars, handlerVars, remoteVars, historyVars
<1>1. ASSUME NEW r \in Runs, NEW b \in Bills, ReviewBill(r, b) PROVE DeleteInv'
  BY <1>1 DEF ReviewBill, ReplaceBillReview, DeleteConfirmations, Row, GateStatus,
     Reviewable
<1>2. ASSUME NEW r \in Runs, NEW h \in Households, CreatePreview(r, h) PROVE DeleteInv'
  BY <1>2 DEF CreatePreview, SavePreview, DeleteConfirmations, Row, Audit, PreviewFact,
     DigestOf, Facts, Digests, Blocked, Previewable
<1>3. ASSUME NEW r \in Runs, NEW h \in Households, PreviewUnresolved(r, h) PROVE DeleteInv'
  BY <1>3 DEF PreviewUnresolved, ReplaceBillReview, DeleteConfirmations, Row, GateStatus,
     NeedsRepair, Reviewable
<1>4. ASSUME NEW r \in Runs, NEW t \in Tokens, RequestConfirmation(r, t) PROVE DeleteInv'
  BY <1>4 DEF RequestConfirmation, IssueConfirmation, InsertToken, Row
<1>5. ASSUME NEW r \in Runs, NEW t \in Tokens, RequestRollbackConfirmation(r, t)
      PROVE DeleteInv'
  BY <1>5 DEF RequestRollbackConfirmation, IssueRollbackConfirmation, InsertToken, Row
<1>6. ASSUME NEW r \in Runs, NEW t \in Tokens, PostRequest(r, t) PROVE DeleteInv'
  BY <1>6 DEF PostRequest, ConsumeConfirmation, Consumable, ReservePosting, SetPosting,
     MayPost, ValidPlan
<1>7. ASSUME NEW q \in Requests, NEW r \in Runs, NEW t \in Tokens, RollbackRequest(q, r, t)
      PROVE DeleteInv'
  BY <1>7 DEF RollbackRequest, ValidPlan
<1>8. ASSUME NEW t \in Tokens, SendCreate(t) PROVE DeleteInv'
  BY <1>8 DEF SendCreate
<1>9. ASSUME NEW t \in Tokens, CreateNotSent(t) PROVE DeleteInv'
  BY <1>9 DEF CreateNotSent, EndPosting, FailPosting, SetPosting
<1>10. ASSUME NEW t \in Tokens, CreateRefused(t) PROVE DeleteInv'
  BY <1>10 DEF CreateRefused, EndPosting, FailPosting, SetPosting
<1>11. ASSUME NEW t \in Tokens, CreateUnclear(t) PROVE DeleteInv'
  BY <1>11 DEF CreateUnclear, EndPosting, FailPosting, SetPosting
<1>12. ASSUME NEW t \in Tokens, NEW e \in Expenses, CreateAnswered(t, e) PROVE DeleteInv'
  BY <1>12 DEF CreateAnswered
<1>13. ASSUME NEW t \in Tokens, CreateUncaught(t) PROVE DeleteInv'
  BY <1>13 DEF CreateUncaught
<1>14. ASSUME NEW t \in Tokens, NEW verified \in BOOLEAN, ReadBack(t, verified)
      PROVE DeleteInv'
  BY <1>14 DEF ReadBack, CompletePosting, SetPosting, Audit, CompletedFact, Facts
<1>15. ASSUME NEW t \in Tokens, SendDelete(t) PROVE DeleteInv'
  BY <1>15 DEF SendDelete
<1>16. ASSUME NEW t \in Tokens, DeleteNotSent(t) PROVE DeleteInv'
  BY <1>16 DEF DeleteNotSent, EndRollback, FailRollback, SetPosting
<1>17. ASSUME NEW t \in Tokens, DeleteRefused(t) PROVE DeleteInv'
  BY <1>17 DEF DeleteRefused, EndRollback, FailRollback, SetPosting
<1>18. ASSUME NEW t \in Tokens, DeleteUnclear(t) PROVE DeleteInv'
  BY <1>18 DEF DeleteUnclear, EndRollback, FailRollback, SetPosting
<1>19. ASSUME NEW t \in Tokens, DeleteAnswered(t) PROVE DeleteInv'
  BY <1>19 DEF DeleteAnswered, MarkRolledBack, SetPosting
<1>20. ASSUME NEW t \in Tokens, DeleteUncaught(t) PROVE DeleteInv'
  BY <1>20 DEF DeleteUncaught
<1>21. ASSUME NEW t \in Tokens, TokenExpires(t) PROVE DeleteInv'
  BY <1>21 DEF TokenExpires, ExpireToken
<1>22. ASSUME NEW q \in Requests, VerifyMatches(q) PROVE DeleteInv'
  BY <1>22 DEF VerifyMatches
<1>23. ASSUME NEW q \in Requests, VerifyFails(q) PROVE DeleteInv'
  BY <1>23 DEF VerifyFails, Idle
<1>24. ASSUME NEW q \in Requests, RollbackApproved(q) PROVE DeleteInv'
  BY <1>24, ApprovedDelete
<1>25. ASSUME NEW q \in Requests, RollbackDenied(q) PROVE DeleteInv'
  BY <1>25 DEF RollbackDenied, Idle
<1>26. ASSUME NEW t \in Tokens, NEW e \in Expenses, ApplyCreate(t, e) PROVE DeleteInv'
  BY <1>26 DEF ApplyCreate
<1>27. ASSUME NEW t \in Tokens, RefuseCreate(t) PROVE DeleteInv'
  BY <1>27 DEF RefuseCreate
<1>28. ASSUME NEW t \in Tokens, ApplyDelete(t) PROVE DeleteInv'
  BY <1>28 DEF ApplyDelete
<1>29. ASSUME NEW t \in Tokens, RefuseDelete(t) PROVE DeleteInv'
  BY <1>29 DEF RefuseDelete
<1>30. ASSUME NEW e \in Expenses, OthersChange(e) PROVE DeleteInv'
  BY <1>30 DEF OthersChange
<1>31. ASSUME NEW e \in Expenses, OthersDelete(e) PROVE DeleteInv'
  BY <1>31 DEF OthersDelete
<1>32. ASSUME Crash PROVE DeleteInv'
  BY <1>32 DEF Crash, MemoryLost, Idle
<1>33. ASSUME StartUp PROVE DeleteInv'
  BY <1>33 DEF StartUp, RecoverInterruptedRuns
<1>34. ASSUME RecoverPostings PROVE DeleteInv'
  BY <1>34 DEF RecoverPostings, RecoverInterruptedPostings, RecoveredStatus
<1>35. ASSUME NEW r \in Runs, PreviewKilled(r) PROVE DeleteInv'
  BY <1>35 DEF PreviewKilled, ReplaceBillReview, DeleteConfirmations, Row, GateStatus,
     NeedsRepair, MemoryLost, Idle, Reviewable
<1>36. ASSUME NEW r \in Runs, NEW t \in Tokens, PostKilled(r, t) PROVE DeleteInv'
  BY <1>36 DEF PostKilled, ConsumeConfirmation, Consumable, MemoryLost, Idle
<1>37. ASSUME NEW q \in Requests, RollbackKilled(q) PROVE DeleteInv'
  BY <1>37 DEF RollbackKilled, ConsumeConfirmation, Consumable, MemoryLost, Idle
<1>38. CASE UNCHANGED vars
  BY <1>38 DEF vars
<1> HIDE DEF TypeInv, TypeOK, RepositoryTypeOK, HandlersBound, StatusInv, Unplanned,
      AttemptInv, FreshTokens, OneAttempt, AttemptPhases, DownIsIdle, ApprovalInv, Live,
      PayloadInv, ExpenseInv, VerifyInv, DeleteInv, AfterPosting, Completed, DeleteCounts,
      Deleting, Counts, Creating, Made, repoVars, runVars, postingVars, tokenVars,
      handlerVars, remoteVars, historyVars
<1> QED
  BY <1>1, <1>2, <1>3, <1>4, <1>5, <1>6, <1>7, <1>8, <1>9, <1>10, <1>11, <1>12, <1>13,
     <1>14, <1>15, <1>16, <1>17, <1>18, <1>19, <1>20, <1>21, <1>22, <1>23, <1>24, <1>25,
     <1>26, <1>27, <1>28, <1>29, <1>30, <1>31, <1>32, <1>33, <1>34, <1>35, <1>36, <1>37,
     <1>38
     DEF Next, Operator, PostHandler, RollbackHandler, VerifyHandler, Destination, Lifecycle

\* A rollback is recorded as done only when the expense is gone.
LEMMA GoneStep ==
    TypeInv /\ StatusInv /\ AttemptInv /\ ExpenseInv /\ DeleteInv /\ GoneInv /\
          [Next]_vars
        => GoneInv'
<1> SUFFICES ASSUME TypeInv, StatusInv, AttemptInv, ExpenseInv, DeleteInv, GoneInv,
      [Next]_vars
      PROVE GoneInv'
  OBVIOUS
<1> USE NoneIsNoValue DEF TypeInv, TypeOK, RepositoryTypeOK, HandlersBound,
      StatusInv, Unplanned, AttemptInv, FreshTokens, ExpenseInv, DeleteInv, DeleteCounts,
      Deleting, GoneInv, AfterPosting, Completed, Made, repoVars, runVars, postingVars,
      tokenVars, handlerVars, remoteVars, historyVars
<1>1. ASSUME NEW r \in Runs, NEW b \in Bills, ReviewBill(r, b) PROVE GoneInv'
  BY <1>1 DEF ReviewBill, ReplaceBillReview, DeleteConfirmations, Row, GateStatus,
     Reviewable
<1>2. ASSUME NEW r \in Runs, NEW h \in Households, CreatePreview(r, h) PROVE GoneInv'
  BY <1>2 DEF CreatePreview, SavePreview, DeleteConfirmations, Row, Audit, PreviewFact,
     DigestOf, Facts, Digests, Blocked, Previewable
<1>3. ASSUME NEW r \in Runs, NEW h \in Households, PreviewUnresolved(r, h) PROVE GoneInv'
  BY <1>3 DEF PreviewUnresolved, ReplaceBillReview, DeleteConfirmations, Row, GateStatus,
     NeedsRepair, Reviewable
<1>4. ASSUME NEW r \in Runs, NEW t \in Tokens, RequestConfirmation(r, t) PROVE GoneInv'
  BY <1>4 DEF RequestConfirmation, IssueConfirmation, InsertToken, Row
<1>5. ASSUME NEW r \in Runs, NEW t \in Tokens, RequestRollbackConfirmation(r, t)
      PROVE GoneInv'
  BY <1>5 DEF RequestRollbackConfirmation, IssueRollbackConfirmation, InsertToken, Row
<1>6. ASSUME NEW r \in Runs, NEW t \in Tokens, PostRequest(r, t) PROVE GoneInv'
  BY <1>6 DEF PostRequest, ConsumeConfirmation, Consumable, ReservePosting, SetPosting,
     MayPost, ValidPlan
<1>7. ASSUME NEW q \in Requests, NEW r \in Runs, NEW t \in Tokens, RollbackRequest(q, r, t)
      PROVE GoneInv'
  BY <1>7 DEF RollbackRequest, ValidPlan
<1>8. ASSUME NEW t \in Tokens, SendCreate(t) PROVE GoneInv'
  BY <1>8 DEF SendCreate
<1>9. ASSUME NEW t \in Tokens, CreateNotSent(t) PROVE GoneInv'
  BY <1>9 DEF CreateNotSent, EndPosting, FailPosting, SetPosting
<1>10. ASSUME NEW t \in Tokens, CreateRefused(t) PROVE GoneInv'
  BY <1>10 DEF CreateRefused, EndPosting, FailPosting, SetPosting
<1>11. ASSUME NEW t \in Tokens, CreateUnclear(t) PROVE GoneInv'
  BY <1>11 DEF CreateUnclear, EndPosting, FailPosting, SetPosting
<1>12. ASSUME NEW t \in Tokens, NEW e \in Expenses, CreateAnswered(t, e) PROVE GoneInv'
  BY <1>12 DEF CreateAnswered
<1>13. ASSUME NEW t \in Tokens, CreateUncaught(t) PROVE GoneInv'
  BY <1>13 DEF CreateUncaught
<1>14. ASSUME NEW t \in Tokens, NEW verified \in BOOLEAN, ReadBack(t, verified)
      PROVE GoneInv'
  BY <1>14 DEF ReadBack, CompletePosting, SetPosting, Audit, CompletedFact, Facts
<1>15. ASSUME NEW t \in Tokens, SendDelete(t) PROVE GoneInv'
  BY <1>15 DEF SendDelete
<1>16. ASSUME NEW t \in Tokens, DeleteNotSent(t) PROVE GoneInv'
  BY <1>16 DEF DeleteNotSent, EndRollback, FailRollback, SetPosting
<1>17. ASSUME NEW t \in Tokens, DeleteRefused(t) PROVE GoneInv'
  BY <1>17 DEF DeleteRefused, EndRollback, FailRollback, SetPosting
<1>18. ASSUME NEW t \in Tokens, DeleteUnclear(t) PROVE GoneInv'
  BY <1>18 DEF DeleteUnclear, EndRollback, FailRollback, SetPosting
<1>19. ASSUME NEW t \in Tokens, DeleteAnswered(t) PROVE GoneInv'
  BY <1>19 DEF DeleteAnswered, MarkRolledBack, SetPosting
<1>20. ASSUME NEW t \in Tokens, DeleteUncaught(t) PROVE GoneInv'
  BY <1>20 DEF DeleteUncaught
<1>21. ASSUME NEW t \in Tokens, TokenExpires(t) PROVE GoneInv'
  BY <1>21 DEF TokenExpires, ExpireToken
<1>22. ASSUME NEW q \in Requests, VerifyMatches(q) PROVE GoneInv'
  BY <1>22 DEF VerifyMatches
<1>23. ASSUME NEW q \in Requests, VerifyFails(q) PROVE GoneInv'
  BY <1>23 DEF VerifyFails, Idle
<1>24. ASSUME NEW q \in Requests, RollbackApproved(q) PROVE GoneInv'
  BY <1>24 DEF RollbackApproved, ConsumeConfirmation, Consumable, ReserveRollback,
     SetPosting, Idle
<1>25. ASSUME NEW q \in Requests, RollbackDenied(q) PROVE GoneInv'
  BY <1>25 DEF RollbackDenied, Idle
<1>26. ASSUME NEW t \in Tokens, NEW e \in Expenses, ApplyCreate(t, e) PROVE GoneInv'
  BY <1>26 DEF ApplyCreate
<1>27. ASSUME NEW t \in Tokens, RefuseCreate(t) PROVE GoneInv'
  BY <1>27 DEF RefuseCreate
<1>28. ASSUME NEW t \in Tokens, ApplyDelete(t) PROVE GoneInv'
  BY <1>28 DEF ApplyDelete
<1>29. ASSUME NEW t \in Tokens, RefuseDelete(t) PROVE GoneInv'
  BY <1>29 DEF RefuseDelete
<1>30. ASSUME NEW e \in Expenses, OthersChange(e) PROVE GoneInv'
  BY <1>30 DEF OthersChange
<1>31. ASSUME NEW e \in Expenses, OthersDelete(e) PROVE GoneInv'
  BY <1>31 DEF OthersDelete
<1>32. ASSUME Crash PROVE GoneInv'
  BY <1>32 DEF Crash, MemoryLost, Idle
<1>33. ASSUME StartUp PROVE GoneInv'
  BY <1>33 DEF StartUp, RecoverInterruptedRuns
<1>34. ASSUME RecoverPostings PROVE GoneInv'
  BY <1>34 DEF RecoverPostings, RecoverInterruptedPostings, RecoveredStatus
<1>35. ASSUME NEW r \in Runs, PreviewKilled(r) PROVE GoneInv'
  BY <1>35 DEF PreviewKilled, ReplaceBillReview, DeleteConfirmations, Row, GateStatus,
     NeedsRepair, MemoryLost, Idle, Reviewable
<1>36. ASSUME NEW r \in Runs, NEW t \in Tokens, PostKilled(r, t) PROVE GoneInv'
  BY <1>36 DEF PostKilled, ConsumeConfirmation, Consumable, MemoryLost, Idle
<1>37. ASSUME NEW q \in Requests, RollbackKilled(q) PROVE GoneInv'
  BY <1>37 DEF RollbackKilled, ConsumeConfirmation, Consumable, MemoryLost, Idle
<1>38. CASE UNCHANGED vars
  BY <1>38 DEF vars
<1> HIDE DEF TypeInv, TypeOK, RepositoryTypeOK, HandlersBound, StatusInv, Unplanned,
      AttemptInv, FreshTokens, ExpenseInv, DeleteInv, DeleteCounts, Deleting, GoneInv,
      AfterPosting, Completed, Made, repoVars, runVars, postingVars, tokenVars, handlerVars,
      remoteVars, historyVars
<1> QED
  BY <1>1, <1>2, <1>3, <1>4, <1>5, <1>6, <1>7, <1>8, <1>9, <1>10, <1>11, <1>12, <1>13,
     <1>14, <1>15, <1>16, <1>17, <1>18, <1>19, <1>20, <1>21, <1>22, <1>23, <1>24, <1>25,
     <1>26, <1>27, <1>28, <1>29, <1>30, <1>31, <1>32, <1>33, <1>34, <1>35, <1>36, <1>37,
     <1>38
     DEF Next, Operator, PostHandler, RollbackHandler, VerifyHandler, Destination, Lifecycle

-----------------------------------------------------------------------------
(* The theorems *)

\* When every run is extracted and none is previewed, nothing has been attempted.
LEMMA InitialInv ==
    Init => PostingInv
<1> SUFFICES ASSUME Init PROVE PostingInv
  OBVIOUS
<1> USE NoneIsNoValue DEF Init
<1>1. TypeInv
  BY DEF TypeInv, TypeOK, RepositoryTypeOK, HandlersBound, RunStatus, PostingStatus, HandlerPc,
         GateStatus, Idle
<1>2. AttemptInv
  BY DEF AttemptInv, FreshTokens, OneAttempt, AttemptPhases, DownIsIdle, Counts, Creating, Deleting
<1>3. StatusInv /\ PrintsInv /\ PlanInv
  BY DEF StatusInv, Unplanned, PrintsInv, Unique, FingerprintFree, PlanInv, PlanOK, GateStatus,
         Completed
<1>4. ApprovalInv /\ PayloadInv /\ WireInv
  BY DEF ApprovalInv, Live, PayloadInv, WireInv, Creating, Deleting, Counts, Idle
<1>5. ExpenseInv /\ DeleteInv /\ VerifyInv /\ GoneInv
  BY DEF ExpenseInv, DeleteInv, DeleteCounts, Deleting, VerifyInv, GoneInv, AfterPosting, Completed,
         Idle
<1> QED
  BY <1>1, <1>2, <1>3, <1>4, <1>5 DEF PostingInv

\* Every step keeps PostingInv.
LEMMA InvStep ==
    PostingInv /\ [Next]_vars => PostingInv'
  BY TypeStep, AttemptStep, StatusStep, PrintsStep, ApprovalStep, PlanStep, PayloadStep, WireStep,
     ExpenseStep, DeleteStep, VerifyStep, GoneStep
     DEF PostingInv

\* PostingInv holds throughout: the inductive invariant of posting and rolling back.
THEOREM PostingInvariant == Spec => []PostingInv
  BY InitialInv, InvStep, PTL DEF Spec

\* What the inductive invariant says of each state.
LEMMA Consequences ==
    PostingInv =>
        /\ TypeOK
        /\ AtMostOneExpense
        /\ PostedAsConfirmed
        /\ DeletedAsApproved
        /\ ChangedExpenseIsKept
        /\ ClaimsHonest
        /\ ApprovalIsCurrent
        /\ RecordsStayUsable
        /\ LocalSummaryStaysLocal
<1>1. PostingInv => TypeOK
  BY DEF PostingInv, TypeInv
<1>2. PostingInv => AtMostOneExpense
  <2> SUFFICES ASSUME PostingInv, NEW r \in Runs
               PROVE /\ \A d, e \in Made(r) : d = e
                     /\ \A t, u \in Pending(r) : t = u
                     /\ Made(r) = {} \/ Pending(r) = {}
    BY DEF AtMostOneExpense
  <2> USE DEF PostingInv, TypeInv, TypeOK, AttemptInv, OneAttempt, AttemptPhases, Counts
  <2>1. ASSUME NEW e \in Made(r) PROVE eToken[e] \in Tokens /\ tRun[eToken[e]] = r /\ e \in Expenses
    BY <2>1 DEF Made
  <2>2. ASSUME NEW d \in Made(r), NEW e \in Made(r) PROVE d = e
    <3>1. eToken[d] = eToken[e]
      BY <2>1 DEF Made
    <3> QED
      BY <2>1, <3>1
  <2>3. ASSUME NEW t \in Pending(r), NEW u \in Pending(r) PROVE t = u
    BY DEF Pending
  <2>4. ASSUME NEW e \in Made(r), NEW t \in Pending(r) PROVE FALSE
    <3>1. t = eToken[e]
      BY <2>1 DEF Pending
    <3> QED
      BY <2>1, <3>1 DEF Pending
  <2> QED
    BY <2>2, <2>3, <2>4
<1>3. PostingInv => PostedAsConfirmed
  BY DEF PostingInv, TypeInv, TypeOK, PayloadInv, PostedAsConfirmed, Counts
<1>4. PostingInv => DeletedAsApproved
  <2> SUFFICES ASSUME PostingInv, NEW t \in deletes
               PROVE /\ tPurpose[t] = "rollback"
                     /\ hTarget[t] = pExpense[tRun[t]]
                     /\ tRun[eToken[hTarget[t]]] = tRun[t]
    BY DEF DeletedAsApproved
  <2>1. t \in Tokens /\ tRun[t] \in Runs
    BY DEF PostingInv, TypeInv, TypeOK, HandlersBound, AttemptInv, FreshTokens
  <2>2. /\ tPurpose[t] = "rollback" /\ hTarget[t] = pExpense[tRun[t]]
        /\ pStatus[tRun[t]] \in AfterPosting
    BY <2>1 DEF PostingInv, DeleteInv, DeleteCounts, AfterPosting
  <2> QED
    BY <2>1, <2>2 DEF PostingInv, ExpenseInv, Made
<1>5. PostingInv => ChangedExpenseIsKept
  BY DEF PostingInv, TypeInv, TypeOK, DeleteInv, DeleteCounts, ChangedExpenseIsKept
<1>6. PostingInv => ClaimsHonest
  <2> SUFFICES ASSUME PostingInv PROVE ClaimsHonest
    OBVIOUS
  <2>1. ASSUME NEW r \in Runs, pStatus[r] \in {"none", "failed"}
        PROVE Made(r) = {} /\ Pending(r) = {}
    BY <2>1 DEF PostingInv, TypeInv, TypeOK, AttemptInv, OneAttempt, Counts, Made, Pending
  <2>2. ASSUME NEW t \in creates PROVE pStatus[tRun[t]] \in {"submitting", "ambiguous"}
    BY DEF PostingInv, TypeInv, TypeOK, AttemptInv, OneAttempt
  <2>3. ASSUME NEW r \in Runs, pStatus[r] \in AfterPosting
        PROVE pExpense[r] \in Made(r)
    BY <2>3 DEF PostingInv, ExpenseInv
  <2>4. ASSUME NEW r \in Runs, pStatus[r] \in Completed,
               NEW t \in Tokens, tPurpose[t] = "rollback", tRun[t] = r
        PROVE t \notin deletes \cup applied
    BY <2>4 DEF PostingInv, DeleteInv, DeleteCounts, Completed
  <2>5. ASSUME NEW r \in Runs, pStatus[r] = "rolled_back"
        PROVE eState[pExpense[r]] = "deleted"
    BY <2>5 DEF PostingInv, GoneInv
  <2> QED
    BY <2>1, <2>2, <2>3, <2>4, <2>5 DEF ClaimsHonest, AfterPosting
<1>7. PostingInv => ApprovalIsCurrent
  BY DEF PostingInv, ApprovalInv, Live, ApprovalIsCurrent
<1>8. PostingInv => RecordsStayUsable
  <2> SUFFICES ASSUME PostingInv, NEW r \in Runs
               PROVE /\ status[r] = "ready" =>
                           /\ ValidPlan(r) /\ ~ Blocked(plan[r])
                           /\ pStatus[r] \in {"none", "failed"}
                     /\ pStatus[r] \in Completed =>
                           /\ ValidPlan(r) /\ AuditedTarget(r)
                           /\ pDigest[r] = plan[r] /\ pExpense[r] # None
    BY DEF RecordsStayUsable
  <2>1. PlanOK(r)
    BY DEF PostingInv, PlanInv
  <2>2. CASE status[r] = "ready"
    BY <2>1, <2>2 DEF PlanOK, PostingInv, TypeInv, TypeOK, RepositoryTypeOK, PostingStatus,
                      StatusInv, Unplanned, Completed
  <2>3. CASE pStatus[r] \in Completed
    <3>1. pExpense[r] \in Expenses
      BY <2>3 DEF PostingInv, ExpenseInv, AfterPosting, Made
    <3>2. status[r] = pStatus[r]
      BY <2>3 DEF PostingInv, StatusInv, Unplanned, Completed
    <3> QED
      BY <2>1, <2>3, <3>1, <3>2, NoneIsNoValue DEF PlanOK, Unplanned, Completed
  <2> QED
    BY <2>2, <2>3
<1>9. PostingInv => LocalSummaryStaysLocal
  BY DEF PostingInv, TypeInv, TypeOK, WireInv, BuildsPayload, LocalSummaryStaysLocal
<1> QED
  BY <1>1, <1>2, <1>3, <1>4, <1>5, <1>6, <1>7, <1>8, <1>9

\* The tables, the handlers and the wire hold what they are declared to hold.
THEOREM TypeCorrect == Spec => []TypeOK
  BY Consequences, PostingInvariant, PTL

\* A run never leads to a second expense at the destination.
THEOREM NoSecondExpense == Spec => []AtMostOneExpense
  BY Consequences, PostingInvariant, PTL

\* What is sent to the destination is what the operator approved for posting.
THEOREM PostsWhatWasConfirmed == Spec => []PostedAsConfirmed
  BY Consequences, PostingInvariant, PTL

\* An expense is deleted only on a token issued for a rollback of that expense.
THEOREM DeletesWhatWasApproved == Spec => []DeletedAsApproved
  BY Consequences, PostingInvariant, PTL

\* An expense somebody had changed before the approval was given is not deleted.
THEOREM KeepsChangedExpense == Spec => []ChangedExpenseIsKept
  BY Consequences, PostingInvariant, PTL

\* The recorded outcome of a posting is never wrong about the destination.
THEOREM HonestRecords == Spec => []ClaimsHonest
  BY Consequences, PostingInvariant, PTL

\* The status of a run and the status of its posting never drift apart.
THEOREM StatusesAgree == Spec => []RunMirrorsPosting
<1>1. Init => RunMirrorsPosting
  BY DEF Init, RunMirrorsPosting, GateStatus
<1>2. PostingInv /\ RunMirrorsPosting /\ [Next]_vars => RunMirrorsPosting'
  BY MirrorStep DEF PostingInv
<1> QED
  BY <1>1, <1>2, PostingInvariant, PTL DEF Spec

\* A token that can still be consumed approves the plan its run has now.
THEOREM ApprovalsAreCurrent == Spec => []ApprovalIsCurrent
  BY Consequences, PostingInvariant, PTL

\* The checks against the audit chain never lock the operator out.
THEOREM RecordsUsable == Spec => []RecordsStayUsable
  BY Consequences, PostingInvariant, PTL

\* A plan made for a local summary never reaches the wire.
THEOREM LocalPlansStayLocal == Spec => []LocalSummaryStaysLocal
  BY Consequences, PostingInvariant, PTL

-----------------------------------------------------------------------------
(* Settled runs, and handlers that record an outcome *)

\* No transaction touches the run or the posting of a settled run: each asks for
\* another status, and the handlers that hold the run are gone.
LEMMA SettledStep ==
    TypeInv /\ StatusInv /\ AttemptInv /\ [Next]_vars => KeepsSettled
<1> SUFFICES ASSUME TypeInv, StatusInv, AttemptInv, [Next]_vars PROVE KeepsSettled
  OBVIOUS
<1> USE NoneIsNoValue DEF TypeInv, TypeOK, RepositoryTypeOK, HandlersBound,
      StatusInv, Unplanned, AttemptInv, FreshTokens, KeepsSettled, Settled, repoVars, runVars,
      postingVars, tokenVars, handlerVars, remoteVars, historyVars
<1>1. ASSUME NEW r \in Runs, NEW b \in Bills, ReviewBill(r, b) PROVE KeepsSettled
  BY <1>1 DEF ReviewBill, ReplaceBillReview, DeleteConfirmations, Row, GateStatus,
     Reviewable
<1>2. ASSUME NEW r \in Runs, NEW h \in Households, CreatePreview(r, h) PROVE KeepsSettled
  BY <1>2, SMTT(30) DEF CreatePreview, SavePreview, DeleteConfirmations, Row, Audit, PreviewFact,
     DigestOf, Facts, Digests, Blocked, Previewable
<1>3. ASSUME NEW r \in Runs, NEW h \in Households, PreviewUnresolved(r, h) PROVE KeepsSettled
  BY <1>3 DEF PreviewUnresolved, ReplaceBillReview, DeleteConfirmations, Row, GateStatus,
     NeedsRepair, Reviewable
<1>4. ASSUME NEW r \in Runs, NEW t \in Tokens, RequestConfirmation(r, t) PROVE KeepsSettled
  BY <1>4 DEF RequestConfirmation, IssueConfirmation, InsertToken, Row
<1>5. ASSUME NEW r \in Runs, NEW t \in Tokens, RequestRollbackConfirmation(r, t) PROVE KeepsSettled
  BY <1>5 DEF RequestRollbackConfirmation, IssueRollbackConfirmation, InsertToken, Row
<1>6. ASSUME NEW r \in Runs, NEW t \in Tokens, PostRequest(r, t) PROVE KeepsSettled
  BY <1>6 DEF PostRequest, ConsumeConfirmation, Consumable, ReservePosting, SetPosting,
     MayPost, ValidPlan
<1>7. ASSUME NEW q \in Requests, NEW r \in Runs, NEW t \in Tokens, RollbackRequest(q, r, t)
      PROVE KeepsSettled
  BY <1>7 DEF RollbackRequest, ValidPlan, Completed
<1>8. ASSUME NEW t \in Tokens, SendCreate(t) PROVE KeepsSettled
  BY <1>8 DEF SendCreate
<1>9. ASSUME NEW t \in Tokens, CreateNotSent(t) PROVE KeepsSettled
  BY <1>9 DEF CreateNotSent, EndPosting, FailPosting, SetPosting
<1>10. ASSUME NEW t \in Tokens, CreateRefused(t) PROVE KeepsSettled
  BY <1>10 DEF CreateRefused, EndPosting, FailPosting, SetPosting
<1>11. ASSUME NEW t \in Tokens, CreateUnclear(t) PROVE KeepsSettled
  BY <1>11 DEF CreateUnclear, EndPosting, FailPosting, SetPosting
<1>12. ASSUME NEW t \in Tokens, NEW e \in Expenses, CreateAnswered(t, e) PROVE KeepsSettled
  BY <1>12 DEF CreateAnswered
<1>13. ASSUME NEW t \in Tokens, CreateUncaught(t) PROVE KeepsSettled
  BY <1>13 DEF CreateUncaught
<1>14. ASSUME NEW t \in Tokens, NEW verified \in BOOLEAN, ReadBack(t, verified) PROVE KeepsSettled
  BY <1>14 DEF ReadBack, CompletePosting, SetPosting, Audit, CompletedFact, Facts
<1>15. ASSUME NEW t \in Tokens, SendDelete(t) PROVE KeepsSettled
  BY <1>15 DEF SendDelete
<1>16. ASSUME NEW t \in Tokens, DeleteNotSent(t) PROVE KeepsSettled
  BY <1>16 DEF DeleteNotSent, EndRollback, FailRollback, SetPosting, Completed
<1>17. ASSUME NEW t \in Tokens, DeleteRefused(t) PROVE KeepsSettled
  BY <1>17 DEF DeleteRefused, EndRollback, FailRollback, SetPosting, Completed
<1>18. ASSUME NEW t \in Tokens, DeleteUnclear(t) PROVE KeepsSettled
  BY <1>18 DEF DeleteUnclear, EndRollback, FailRollback, SetPosting, Completed
<1>19. ASSUME NEW t \in Tokens, DeleteAnswered(t) PROVE KeepsSettled
  BY <1>19 DEF DeleteAnswered, MarkRolledBack, SetPosting, Completed
<1>20. ASSUME NEW t \in Tokens, DeleteUncaught(t) PROVE KeepsSettled
  BY <1>20 DEF DeleteUncaught
<1>21. ASSUME NEW t \in Tokens, TokenExpires(t) PROVE KeepsSettled
  BY <1>21 DEF TokenExpires, ExpireToken
<1>22. ASSUME NEW q \in Requests, VerifyMatches(q) PROVE KeepsSettled
  BY <1>22 DEF VerifyMatches
<1>23. ASSUME NEW q \in Requests, VerifyFails(q) PROVE KeepsSettled
  BY <1>23 DEF VerifyFails, Idle
<1>24. ASSUME NEW q \in Requests, RollbackApproved(q) PROVE KeepsSettled
  BY <1>24 DEF RollbackApproved, ConsumeConfirmation, Consumable, ReserveRollback,
     SetPosting, Idle, Completed
<1>25. ASSUME NEW q \in Requests, RollbackDenied(q) PROVE KeepsSettled
  BY <1>25 DEF RollbackDenied, Idle
<1>26. ASSUME NEW t \in Tokens, NEW e \in Expenses, ApplyCreate(t, e) PROVE KeepsSettled
  BY <1>26 DEF ApplyCreate
<1>27. ASSUME NEW t \in Tokens, RefuseCreate(t) PROVE KeepsSettled
  BY <1>27 DEF RefuseCreate
<1>28. ASSUME NEW t \in Tokens, ApplyDelete(t) PROVE KeepsSettled
  BY <1>28 DEF ApplyDelete
<1>29. ASSUME NEW t \in Tokens, RefuseDelete(t) PROVE KeepsSettled
  BY <1>29 DEF RefuseDelete
<1>30. ASSUME NEW e \in Expenses, OthersChange(e) PROVE KeepsSettled
  BY <1>30 DEF OthersChange
<1>31. ASSUME NEW e \in Expenses, OthersDelete(e) PROVE KeepsSettled
  BY <1>31 DEF OthersDelete
<1>32. ASSUME Crash PROVE KeepsSettled
  BY <1>32 DEF Crash, MemoryLost, Idle
<1>33. ASSUME StartUp PROVE KeepsSettled
  BY <1>33 DEF StartUp, RecoverInterruptedRuns
<1>34. ASSUME RecoverPostings PROVE KeepsSettled
  BY <1>34 DEF RecoverPostings, RecoverInterruptedPostings, RecoveredStatus
<1>35. ASSUME NEW r \in Runs, PreviewKilled(r) PROVE KeepsSettled
  BY <1>35, SMTT(30) DEF PreviewKilled, ReplaceBillReview, DeleteConfirmations, Row, GateStatus,
     NeedsRepair, MemoryLost, Idle, Reviewable
<1>36. ASSUME NEW r \in Runs, NEW t \in Tokens, PostKilled(r, t) PROVE KeepsSettled
  BY <1>36 DEF PostKilled, ConsumeConfirmation, Consumable, MemoryLost, Idle
<1>37. ASSUME NEW q \in Requests, RollbackKilled(q) PROVE KeepsSettled
  BY <1>37 DEF RollbackKilled, ConsumeConfirmation, Consumable, MemoryLost, Idle
<1>38. CASE UNCHANGED vars
  BY <1>38 DEF vars
<1> HIDE DEF TypeInv, TypeOK, RepositoryTypeOK, HandlersBound, StatusInv, Unplanned,
      AttemptInv, FreshTokens, KeepsSettled, Settled, repoVars, runVars, postingVars,
      tokenVars, handlerVars, remoteVars, historyVars
<1> QED
  BY <1>1, <1>2, <1>3, <1>4, <1>5, <1>6, <1>7, <1>8, <1>9, <1>10, <1>11, <1>12, <1>13,
     <1>14, <1>15, <1>16, <1>17, <1>18, <1>19, <1>20, <1>21, <1>22, <1>23, <1>24, <1>25,
     <1>26, <1>27, <1>28, <1>29, <1>30, <1>31, <1>32, <1>33, <1>34, <1>35, <1>36, <1>37,
     <1>38
     DEF Next, Operator, PostHandler, RollbackHandler, VerifyHandler, Destination, Lifecycle

\* An outcome nobody knows, and a finished rollback, are never overwritten.
THEOREM SettledStaysSettled == Spec => SettledIsFinal
<1>1. PostingInv /\ [Next]_vars => [KeepsSettled]_vars
  BY SettledStep DEF PostingInv
<1> QED
  BY <1>1, PostingInvariant, PTL DEF Spec, SettledIsFinal

\* A handler records the outcome before it is gone.
LEMMA HandledStep ==
    ~ Uncaught /\ TypeInv /\ AttemptInv /\ InFlightIsHandled /\ [Next]_vars
        => InFlightIsHandled'
<1> SUFFICES ASSUME ~ Uncaught, TypeInv, AttemptInv, InFlightIsHandled, [Next]_vars
      PROVE InFlightIsHandled'
  OBVIOUS
<1> USE NoneIsNoValue DEF TypeInv, TypeOK, RepositoryTypeOK, HandlersBound, AttemptInv,
      FreshTokens, InFlightIsHandled, Creating, Deleting, repoVars, runVars, postingVars,
      tokenVars, handlerVars, remoteVars, historyVars
<1>1. ASSUME NEW r \in Runs, NEW b \in Bills, ReviewBill(r, b) PROVE InFlightIsHandled'
  BY <1>1 DEF ReviewBill, ReplaceBillReview, DeleteConfirmations, Row, GateStatus
<1>2. ASSUME NEW r \in Runs, NEW h \in Households, CreatePreview(r, h)
      PROVE InFlightIsHandled'
  BY <1>2 DEF CreatePreview, SavePreview, DeleteConfirmations, Row, Audit, PreviewFact,
     DigestOf, Facts, Digests, Blocked
<1>3. ASSUME NEW r \in Runs, NEW h \in Households, PreviewUnresolved(r, h)
      PROVE InFlightIsHandled'
  BY <1>3 DEF PreviewUnresolved, ReplaceBillReview, DeleteConfirmations, Row, GateStatus,
     NeedsRepair
<1>4. ASSUME NEW r \in Runs, NEW t \in Tokens, RequestConfirmation(r, t)
      PROVE InFlightIsHandled'
  BY <1>4 DEF RequestConfirmation, IssueConfirmation, InsertToken, Row
<1>5. ASSUME NEW r \in Runs, NEW t \in Tokens, RequestRollbackConfirmation(r, t)
      PROVE InFlightIsHandled'
  BY <1>5 DEF RequestRollbackConfirmation, IssueRollbackConfirmation, InsertToken, Row
<1>6. ASSUME NEW r \in Runs, NEW t \in Tokens, PostRequest(r, t) PROVE InFlightIsHandled'
  BY <1>6 DEF PostRequest, ConsumeConfirmation, Consumable, ReservePosting, SetPosting,
     MayPost, ValidPlan
<1>7. ASSUME NEW q \in Requests, NEW r \in Runs, NEW t \in Tokens, RollbackRequest(q, r, t)
      PROVE InFlightIsHandled'
  BY <1>7 DEF RollbackRequest, ValidPlan, Completed
<1>8. ASSUME NEW t \in Tokens, SendCreate(t) PROVE InFlightIsHandled'
  BY <1>8 DEF SendCreate
<1>9. ASSUME NEW t \in Tokens, CreateNotSent(t) PROVE InFlightIsHandled'
  BY <1>9 DEF CreateNotSent, EndPosting, FailPosting, SetPosting
<1>10. ASSUME NEW t \in Tokens, CreateRefused(t) PROVE InFlightIsHandled'
  BY <1>10 DEF CreateRefused, EndPosting, FailPosting, SetPosting
<1>11. ASSUME NEW t \in Tokens, CreateUnclear(t) PROVE InFlightIsHandled'
  BY <1>11 DEF CreateUnclear, EndPosting, FailPosting, SetPosting
<1>12. ASSUME NEW t \in Tokens, NEW e \in Expenses, CreateAnswered(t, e)
      PROVE InFlightIsHandled'
  BY <1>12 DEF CreateAnswered
<1>13. ASSUME NEW t \in Tokens, CreateUncaught(t) PROVE InFlightIsHandled'
  BY <1>13 DEF CreateUncaught
<1>14. ASSUME NEW t \in Tokens, NEW verified \in BOOLEAN, ReadBack(t, verified)
      PROVE InFlightIsHandled'
  BY <1>14 DEF ReadBack, CompletePosting, SetPosting, Audit, CompletedFact, Facts
<1>15. ASSUME NEW t \in Tokens, SendDelete(t) PROVE InFlightIsHandled'
  BY <1>15 DEF SendDelete
<1>16. ASSUME NEW t \in Tokens, DeleteNotSent(t) PROVE InFlightIsHandled'
  BY <1>16 DEF DeleteNotSent, EndRollback, FailRollback, SetPosting, Completed
<1>17. ASSUME NEW t \in Tokens, DeleteRefused(t) PROVE InFlightIsHandled'
  BY <1>17 DEF DeleteRefused, EndRollback, FailRollback, SetPosting, Completed
<1>18. ASSUME NEW t \in Tokens, DeleteUnclear(t) PROVE InFlightIsHandled'
  BY <1>18 DEF DeleteUnclear, EndRollback, FailRollback, SetPosting, Completed
<1>19. ASSUME NEW t \in Tokens, DeleteAnswered(t) PROVE InFlightIsHandled'
  BY <1>19 DEF DeleteAnswered, MarkRolledBack, SetPosting, Completed
<1>20. ASSUME NEW t \in Tokens, DeleteUncaught(t) PROVE InFlightIsHandled'
  BY <1>20 DEF DeleteUncaught
<1>21. ASSUME NEW t \in Tokens, TokenExpires(t) PROVE InFlightIsHandled'
  BY <1>21 DEF TokenExpires, ExpireToken
<1>22. ASSUME NEW q \in Requests, VerifyMatches(q) PROVE InFlightIsHandled'
  BY <1>22 DEF VerifyMatches
<1>23. ASSUME NEW q \in Requests, VerifyFails(q) PROVE InFlightIsHandled'
  BY <1>23 DEF VerifyFails, Idle
<1>24. ASSUME NEW q \in Requests, RollbackApproved(q) PROVE InFlightIsHandled'
  BY <1>24 DEF RollbackApproved, ConsumeConfirmation, Consumable, ReserveRollback,
     SetPosting, Idle, Completed
<1>25. ASSUME NEW q \in Requests, RollbackDenied(q) PROVE InFlightIsHandled'
  BY <1>25 DEF RollbackDenied, Idle
<1>26. ASSUME NEW t \in Tokens, NEW e \in Expenses, ApplyCreate(t, e)
      PROVE InFlightIsHandled'
  BY <1>26 DEF ApplyCreate
<1>27. ASSUME NEW t \in Tokens, RefuseCreate(t) PROVE InFlightIsHandled'
  BY <1>27 DEF RefuseCreate
<1>28. ASSUME NEW t \in Tokens, ApplyDelete(t) PROVE InFlightIsHandled'
  BY <1>28 DEF ApplyDelete
<1>29. ASSUME NEW t \in Tokens, RefuseDelete(t) PROVE InFlightIsHandled'
  BY <1>29 DEF RefuseDelete
<1>30. ASSUME NEW e \in Expenses, OthersChange(e) PROVE InFlightIsHandled'
  BY <1>30 DEF OthersChange
<1>31. ASSUME NEW e \in Expenses, OthersDelete(e) PROVE InFlightIsHandled'
  BY <1>31 DEF OthersDelete
<1>32. ASSUME Crash PROVE InFlightIsHandled'
  BY <1>32 DEF Crash, MemoryLost, Idle
<1>33. ASSUME StartUp PROVE InFlightIsHandled'
  BY <1>33 DEF StartUp, RecoverInterruptedRuns
<1>34. ASSUME RecoverPostings PROVE InFlightIsHandled'
  BY <1>34 DEF RecoverPostings, RecoverInterruptedPostings, RecoveredStatus
<1>35. ASSUME NEW r \in Runs, PreviewKilled(r) PROVE InFlightIsHandled'
  BY <1>35 DEF PreviewKilled, ReplaceBillReview, DeleteConfirmations, Row, GateStatus,
     NeedsRepair, MemoryLost, Idle
<1>36. ASSUME NEW r \in Runs, NEW t \in Tokens, PostKilled(r, t) PROVE InFlightIsHandled'
  BY <1>36 DEF PostKilled, ConsumeConfirmation, Consumable, MemoryLost, Idle
<1>37. ASSUME NEW q \in Requests, RollbackKilled(q) PROVE InFlightIsHandled'
  BY <1>37 DEF RollbackKilled, ConsumeConfirmation, Consumable, MemoryLost, Idle
<1>38. CASE UNCHANGED vars
  BY <1>38 DEF vars
<1> HIDE DEF TypeInv, TypeOK, RepositoryTypeOK, HandlersBound, AttemptInv, FreshTokens,
      InFlightIsHandled, Creating, Deleting, repoVars, runVars, postingVars, tokenVars,
      handlerVars, remoteVars, historyVars
<1> QED
  BY <1>1, <1>2, <1>3, <1>4, <1>5, <1>6, <1>7, <1>8, <1>9, <1>10, <1>11, <1>12, <1>13,
     <1>14, <1>15, <1>16, <1>17, <1>18, <1>19, <1>20, <1>21, <1>22, <1>23, <1>24, <1>25,
     <1>26, <1>27, <1>28, <1>29, <1>30, <1>31, <1>32, <1>33, <1>34, <1>35, <1>36, <1>37,
     <1>38
     DEF Next, Operator, PostHandler, RollbackHandler, VerifyHandler, Destination, Lifecycle

\* If no exception is left uncaught, a posting or rollback in flight has a handler
\* that will record its outcome whenever the server runs.
THEOREM OutcomesAreRecorded ==
    ASSUME ~ Uncaught
    PROVE Spec => []InFlightIsHandled
<1>1. Init => InFlightIsHandled
  BY DEF Init, InFlightIsHandled
<1>2. PostingInv /\ InFlightIsHandled /\ [Next]_vars => InFlightIsHandled'
  BY HandledStep DEF PostingInv
<1> QED
  BY <1>1, <1>2, PostingInvariant, PTL DEF Spec


-----------------------------------------------------------------------------
(* Posting implements Promise: under the refinement mapping of PostingPromise every *)
(* step of Posting is a step of Promise or a stutter.  Frame lemmas say which       *)
(* columns each part of the mapping reads; one lemma for each kind of step then     *)
(* names the step of Promise it is.                                                 *)

(* The mapping, part by part *)

\* Consents are read from the table of tokens, and from what they were issued for.
LEMMA ConsentsKept ==
    ASSUME UNCHANGED <<tokenVars, tPurpose>> PROVE consents' = consents
  BY DEF consents, ConsentOf, Allows, tokenVars

\* Phases are read from the status of the posting.
LEMMA PhasesKept ==
    ASSUME UNCHANGED pStatus PROVE phases' = phases
  BY DEF phases, PhaseOf

\* What was agreed is read from the posting.
LEMMA AgreementsKept ==
    ASSUME UNCHANGED <<pStatus, pDigest>> PROVE agreements' = agreements
  BY DEF agreements, AgreedOf

\* The expense of a run is read from the destination, by the token it was made with.
LEMMA RemotesKept ==
    ASSUME UNCHANGED <<eState, eToken, tRun, applied, tPurpose>> PROVE remotes' = remotes
  BY DEF remotes, RemoteOf, Made, Removed

\* The consent of one run changes, the others keep theirs.
LEMMA ConsentsSet ==
    ASSUME NEW r \in Runs, NEW S, ConsentOf(r)' = S,
           \A x \in Runs \ {r} : ConsentOf(x)' = ConsentOf(x)
    PROVE consents' = [consents EXCEPT ![r] = S]
  BY DEF consents

\* The phase of one run changes with its status.
LEMMA PhasesSet ==
    ASSUME TypeInv, NEW r \in Runs, NEW s, pStatus' = [pStatus EXCEPT ![r] = s]
    PROVE phases' = [phases EXCEPT ![r] = PhaseOf(s)]
<1>1. pStatus \in [Runs -> PostingStatus]
  BY DEF TypeInv, TypeOK, RepositoryTypeOK
<1>2. \A x \in Runs : pStatus'[x] = IF x = r THEN s ELSE pStatus[x]
  BY <1>1
<1> QED
  BY <1>2 DEF phases, PhaseOf, Completed

\* What one run agreed changes, the others keep theirs.
LEMMA AgreementsSet ==
    ASSUME NEW r \in Runs, NEW d, AgreedOf(r)' = d,
           \A x \in Runs \ {r} : AgreedOf(x)' = AgreedOf(x)
    PROVE agreements' = [agreements EXCEPT ![r] = d]
  BY DEF agreements

\* The expense of one run changes, the others keep theirs.
LEMMA RemotesSet ==
    ASSUME NEW r \in Runs, NEW v, RemoteOf(r)' = v,
           \A x \in Runs \ {r} : RemoteOf(x)' = RemoteOf(x)
    PROVE remotes' = [remotes EXCEPT ![r] = v]
  BY DEF remotes

\* A live token gives the only consent of its run.
LEMMA OnlyConsent ==
    ASSUME TypeInv, ApprovalInv, NEW t \in Tokens, tState[t] = "valid"
    PROVE tRun[t] \in Runs /\ ConsentOf(tRun[t]) = {Allows(t)}
<1>1. tRun[t] \in Runs
  BY DEF TypeInv, HandlersBound
<1>2. \A u \in Tokens : tState[u] = "valid" /\ tRun[u] = tRun[t] => u = t
  BY DEF ApprovalInv, Live
<1>3. {u \in Tokens : tState[u] = "valid" /\ tRun[u] = tRun[t]} = {t}
  BY <1>2
<1> QED
  BY <1>1, <1>3 DEF ConsentOf

\* A token that stops being valid leaves its run without a consent.
LEMMA ConsentGone ==
    ASSUME TypeInv, ApprovalInv, NEW t \in Tokens, NEW s, tState[t] = "valid", s # "valid",
           tState' = [tState EXCEPT ![t] = s], UNCHANGED <<tRun, tDigest, tPurpose>>
    PROVE consents' = [consents EXCEPT ![tRun[t]] = {}]
<1>1. tRun[t] \in Runs /\ \A u \in Tokens : tState[u] = "valid" /\ tRun[u] = tRun[t] => u = t
  BY DEF TypeInv, HandlersBound, ApprovalInv, Live
<1>2. \A u \in Tokens : tState'[u] = IF u = t THEN s ELSE tState[u]
  BY DEF TypeInv, TypeOK, RepositoryTypeOK
<1>3. ConsentOf(tRun[t])' = {}
  BY <1>1, <1>2 DEF ConsentOf
<1>4. \A x \in Runs \ {tRun[t]} : ConsentOf(x)' = ConsentOf(x)
  BY <1>1, <1>2 DEF ConsentOf, Allows
<1> QED
  BY <1>1, <1>3, <1>4, ConsentsSet

\* Deleting the tokens of a run takes its consent.
LEMMA ConsentsDeleted ==
    ASSUME TypeInv, NEW r \in Runs, DeleteConfirmations(r), UNCHANGED tPurpose
    PROVE consents' = [consents EXCEPT ![r] = {}]
<1>1. \A u \in Tokens : tState'[u] = IF Row(u) /\ tRun[u] = r THEN "deleted" ELSE tState[u]
  BY DEF DeleteConfirmations
<1>2. ConsentOf(r)' = {}
  BY <1>1 DEF ConsentOf, DeleteConfirmations, Row
<1>3. \A x \in Runs \ {r} : ConsentOf(x)' = ConsentOf(x)
  BY <1>1 DEF ConsentOf, DeleteConfirmations, Row, Allows
<1> QED
  BY <1>2, <1>3, ConsentsSet

\* A new token replaces the consent of its run.
LEMMA ConsentGiven ==
    ASSUME TypeInv, NEW r \in Runs, NEW t \in Tokens, InsertToken(r, t), NEW p,
           tPurpose' = [tPurpose EXCEPT ![t] = p]
    PROVE consents' = [consents EXCEPT ![r] = {[purpose |-> p, digest |-> plan[r]]}]
<1>1. /\ tState[t] = "unissued"
      /\ \A u \in Tokens :
            /\ tState'[u] = IF u = t THEN "valid"
                            ELSE IF (Row(u) /\ tRun[u] = r) \/ tState[u] = "expired"
                                 THEN "deleted" ELSE tState[u]
            /\ tRun'[u] = IF u = t THEN r ELSE tRun[u]
            /\ tDigest'[u] = IF u = t THEN plan[r] ELSE tDigest[u]
            /\ tPurpose'[u] = IF u = t THEN p ELSE tPurpose[u]
  BY DEF InsertToken, TypeInv, TypeOK, RepositoryTypeOK
<1>2. {u \in Tokens : tState[u] = "valid" /\ tRun[u] = r}' = {t}
  BY <1>1 DEF Row
<1>3. ConsentOf(r)' = {[purpose |-> p, digest |-> plan[r]]}
  BY <1>1, <1>2 DEF ConsentOf, Allows
<1>4. ASSUME NEW x \in Runs, x # r PROVE ConsentOf(x)' = ConsentOf(x)
  <2>1. {u \in Tokens : tState[u] = "valid" /\ tRun[u] = x}'
          = {u \in Tokens : tState[u] = "valid" /\ tRun[u] = x}
    BY <1>1, <1>4
  <2>2. \A u \in Tokens : tState[u] = "valid" => Allows(u)' = Allows(u)
    BY <1>1 DEF Allows
  <2> QED
    BY <2>1, <2>2 DEF ConsentOf
<1> QED
  BY <1>3, <1>4, ConsentsSet

\* Issuing a token changes nothing at the destination.
LEMMA RemotesFresh ==
    ASSUME TypeInv, AttemptInv, NEW r \in Runs, NEW t \in Tokens, InsertToken(r, t), NEW p,
           tPurpose' = [tPurpose EXCEPT ![t] = p], UNCHANGED <<eState, eToken, applied>>
    PROVE remotes' = remotes
<1>1. t \notin applied /\ \A e \in Expenses : eToken[e] # t
  BY DEF InsertToken, AttemptInv, FreshTokens, Counts
<1>2. \A u \in Tokens \ {t} : tRun'[u] = tRun[u] /\ tPurpose'[u] = tPurpose[u]
  BY DEF InsertToken, TypeInv, TypeOK, RepositoryTypeOK
<1>3. eToken \in [Expenses -> Tokens \cup {None}] /\ applied \subseteq Tokens
  BY DEF TypeInv, TypeOK
<1>4. ASSUME NEW x \in Runs PROVE Made(x)' = Made(x) /\ Removed(x)' = Removed(x)
  <2>1. Made(x)' = Made(x)
    BY <1>1, <1>2, <1>3 DEF Made
  <2>2. Removed(x)' <=> Removed(x)
    BY <1>1, <1>2, <1>3 DEF Removed
  <2> QED
    BY <2>1, <2>2 DEF Removed
<1>5. ASSUME NEW x \in Runs PROVE RemoteOf(x)' = RemoteOf(x)
  BY <1>4 DEF RemoteOf
<1> QED
  BY <1>5 DEF remotes

-----------------------------------------------------------------------------
(* Consents given, spent and lost *)

\* What reads no column of the mapping is a stuttering step.
LEMMA PromiseStutters ==
    ASSUME UNCHANGED <<pStatus, pDigest, tokenVars, tPurpose, eState, eToken, applied>>
    PROVE UNCHANGED Promised!promiseVars
<1>1. UNCHANGED <<consents, phases, agreements, remotes>>
  BY ConsentsKept, PhasesKept, AgreementsKept, RemotesKept DEF tokenVars
<1> QED
  BY <1>1 DEF Promised!promiseVars

\* Only the consent of run r goes.
LEMMA PromiseLapses ==
    ASSUME NEW r \in Runs, consents' = [consents EXCEPT ![r] = {}],
           UNCHANGED <<pStatus, pDigest, tRun, tPurpose, eState, eToken, applied>>
    PROVE Promised!Lapse(r)
<1>1. UNCHANGED <<phases, agreements, remotes>>
  BY PhasesKept, AgreementsKept, RemotesKept
<1> QED
  BY <1>1 DEF Promised!Lapse

\* A review or a preview takes the consents to the old plan with it.
LEMMA ReviewLapses ==
    ASSUME TypeInv, NEW r \in Runs, DeleteConfirmations(r),
           UNCHANGED <<postingVars, remoteVars, historyVars>>
    PROVE Promised!Lapse(r)
<1>1. consents' = [consents EXCEPT ![r] = {}]
  BY ConsentsDeleted DEF historyVars
<1> QED
  BY <1>1, PromiseLapses DEF DeleteConfirmations, postingVars, remoteVars, historyVars

\* So does a token that expires, or is consumed for nothing.
LEMMA TokenLapses ==
    ASSUME TypeInv, ApprovalInv, NEW t \in Tokens, NEW s, tState[t] = "valid", s # "valid",
           tState' = [tState EXCEPT ![t] = s],
           UNCHANGED <<tRun, tDigest, postingVars, remoteVars, historyVars>>
    PROVE tRun[t] \in Runs /\ Promised!Lapse(tRun[t])
<1>1. consents' = [consents EXCEPT ![tRun[t]] = {}]
  BY ConsentGone DEF historyVars
<1>2. tRun[t] \in Runs
  BY DEF TypeInv, HandlersBound
<1> QED
  BY <1>1, <1>2, PromiseLapses DEF postingVars, remoteVars, historyVars

\* A token issued for posting is a consent to post the plan.
LEMMA ConsentToPost ==
    ASSUME PostingInv, NEW r \in Runs, NEW t \in Tokens, RequestConfirmation(r, t)
    PROVE \E d \in Digests : Promised!Consent(r, Promised!ToPost(d))
<1>1. plan[r] \in Digests /\ pStatus[r] \in {"none", "failed"}
  BY EditableIsUnposted
     DEF RequestConfirmation, IssueConfirmation, Previewable, PostingInv, TypeInv, TypeOK,
         RepositoryTypeOK
<1>2. consents' = [consents EXCEPT ![r] = {Promised!ToPost(plan[r])}]
  BY ConsentGiven
     DEF RequestConfirmation, IssueConfirmation, PostingInv, Promised!ToPost
<1>3. UNCHANGED <<phases, agreements, remotes>>
  BY PhasesKept, AgreementsKept, RemotesFresh
     DEF RequestConfirmation, IssueConfirmation, PostingInv, postingVars, remoteVars
<1>4. phases[r] = "open"
  BY <1>1 DEF phases, PhaseOf, Completed
<1>5. Promised!Consent(r, Promised!ToPost(plan[r]))
  BY <1>1, <1>2, <1>3, <1>4 DEF Promised!Consent
<1> QED
  BY <1>1, <1>5

\* A token issued for a rollback is a consent to roll back what was agreed.
LEMMA ConsentToRollback ==
    ASSUME PostingInv, NEW r \in Runs, NEW t \in Tokens, RequestRollbackConfirmation(r, t)
    PROVE \E d \in Digests : Promised!Consent(r, Promised!ToRollback(d))
<1>1. plan[r] \in Digests /\ pStatus[r] \in Completed /\ pDigest[r] = plan[r]
  BY DEF RequestRollbackConfirmation, IssueRollbackConfirmation, PostingInv, TypeInv, TypeOK,
         RepositoryTypeOK, PlanInv, PlanOK, Completed
<1>2. consents' = [consents EXCEPT ![r] = {Promised!ToRollback(plan[r])}]
  BY ConsentGiven
     DEF RequestRollbackConfirmation, IssueRollbackConfirmation, PostingInv, Promised!ToRollback
<1>3. UNCHANGED <<phases, agreements, remotes>>
  BY PhasesKept, AgreementsKept, RemotesFresh
     DEF RequestRollbackConfirmation, IssueRollbackConfirmation, PostingInv, postingVars,
         remoteVars
<1>4. phases[r] = "done" /\ agreements[r] = plan[r]
  BY <1>1 DEF phases, PhaseOf, agreements, AgreedOf, Completed
<1>5. Promised!Consent(r, Promised!ToRollback(plan[r]))
  BY <1>1, <1>2, <1>3, <1>4 DEF Promised!Consent
<1> QED
  BY <1>1, <1>5

\* post_to_splitwise spends the consent to post the plan.
LEMMA PostTries ==
    ASSUME PostingInv, NEW r \in Runs, NEW t \in Tokens, PostRequest(r, t)
    PROVE \E d \in Digests : Promised!Try(r, d)
<1>1. /\ tState[t] = "valid" /\ tRun[t] = r /\ tDigest[t] = plan[r] /\ status[r] = "ready"
      /\ tState' = [tState EXCEPT ![t] = "used"]
      /\ pStatus' = [pStatus EXCEPT ![r] = "submitting"]
      /\ pDigest' = [pDigest EXCEPT ![r] = plan[r]]
      /\ UNCHANGED <<tRun, tDigest, tPurpose, eState, eToken, applied>>
      /\ pStatus[r] \in {"none", "failed"} /\ plan[r] \in Digests
  BY DEF PostRequest, MayPost, ValidPlan, ConsumeConfirmation, Consumable, ReservePosting,
         SetPosting, remoteVars, historyVars, PostingInv, TypeInv, TypeOK, RepositoryTypeOK
<1>2. tPurpose[t] = "post"
  BY <1>1 DEF PostingInv, ApprovalInv, Live, Completed
<1>3. ConsentOf(r) = {Promised!ToPost(plan[r])}
  BY <1>1, <1>2, OnlyConsent DEF PostingInv, Allows, Promised!ToPost
<1>4. consents[r] = {Promised!ToPost(plan[r])} /\ consents' = [consents EXCEPT ![r] = {}]
  BY <1>1, <1>3, ConsentGone DEF PostingInv, consents
<1>5. phases[r] = "open" /\ phases' = [phases EXCEPT ![r] = "trying"]
  BY <1>1 DEF phases, PhaseOf, Completed, PostingInv, TypeInv, TypeOK, RepositoryTypeOK
<1>6. agreements' = [agreements EXCEPT ![r] = plan[r]]
  BY <1>1, AgreementsSet DEF AgreedOf, PostingInv, TypeInv, TypeOK, RepositoryTypeOK
<1>7. UNCHANGED remotes
  BY <1>1, RemotesKept
<1>8. Promised!Try(r, plan[r])
  BY <1>4, <1>5, <1>6, <1>7 DEF Promised!Try, Promised!Spend, Promised!Become
<1> QED
  BY <1>1, <1>8

\* The run of a handler is in the phase of its posting.
LEMMA FailurePromised ==
    ASSUME PostingInv, NEW t \in Tokens, hPc[t] \in {"create_connecting", "create_waiting"},
           hPc[t] = "create_waiting" => t \in refused, EndPosting(t, FALSE)
    PROVE tRun[t] \in Runs /\ Promised!NothingMade(tRun[t])
<1> DEFINE r == tRun[t]
<1>1. r \in Runs
  BY HandlerHasRun DEF PostingInv
<1>2. /\ pStatus[r] = "submitting" /\ pStatus' = [pStatus EXCEPT ![r] = "failed"]
      /\ UNCHANGED <<pDigest, tokenVars, tPurpose, eState, eToken, applied>>
  BY DEF EndPosting, FailPosting, SetPosting, remoteVars, historyVars
<1>3. Made(r) = {}
  BY DEF PostingInv, AttemptInv, OneAttempt, AttemptPhases, Made, Counts, Creating, TypeInv, TypeOK
<1>4. remotes[r] = "none"
  BY <1>1, <1>3 DEF remotes, RemoteOf
<1> HIDE DEF r
<1>5. phases[r] = "trying" /\ phases' = [phases EXCEPT ![r] = "open"]
  BY <1>1, <1>2 DEF phases, PhaseOf, Completed, PostingInv, TypeInv, TypeOK, RepositoryTypeOK
<1>6. agreements' = [agreements EXCEPT ![r] = None]
  BY <1>1, <1>2, AgreementsSet DEF AgreedOf, PostingInv, TypeInv, TypeOK, RepositoryTypeOK
<1>7. UNCHANGED <<consents, remotes>>
  BY <1>2, ConsentsKept, RemotesKept DEF tokenVars
<1>8. Promised!NothingMade(r)
  BY <1>4, <1>5, <1>6, <1>7 DEF Promised!NothingMade, Promised!Become
<1> QED
  BY <1>1, <1>8 DEF r

-----------------------------------------------------------------------------
(* Attempts that end *)

\* An attempt whose outcome is unknown is out of sight.
LEMMA UnclearPromised ==
    ASSUME PostingInv, NEW t \in Tokens, hPc[t] # "idle",
           EndPosting(t, TRUE) \/ EndRollback(t, TRUE)
    PROVE tRun[t] \in Runs /\ Promised!LoseSight({tRun[t]})
<1> DEFINE r == tRun[t]
<1>1. r \in Runs
  BY HandlerHasRun DEF PostingInv
<1>2. /\ UNCHANGED <<pDigest, tokenVars, tPurpose, eState, eToken, applied>>
      /\ \/ pStatus[r] = "submitting" /\ pStatus' = [pStatus EXCEPT ![r] = "ambiguous"]
         \/ pStatus[r] = "rollback_submitting"
              /\ pStatus' = [pStatus EXCEPT ![r] = "rollback_ambiguous"]
  BY DEF EndPosting, FailPosting, EndRollback, FailRollback, SetPosting, remoteVars, historyVars
<1> HIDE DEF r
<1>3. phases' = [x \in Runs |-> IF x \in {r} THEN Promised!OutOfSight(phases[x]) ELSE phases[x]]
  <2>1. \A x \in Runs \ {r} : pStatus'[x] = pStatus[x]
    BY <1>2 DEF PostingInv, TypeInv, TypeOK, RepositoryTypeOK
  <2>2. \/ pStatus[r] = "submitting" /\ pStatus'[r] = "ambiguous"
        \/ pStatus[r] = "rollback_submitting" /\ pStatus'[r] = "rollback_ambiguous"
    BY <1>1, <1>2 DEF PostingInv, TypeInv, TypeOK, RepositoryTypeOK
  <2>3. PhaseOf(pStatus'[r]) = Promised!OutOfSight(PhaseOf(pStatus[r]))
    BY <2>2 DEF PhaseOf, Completed, Promised!OutOfSight
  <2>4. \A x \in Runs : phases[x] = PhaseOf(pStatus[x])
    BY DEF phases
  <2>5. phases' = [x \in Runs |-> PhaseOf(pStatus'[x])]
    BY DEF phases, PhaseOf, Completed
  <2>6. \A x \in Runs : PhaseOf(pStatus'[x])
            = IF x \in {r} THEN Promised!OutOfSight(phases[x]) ELSE phases[x]
    BY <1>1, <2>1, <2>3, <2>4
  <2> QED
    BY <2>5, <2>6
<1>4. agreements' = agreements
  BY <1>2 DEF agreements, AgreedOf, PostingInv, TypeInv, TypeOK, RepositoryTypeOK
<1>5. UNCHANGED <<consents, remotes>>
  BY <1>2, ConsentsKept, RemotesKept DEF tokenVars
<1>6. Promised!LoseSight({r})
  BY <1>3, <1>4, <1>5 DEF Promised!LoseSight
<1> QED
  BY <1>1, <1>6 DEF r

\* Start-up gives up all attempts that were under way.
LEMMA RecoveryPromised ==
    ASSUME PostingInv, RecoverPostings
    PROVE Promised!LoseSight(Runs)
<1>1. /\ pStatus' = [r \in Runs |-> IF pStatus[r] \in {"submitting", "rollback_submitting"}
                                    THEN RecoveredStatus(pStatus[r]) ELSE pStatus[r]]
      /\ UNCHANGED <<pDigest, tokenVars, tPurpose, eState, eToken, applied>>
  BY DEF RecoverPostings, RecoverInterruptedPostings, remoteVars, historyVars
<1>2. phases' = [x \in Runs |-> IF x \in Runs THEN Promised!OutOfSight(phases[x]) ELSE phases[x]]
  BY <1>1 DEF phases, PhaseOf, Completed, RecoveredStatus, Promised!OutOfSight
<1>3. agreements' = agreements
  BY <1>1 DEF agreements, AgreedOf, RecoveredStatus
<1>4. UNCHANGED <<consents, remotes>>
  BY <1>1, ConsentsKept, RemotesKept DEF tokenVars
<1> QED
  BY <1>2, <1>3, <1>4 DEF Promised!LoseSight

\* complete_posting finds an expense made.
LEMMA CompletionPromised ==
    ASSUME PostingInv, NEW t \in Tokens, NEW verified \in BOOLEAN, ReadBack(t, verified)
    PROVE tRun[t] \in Runs /\ Promised!Done(tRun[t])
<1> DEFINE r == tRun[t]
<1>1. r \in Runs
  BY HandlerHasRun DEF ReadBack, PostingInv
<1>2. /\ pStatus[r] = "submitting"
      /\ \E s \in Completed : pStatus' = [pStatus EXCEPT ![r] = s]
      /\ UNCHANGED <<pDigest, tokenVars, tPurpose, eState, eToken, applied>>
  BY DEF ReadBack, CompletePosting, SetPosting, Completed, remoteVars, historyVars
<1>3. hTarget[t] \in Made(r)
  BY NoneIsNoValue DEF ReadBack, PostingInv, ExpenseInv, Made
<1>4. remotes[r] # "none"
  BY <1>1, <1>3 DEF remotes, RemoteOf
<1> HIDE DEF r
<1>5. phases[r] = "trying" /\ phases' = [phases EXCEPT ![r] = "done"]
  <2>1. PICK s \in Completed : pStatus' = [pStatus EXCEPT ![r] = s]
    BY <1>2
  <2>2. \A x \in Runs : pStatus'[x] = IF x = r THEN s ELSE pStatus[x]
    BY <2>1 DEF PostingInv, TypeInv, TypeOK, RepositoryTypeOK
  <2> QED
    BY <1>1, <1>2, <2>2 DEF phases, PhaseOf, Completed
<1>6. agreements' = agreements
  BY <1>2 DEF agreements, AgreedOf, Completed, PostingInv, TypeInv, TypeOK, RepositoryTypeOK
<1>7. UNCHANGED <<consents, remotes>>
  BY <1>2, ConsentsKept, RemotesKept DEF tokenVars
<1>8. Promised!Done(r)
  BY <1>4, <1>5, <1>6, <1>7 DEF Promised!Done, Promised!Become
<1> QED
  BY <1>1, <1>8 DEF r

\* rollback_splitwise spends the consent to roll back what was agreed.
LEMMA RollbackWithdraws ==
    ASSUME PostingInv, NEW q \in Requests, RollbackApproved(q)
    PROVE verify[q].run \in Runs /\ Promised!Withdraw(verify[q].run)
<1> DEFINE r == verify[q].run
           t == verify[q].token
           d == verify[q].digest
<1>1. /\ r \in Runs /\ t \in Tokens
      /\ tState[t] = "valid" /\ tRun[t] = r /\ tDigest[t] = d
      /\ tState' = [tState EXCEPT ![t] = "used"]
      /\ pStatus[r] \in Completed /\ pDigest[r] = d
      /\ pStatus' = [pStatus EXCEPT ![r] = "rollback_submitting"]
      /\ UNCHANGED <<pDigest, tRun, tDigest, tPurpose, eState, eToken, applied>>
  BY DEF RollbackApproved, ConsumeConfirmation, Consumable, ReserveRollback, SetPosting,
         remoteVars, historyVars, PostingInv, TypeInv, HandlersBound
<1> HIDE DEF r, t, d
<1>2. tPurpose[t] = "rollback"
  BY <1>1 DEF PostingInv, ApprovalInv, Live, Completed, StatusInv
<1>3. agreements[r] = d /\ agreements' = agreements
  BY <1>1 DEF agreements, AgreedOf, Completed, PostingInv, TypeInv, TypeOK, RepositoryTypeOK
<1>4. ConsentOf(r) = {Promised!ToRollback(d)}
  BY <1>1, <1>2, OnlyConsent DEF PostingInv, Allows, Promised!ToRollback
<1>5. consents[r] = {Promised!ToRollback(d)} /\ consents' = [consents EXCEPT ![r] = {}]
  BY <1>1, <1>4, ConsentGone DEF PostingInv, consents
<1>6. phases[r] = "done" /\ phases' = [phases EXCEPT ![r] = "withdrawing"]
  BY <1>1 DEF phases, PhaseOf, Completed, PostingInv, TypeInv, TypeOK, RepositoryTypeOK
<1>7. UNCHANGED remotes
  BY <1>1, RemotesKept
<1>8. Promised!Withdraw(r)
  BY <1>3, <1>5, <1>6, <1>7 DEF Promised!Withdraw, Promised!Spend, Promised!Become
<1> QED
  BY <1>1, <1>8 DEF r

\* A delete that was not sent, or was refused, has removed nothing.
LEMMA RollbackFailurePromised ==
    ASSUME PostingInv, NEW t \in Tokens, Deleting(t),
           hPc[t] = "delete_waiting" => t \in refused, EndRollback(t, FALSE)
    PROVE tRun[t] \in Runs /\ Promised!NothingRemoved(tRun[t])
<1> DEFINE r == tRun[t]
<1>1. r \in Runs
  BY HandlerHasRun DEF PostingInv, Deleting
<1>2. /\ pStatus[r] = "rollback_submitting"
      /\ \E s \in Completed : pStatus' = [pStatus EXCEPT ![r] = s]
      /\ UNCHANGED <<pDigest, tokenVars, tPurpose, eState, eToken, applied>>
  BY DEF EndRollback, FailRollback, SetPosting, remoteVars, historyVars
<1>3. ~ Removed(r)
  BY DEF PostingInv, DeleteInv, DeleteCounts, Deleting, Removed, TypeInv, TypeOK
<1>4. remotes[r] # "removed"
  BY <1>1, <1>3 DEF remotes, RemoteOf
<1> HIDE DEF r
<1>5. phases[r] = "withdrawing" /\ phases' = [phases EXCEPT ![r] = "done"]
  <2>1. PICK s \in Completed : pStatus' = [pStatus EXCEPT ![r] = s]
    BY <1>2
  <2>2. \A x \in Runs : pStatus'[x] = IF x = r THEN s ELSE pStatus[x]
    BY <2>1 DEF PostingInv, TypeInv, TypeOK, RepositoryTypeOK
  <2> QED
    BY <1>1, <1>2, <2>2 DEF phases, PhaseOf, Completed
<1>6. agreements' = agreements
  BY <1>2 DEF agreements, AgreedOf, Completed, PostingInv, TypeInv, TypeOK, RepositoryTypeOK
<1>7. UNCHANGED <<consents, remotes>>
  BY <1>2, ConsentsKept, RemotesKept DEF tokenVars
<1>8. Promised!NothingRemoved(r)
  BY <1>4, <1>5, <1>6, <1>7 DEF Promised!NothingRemoved, Promised!Become
<1> QED
  BY <1>1, <1>8 DEF r

\* mark_rolled_back finds the expense removed.
LEMMA RollbackPromised ==
    ASSUME PostingInv, NEW t \in Tokens, DeleteAnswered(t)
    PROVE tRun[t] \in Runs /\ Promised!Withdrawn(tRun[t])
<1> DEFINE r == tRun[t]
<1>1. r \in Runs
  BY HandlerHasRun DEF PostingInv, DeleteAnswered
<1>2. /\ pStatus[r] = "rollback_submitting"
      /\ pStatus' = [pStatus EXCEPT ![r] = "rolled_back"]
      /\ UNCHANGED <<pDigest, tokenVars, tPurpose, eState, eToken, applied>>
  BY DEF DeleteAnswered, MarkRolledBack, SetPosting, remoteVars, historyVars
<1>3. pExpense[r] \in Made(r) /\ Removed(r)
  BY <1>1, <1>2
     DEF DeleteAnswered, PostingInv, ExpenseInv, AfterPosting, DeleteInv, DeleteCounts, Deleting,
         Removed
<1>4. remotes[r] = "removed"
  BY <1>1, <1>3 DEF remotes, RemoteOf
<1> HIDE DEF r
<1>5. phases[r] = "withdrawing" /\ phases' = [phases EXCEPT ![r] = "withdrawn"]
  BY <1>1, <1>2 DEF phases, PhaseOf, Completed, PostingInv, TypeInv, TypeOK, RepositoryTypeOK
<1>6. agreements' = agreements
  BY <1>2 DEF agreements, AgreedOf, PostingInv, TypeInv, TypeOK, RepositoryTypeOK
<1>7. UNCHANGED <<consents, remotes>>
  BY <1>2, ConsentsKept, RemotesKept DEF tokenVars
<1>8. Promised!Withdrawn(r)
  BY <1>4, <1>5, <1>6, <1>7 DEF Promised!Withdrawn, Promised!Become
<1> QED
  BY <1>1, <1>8 DEF r

-----------------------------------------------------------------------------
(* The destination *)

\* The destination makes the one expense of a run that is being tried, or was.
LEMMA CreateMakes ==
    ASSUME PostingInv, NEW t \in Tokens, NEW e \in Expenses, ApplyCreate(t, e)
    PROVE tRun[t] \in Runs /\ Promised!Make(tRun[t])
<1>0. PICK r \in Runs : r = tRun[t]
  BY DEF ApplyCreate, PostingInv, AttemptInv, FreshTokens, Counts, TypeInv, HandlersBound
<1>1. pStatus[r] \in {"submitting", "ambiguous"} /\ tPurpose[t] = "post"
  BY <1>0 DEF ApplyCreate, PostingInv, AttemptInv, FreshTokens, OneAttempt, Counts, PayloadInv,
         TypeInv, HandlersBound
<1>2. /\ t \in creates /\ eState[e] = "absent" /\ eToken[e] = None
      /\ applied' = applied \cup {t}
      /\ eState' = [eState EXCEPT ![e] = "live"] /\ eToken' = [eToken EXCEPT ![e] = t]
      /\ UNCHANGED <<pStatus, pDigest, tokenVars, tRun, tPurpose>>
  BY DEF ApplyCreate, PostingInv, ExpenseInv, repoVars, postingVars, tokenVars, historyVars
<1>3. /\ \A x \in Expenses : eToken'[x] = IF x = e THEN t ELSE eToken[x]
      /\ \A x \in Expenses : eState'[x] = IF x = e THEN "live" ELSE eState[x]
  BY <1>2 DEF PostingInv, TypeInv, TypeOK
<1>4. Made(r) = {} /\ Made(r)' = {e}
  <2>1. Made(r) = {}
    BY <1>0, <1>2
       DEF PostingInv, AttemptInv, OneAttempt, AttemptPhases, Made, Counts, TypeInv, TypeOK
  <2> QED
    BY <1>0, <1>2, <1>3, <2>1, NoneIsNoValue DEF Made
<1>5. ~ Removed(r)'
  BY <1>0, <1>1, <1>2
     DEF Removed, PostingInv, DeleteInv, DeleteCounts, TypeInv, TypeOK
<1>6. remotes[r] = "none" /\ RemoteOf(r)' = "there"
  BY <1>1, <1>3, <1>4, <1>5 DEF remotes, RemoteOf
<1>7. ASSUME NEW x \in Runs, x # r PROVE RemoteOf(x)' = RemoteOf(x)
  <2>1. Made(x)' = Made(x)
    BY <1>0, <1>2, <1>3, <1>7 DEF Made
  <2>2. Removed(x)' <=> Removed(x)
    BY <1>0, <1>2, <1>7 DEF Removed
  <2>3. \A y \in Made(x) : eState'[y] = eState[y]
    BY <1>2, <1>3 DEF Made
  <2> QED
    BY <2>1, <2>2, <2>3 DEF RemoteOf
<1>8. remotes' = [remotes EXCEPT ![r] = "there"]
  BY <1>1, <1>6, <1>7, RemotesSet
<1>9. phases[r] \in {"trying", "unknown"}
  BY <1>1 DEF phases, PhaseOf, Completed
<1>10. UNCHANGED <<consents, phases, agreements>>
  BY <1>2, ConsentsKept, PhasesKept, AgreementsKept
<1>11. Promised!Make(r)
  BY <1>6, <1>8, <1>9, <1>10 DEF Promised!Make, Promised!Turn
<1> QED
  BY <1>0, <1>11

\* The destination removes the expense of a run that is being rolled back, or was.
LEMMA DeleteRemoves ==
    ASSUME PostingInv, NEW t \in Tokens, ApplyDelete(t)
    PROVE tRun[t] \in Runs /\ Promised!Remove(tRun[t])
<1>0. PICK r \in Runs : r = tRun[t]
  BY DEF ApplyDelete, PostingInv, AttemptInv, FreshTokens, TypeInv, HandlersBound
<1>1. /\ tPurpose[t] = "rollback" /\ hTarget[t] = pExpense[r]
      /\ pStatus[r] \in {"rollback_submitting", "rollback_ambiguous", "rolled_back"}
      /\ t \notin applied
  BY <1>0 DEF ApplyDelete, PostingInv, DeleteInv, DeleteCounts
<1>5. PICK e \in Made(r) : e = hTarget[t]
  BY <1>1 DEF PostingInv, ExpenseInv, AfterPosting
<1>2. /\ eState[e] \in {"live", "changed"}
      /\ applied' = applied \cup {t} /\ eState' = [eState EXCEPT ![e] = "deleted"]
      /\ UNCHANGED <<pStatus, pDigest, tokenVars, tRun, tPurpose, eToken>>
  BY <1>5 DEF ApplyDelete, repoVars, postingVars, tokenVars, historyVars
<1>3. t \in deletes
  BY DEF ApplyDelete
<1>4. pStatus[r] \in {"rollback_submitting", "rollback_ambiguous"}
  BY <1>1, <1>2, <1>5 DEF PostingInv, GoneInv
<1>6. ~ Removed(r)
  BY <1>0, <1>1, <1>3 DEF Removed, PostingInv, DeleteInv, DeleteCounts, TypeInv, TypeOK
<1>7. remotes[r] = "there"
  BY <1>1, <1>2, <1>5, <1>6 DEF remotes, RemoteOf
<1>8. RemoteOf(r)' = "removed"
  <2>1. Made(r)' = Made(r)
    BY <1>2 DEF Made
  <2>2. Removed(r)'
    BY <1>0, <1>1, <1>2 DEF Removed
  <2> QED
    BY <1>5, <2>1, <2>2 DEF RemoteOf
<1>9. ASSUME NEW x \in Runs, x # r PROVE RemoteOf(x)' = RemoteOf(x)
  <2>1. Made(x)' = Made(x)
    BY <1>2 DEF Made
  <2>2. Removed(x)' <=> Removed(x)
    BY <1>0, <1>2, <1>9 DEF Removed
  <2>3. \A y \in Made(x) : eState'[y] = eState[y]
    BY <1>2, <1>5, <1>9 DEF Made, PostingInv, TypeInv, TypeOK
  <2> QED
    BY <2>1, <2>2, <2>3 DEF RemoteOf
<1>10. remotes' = [remotes EXCEPT ![r] = "removed"]
  BY <1>1, <1>8, <1>9, RemotesSet
<1>11. phases[r] \in {"withdrawing", "withdrawal unknown"}
  BY <1>1, <1>4 DEF phases, PhaseOf, Completed
<1>12. UNCHANGED <<consents, phases, agreements>>
  BY <1>2, ConsentsKept, PhasesKept, AgreementsKept
<1>13. Promised!Remove(r)
  BY <1>7, <1>10, <1>11, <1>12 DEF Promised!Remove, Promised!Turn
<1> QED
  BY <1>0, <1>13

\* Somebody changes an expense: it is still there.
LEMMA ChangeStutters ==
    ASSUME PostingInv, NEW e \in Expenses, OthersChange(e)
    PROVE UNCHANGED Promised!promiseVars
<1>1. /\ eState[e] = "live" /\ eState' = [eState EXCEPT ![e] = "changed"]
      /\ UNCHANGED <<pStatus, pDigest, tokenVars, tRun, tPurpose, eToken, applied>>
  BY DEF OthersChange, repoVars, postingVars, tokenVars, historyVars
<1>2. \A x \in Expenses : eState'[x] # "deleted" <=> eState[x] # "deleted"
  BY <1>1 DEF PostingInv, TypeInv, TypeOK
<1>3. ASSUME NEW r \in Runs PROVE RemoteOf(r)' = RemoteOf(r)
  <2>1. Made(r)' = Made(r)
    BY <1>1 DEF Made
  <2>2. Removed(r)' <=> Removed(r)
    BY <1>1 DEF Removed
  <2>3. \A y \in Made(r) : eState'[y] # "deleted" <=> eState[y] # "deleted"
    BY <1>2 DEF Made
  <2> QED
    BY <2>1, <2>2, <2>3 DEF RemoteOf
<1>4. remotes' = remotes
  BY <1>3 DEF remotes
<1> QED
  BY <1>1, <1>4, ConsentsKept, PhasesKept, AgreementsKept DEF Promised!promiseVars

\* Somebody deletes an expense: the run it was made for has lost it.
LEMMA DeletionTakes ==
    ASSUME PostingInv, NEW e \in Expenses, OthersDelete(e)
    PROVE UNCHANGED Promised!promiseVars \/ \E r \in Runs : Promised!Take(r)
<1>1. /\ eState[e] \in {"live", "changed"} /\ eState' = [eState EXCEPT ![e] = "deleted"]
      /\ UNCHANGED <<pStatus, pDigest, tokenVars, tRun, tPurpose, eToken, applied>>
  BY DEF OthersDelete, repoVars, postingVars, tokenVars, historyVars
<1>2. \A x \in Expenses : eState'[x] = IF x = e THEN "deleted" ELSE eState[x]
  BY <1>1 DEF PostingInv, TypeInv, TypeOK
<1>3. \A r \in Runs : Made(r)' = Made(r)
  BY <1>1 DEF Made
<1>4. \A r \in Runs : Removed(r)' <=> Removed(r)
  BY <1>1 DEF Removed
<1>5. ASSUME NEW r \in Runs, e \notin Made(r) PROVE RemoteOf(r)' = RemoteOf(r)
  <2>1. \A y \in Made(r) : eState'[y] = eState[y]
    BY <1>2, <1>5 DEF Made
  <2> QED
    BY <1>3, <1>4, <2>1 DEF RemoteOf
<1>6. UNCHANGED <<consents, phases, agreements>>
  BY <1>1, ConsentsKept, PhasesKept, AgreementsKept
<1>7. CASE \A r \in Runs : RemoteOf(r)' = RemoteOf(r)
  <2>1. remotes' = remotes
    BY <1>7 DEF remotes
  <2> QED
    BY <1>6, <2>1 DEF Promised!promiseVars
<1>8. CASE ~ \A r \in Runs : RemoteOf(r)' = RemoteOf(r)
  <2>1. PICK r \in Runs : RemoteOf(r)' # RemoteOf(r)
    BY <1>8
  <2>2. e \in Made(r)
    BY <1>5, <2>1
  <2>3. \A x \in Runs \ {r} : e \notin Made(x)
    BY <2>2 DEF Made
  <2>4. Made(r) = {e}
    BY <2>2 DEF PostingInv, AttemptInv, OneAttempt, AttemptPhases, Counts, Made, TypeInv, TypeOK
  <2>5. ~ Removed(r)
    BY <1>3, <1>4, <2>1, <2>2 DEF RemoteOf
  <2>6. RemoteOf(r) = "there" /\ RemoteOf(r)' = "taken"
    BY <1>1, <1>2, <1>3, <1>4, <2>4, <2>5 DEF RemoteOf
  <2>7. remotes[r] = "there" /\ remotes' = [remotes EXCEPT ![r] = "taken"]
    BY <1>5, <2>3, <2>6, RemotesSet DEF remotes
  <2>8. Promised!Take(r)
    BY <1>6, <2>7 DEF Promised!Take, Promised!Turn
  <2> QED
    BY <2>8
<1> QED
  BY <1>7, <1>8

-----------------------------------------------------------------------------
(* The refinement *)

\* The actions of Promise that one run takes alone are steps of it.
LEMMA RunSteps ==
    ASSUME NEW r \in Runs,
           \/ Promised!Lapse(r) \/ Promised!NothingMade(r) \/ Promised!Done(r)
           \/ \E d \in Digests : \/ Promised!Consent(r, Promised!ToPost(d))
                                 \/ Promised!Consent(r, Promised!ToRollback(d))
                                 \/ Promised!Try(r, d)
           \/ Promised!Withdraw(r) \/ Promised!NothingRemoved(r) \/ Promised!Withdrawn(r)
           \/ Promised!LoseSight({r})
           \/ Promised!Make(r) \/ Promised!Remove(r) \/ Promised!Take(r)
    PROVE Promised!Next
  BY DEF Promised!Next

\* The requests of the operator: consents, their lapse, and a posting.
LEMMA OperatorPromised ==
    ASSUME PostingInv, Operator
    PROVE Promised!Next \/ UNCHANGED Promised!promiseVars
<1>1. ASSUME NEW r \in Runs, NEW b \in Bills, ReviewBill(r, b) PROVE Promised!Next
  BY <1>1, ReviewLapses, RunSteps DEF ReviewBill, ReplaceBillReview, PostingInv
<1>2. ASSUME NEW r \in Runs, NEW h \in Households, CreatePreview(r, h) PROVE Promised!Next
  BY <1>2, ReviewLapses, RunSteps DEF CreatePreview, SavePreview, PostingInv
<1>3. ASSUME NEW r \in Runs, NEW h \in Households, PreviewUnresolved(r, h) PROVE Promised!Next
  BY <1>3, ReviewLapses, RunSteps DEF PreviewUnresolved, ReplaceBillReview, PostingInv
<1>4. ASSUME NEW r \in Runs, NEW t \in Tokens, RequestConfirmation(r, t) PROVE Promised!Next
  BY <1>4, ConsentToPost, RunSteps
<1>5. ASSUME NEW r \in Runs, NEW t \in Tokens, RequestRollbackConfirmation(r, t)
      PROVE Promised!Next
  BY <1>5, ConsentToRollback, RunSteps
<1>6. ASSUME NEW r \in Runs, NEW t \in Tokens, PostRequest(r, t) PROVE Promised!Next
  BY <1>6, PostTries, RunSteps
<1>7. ASSUME NEW q \in Requests, NEW r \in Runs, NEW t \in Tokens, RollbackRequest(q, r, t)
      PROVE UNCHANGED Promised!promiseVars
  BY <1>7, PromiseStutters
     DEF RollbackRequest, repoVars, postingVars, tokenVars, remoteVars, historyVars
<1> QED
  BY <1>1, <1>2, <1>3, <1>4, <1>5, <1>6, <1>7 DEF Operator

\* The handler of a posting: what it learns of the attempt.
LEMMA PostHandlerPromised ==
    ASSUME PostingInv, NEW t \in Tokens, PostHandler(t)
    PROVE Promised!Next \/ UNCHANGED Promised!promiseVars
<1>1. ASSUME SendCreate(t) PROVE UNCHANGED Promised!promiseVars
  BY <1>1, PromiseStutters DEF SendCreate, repoVars, postingVars, tokenVars, historyVars
<1>2. ASSUME CreateNotSent(t) \/ CreateRefused(t) PROVE Promised!Next
  BY <1>2, FailurePromised, RunSteps DEF CreateNotSent, CreateRefused
<1>3. ASSUME CreateUnclear(t) PROVE Promised!Next
  BY <1>3, UnclearPromised, RunSteps DEF CreateUnclear
<1>4. ASSUME NEW e \in Expenses, CreateAnswered(t, e) PROVE UNCHANGED Promised!promiseVars
  BY <1>4, PromiseStutters
     DEF CreateAnswered, repoVars, postingVars, tokenVars, remoteVars, historyVars
<1>5. ASSUME CreateUncaught(t) PROVE UNCHANGED Promised!promiseVars
  BY <1>5, PromiseStutters
     DEF CreateUncaught, repoVars, postingVars, tokenVars, remoteVars, historyVars
<1>6. ASSUME NEW verified \in BOOLEAN, ReadBack(t, verified) PROVE Promised!Next
  BY <1>6, CompletionPromised, RunSteps
<1> QED
  BY <1>1, <1>2, <1>3, <1>4, <1>5, <1>6 DEF PostHandler

\* The handler of a rollback, before and after its confirmation.
LEMMA RollbackHandlerPromised ==
    ASSUME PostingInv, \/ \E t \in Tokens : RollbackHandler(t)
                       \/ \E q \in Requests : VerifyHandler(q)
    PROVE Promised!Next \/ UNCHANGED Promised!promiseVars
<1>1. ASSUME NEW t \in Tokens, SendDelete(t) PROVE UNCHANGED Promised!promiseVars
  BY <1>1, PromiseStutters DEF SendDelete, repoVars, postingVars, tokenVars, historyVars
<1>2. ASSUME NEW t \in Tokens, DeleteNotSent(t) \/ DeleteRefused(t) PROVE Promised!Next
  BY <1>2, RollbackFailurePromised, RunSteps DEF DeleteNotSent, DeleteRefused, Deleting
<1>3. ASSUME NEW t \in Tokens, DeleteUnclear(t) PROVE Promised!Next
  BY <1>3, UnclearPromised, RunSteps DEF DeleteUnclear
<1>4. ASSUME NEW t \in Tokens, DeleteAnswered(t) PROVE Promised!Next
  BY <1>4, RollbackPromised, RunSteps
<1>5. ASSUME NEW t \in Tokens, DeleteUncaught(t) PROVE UNCHANGED Promised!promiseVars
  BY <1>5, PromiseStutters
     DEF DeleteUncaught, repoVars, postingVars, tokenVars, remoteVars, historyVars
<1>6. ASSUME NEW q \in Requests, VerifyMatches(q) \/ VerifyFails(q) \/ RollbackDenied(q)
      PROVE UNCHANGED Promised!promiseVars
  BY <1>6, PromiseStutters
     DEF VerifyMatches, VerifyFails, RollbackDenied, repoVars, postingVars, tokenVars, remoteVars,
         historyVars
<1>7. ASSUME NEW q \in Requests, RollbackApproved(q) PROVE Promised!Next
  BY <1>7, RollbackWithdraws, RunSteps
<1> QED
  BY <1>1, <1>2, <1>3, <1>4, <1>5, <1>6, <1>7 DEF RollbackHandler, VerifyHandler

\* The destination: it makes and removes what it was asked to, and loses things.
LEMMA DestinationPromised ==
    ASSUME PostingInv, Destination
    PROVE Promised!Next \/ UNCHANGED Promised!promiseVars
<1>1. ASSUME NEW t \in Tokens, NEW e \in Expenses, ApplyCreate(t, e) PROVE Promised!Next
  BY <1>1, CreateMakes, RunSteps
<1>2. ASSUME NEW t \in Tokens, RefuseCreate(t) \/ RefuseDelete(t)
      PROVE UNCHANGED Promised!promiseVars
  BY <1>2, PromiseStutters
     DEF RefuseCreate, RefuseDelete, repoVars, postingVars, tokenVars, historyVars
<1>3. ASSUME NEW t \in Tokens, ApplyDelete(t) PROVE Promised!Next
  BY <1>3, DeleteRemoves, RunSteps
<1>4. ASSUME NEW e \in Expenses, OthersChange(e) PROVE UNCHANGED Promised!promiseVars
  BY <1>4, ChangeStutters
<1>5. ASSUME NEW e \in Expenses, OthersDelete(e)
      PROVE Promised!Next \/ UNCHANGED Promised!promiseVars
  BY <1>5, DeletionTakes, RunSteps
<1> QED
  BY <1>1, <1>2, <1>3, <1>4, <1>5 DEF Destination

\* A death loses a consent at most; start-up gives up what was under way.
LEMMA LifecyclePromised ==
    ASSUME PostingInv, Lifecycle
    PROVE Promised!Next \/ UNCHANGED Promised!promiseVars
<1>1. ASSUME Crash PROVE UNCHANGED Promised!promiseVars
  BY <1>1, PromiseStutters DEF Crash, MemoryLost, postingVars, tokenVars, remoteVars, historyVars
<1>2. ASSUME StartUp PROVE UNCHANGED Promised!promiseVars
  BY <1>2, PromiseStutters
     DEF StartUp, RecoverInterruptedRuns, postingVars, tokenVars, remoteVars, historyVars
<1>3. ASSUME RecoverPostings PROVE Promised!Next
  BY <1>3, RecoveryPromised DEF Promised!Next
<1>4. ASSUME NEW r \in Runs, PreviewKilled(r) PROVE Promised!Next
  BY <1>4, ReviewLapses, RunSteps DEF PreviewKilled, ReplaceBillReview, MemoryLost, PostingInv
<1>5. ASSUME NEW r \in Runs, NEW t \in Tokens, PostKilled(r, t) PROVE Promised!Next
  <2>1. tRun[t] \in Runs /\ Promised!Lapse(tRun[t])
    BY <1>5, TokenLapses
       DEF PostKilled, ConsumeConfirmation, Consumable, MemoryLost, PostingInv
  <2> QED
    BY <2>1, RunSteps
<1>6. ASSUME NEW q \in Requests, RollbackKilled(q) PROVE Promised!Next
  <2>1. PICK t \in Tokens : t = verify[q].token
    BY <1>6 DEF RollbackKilled, PostingInv, TypeInv, HandlersBound
  <2>2. tRun[t] \in Runs /\ Promised!Lapse(tRun[t])
    BY <1>6, <2>1, TokenLapses
       DEF RollbackKilled, ConsumeConfirmation, Consumable, MemoryLost, PostingInv
  <2> QED
    BY <2>2, RunSteps
<1> QED
  BY <1>1, <1>2, <1>3, <1>4, <1>5, <1>6 DEF Lifecycle

\* Every step of Posting is one of Promise, or changes nothing Promise speaks of.
LEMMA PromiseStep ==
    PostingInv /\ [Next]_vars => [Promised!Next]_(Promised!promiseVars)
<1> SUFFICES ASSUME PostingInv, [Next]_vars
             PROVE Promised!Next \/ UNCHANGED Promised!promiseVars
  OBVIOUS
<1>1. ASSUME NEW t \in Tokens, TokenExpires(t) PROVE Promised!Next
  BY <1>1, TokenLapses, RunSteps DEF TokenExpires, ExpireToken, PostingInv
<1>2. CASE UNCHANGED vars
  BY <1>2, PromiseStutters
     DEF vars, repoVars, postingVars, tokenVars, remoteVars, historyVars
<1> QED
  BY <1>1, <1>2, OperatorPromised, PostHandlerPromised, RollbackHandlerPromised,
     DestinationPromised, LifecyclePromised DEF Next

\* The initial states of Posting are those of Promise.
LEMMA PromiseInitially ==
    Init => Promised!Init
<1> SUFFICES ASSUME Init PROVE Promised!Init
  OBVIOUS
<1>1. consents = [r \in Runs |-> {}]
  BY DEF Init, consents, ConsentOf
<1>2. phases = [r \in Runs |-> "open"]
  BY DEF Init, phases, PhaseOf, Completed
<1>3. agreements = [r \in Runs |-> None]
  BY DEF Init, agreements, AgreedOf
<1>4. remotes = [r \in Runs |-> "none"]
  BY DEF Init, remotes, RemoteOf, Made
<1> QED
  BY <1>1, <1>2, <1>3, <1>4 DEF Promised!Init

\* Posting implements Promise.
THEOREM KeepsPromise == Spec => PromiseKept
  BY PromiseInitially, PromiseStep, PostingInvariant, PTL
     DEF Spec, PromiseKept, Promised!Spec
=============================================================================
