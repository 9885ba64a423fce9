# WaySplit, verified

WaySplit reads a statement, extracts a bill from it with a local or remote
model, lets the operator review it, allocates it to the members of a household
and, after an explicit confirmation, posts it to Splitwise as one expense, which
can be rolled back as explicitly. It is one Python process with one asyncio
event loop over one SQLite database. This directory holds TLA+ models of it, the
TLC configurations that check them, and proofs, for every size of every instance, of
the safety properties of all of them.

## The system

| Component | State | Operations | What is hard | What makes it correct |
|---|---|---|---|---|
| **Repository** (`repository.py`) | tables `runs`, `postings`, `confirmations`; two partial unique indexes | one SQLite transaction per method, guarded by the statuses it starts from | the status lists of a dozen methods must fit together; a posting and its run each have a status column; start-up must judge what a dead process left | the columns never drift apart; a settled outcome is never overwritten; one statement is active once |
| **Posting and rollback** (`service.py`, endpoints in `web.py`) | what a handler holds across an `await` | review, preview, confirmation, post, rollback confirmation, rollback | handlers interleave at every `await`; the process may die between two commits of one handler; a request sent may be applied after its sender gave up | at most one expense per run; what is posted is what was confirmed; the records tell the truth about the destination |
| **Splitwise client** (`destinations/splitwise.py`) | none | create with read-back, verify, delete | every outcome of a non-idempotent request must be classified as done, not done or unknown | only a definite failure leads to a second attempt |
| **Extraction** (`service.py` `process_run`, `POST /api/runs`) | upload directory, background jobs, `_processing_lock` | store, create run, process, erase, recover | row and file change in two steps; uploads finish in any order; crashes; a forced shutdown that cancels jobs | no run is stuck; no row of a running server names a missing file; uploads are erased |
| **Audit ledger** (`audit.py`) | hash-chained table `audit_entries` | append in the caller's transaction, verify, `contains_event` | the chain and the state must commit together; rows may be lost or changed outside | an event is there exactly when its transaction committed; a chain that verifies is the one it was |
| **Database file** (`repository.py` `_initialize`, migration, backup) | schema versions, indexes, the form of `runs`; one connection and one write lock | open, back up, migrate, rebuild the indexes, in the server and in commands | opening is a dozen statements that commit one by one; death or a failed copy between any two; another process beside it | nothing is lost; the next start can go on; duplicates are never admitted |
| **Probe attestations** (`web.py` `ProbeAttestationStore`, `probe_model`) | in-memory map bound to session, endpoint and model | issue, require, expire, evict; the second probe of a job | eviction at the limit, expiry between probe and upload; the model may be replaced at any time | an upload has a valid attestation of its own session and model; its document goes to the probed version or to one put there after the second probe |
| **Ingestion worker** (`ingest_worker.py`) | child process, its process group and a pipe | start, wait, receive, join, terminate, kill | the answer races the timeout; the worker may stall or die at any point, with an OCR program of its own | the call ends; only a whole answer of a worker that exited by itself is used; no worker is left behind |
| **Ingestion budgets** (`ingest.py`) | running totals | add page, pixels, text, image | boundaries, base64 growth, guards that must agree with reservations, further limits behind | totals are exact; an accepted document is never refused further on |
| **Allocation, money** (`domain/allocation.py`, `money.py`) | pure | `allocate_largest_remainder`, `allocate_bill` | rounding, ties, negative amounts, totals beyond the limit of an amount | shares sum to the bill and are proportional to the cent |
| **Gates, reconciliation, fingerprint** (`domain/`) | pure | `evaluate_posting_gate`, `reconcile_bill`, `bill_fingerprint` | the gate, the repair of a bill and the allocation must agree on one bill | a blocked bill never becomes `ready`; what is ready matches the statement |
| **Household and preview** (`household.py`) | pure | `build_expense_preview` | its blockers must foresee every refusal of `build_create_payload` | blockers are complete |
| **Model gateway** (`model_gateway.py`) | HTTP client | probe, extract | pure I/O | |
| **Browser client** (`static/app.js`) | the run shown, a timer, requests under way | open a run, poll it, forms | answers come in any order, late or never | the page follows the run it shows until its outcome is there |
| **Commands** (`cli.py`) | none | `doctor` and `audit-verify` open the database and verify the chain | they may run beside a server | the server is not disturbed |
| **Settings, packaging** | configuration | | | |

How they interact: an endpoint of `web.py` calls one method of
`WaySplitService`; that method reads and writes through `Repository` (each call
one transaction, holding a lock, never awaiting) and awaits only the client of
the destination, the model, or the worker. `Repository` appends to the audit
ledger inside its own transactions, and the service reads two kinds of fact back
with `contains_event` before it posts or rolls back. Uploads start a background
job; the `lifespan` function runs the two recoveries before it serves requests.

PROJECT.json lists the components with their status, and under "hazards" the
places that are hard to test, each with the property that covers it or the
reason why none does yet.

## Modules

| Module | Models |
|---|---|
| `Repository` | the tables as families of columns, one operator per transaction, the unique indexes, the facts of the audit chain, start-up recovery |
| `Posting` | the endpoints from review to rollback, their handlers split at each `await`, the wire, the destination, other people there, death and restart |
| `Extraction` | uploads, background jobs under the lock, the upload directory, death and restart |
| `WaySplit` | both over one database: `Posting` extended, `Extraction` as an instance, common death and start-up |
| `PostingInvariants`, `ExtractionInvariants` | the inductive invariants of `Posting` and of `Extraction`, by parts |
| `PostingProofs` | the theorems about `Posting`, and that it implements `Promise` |
| `ExtractionProofs` | the theorems about `Extraction` |
| `WaySplitProofs` | the theorems about `Posting` in company: with `Extraction` (`WaySplit`) and with a page (`Browser`) |
| `Promise` | the abstract specification: what is promised about the expense of a run, without tokens, handlers, requests or crashes |
| `PostingPromise` | the refinement mapping from `Posting` to `Promise` |
| `IngestWorker` | one call of `extract_document_isolated`: the server's waits and signals, the worker, its OCR program, the pipe |
| `IngestionProofs` | the theorems about `IngestWorker` and `Ingestion` |
| `Allocation` | amounts, reconciliation, the gate, ownership, the split of one charge, and the definition of a fair split |
| `Preview` | from a reviewed bill and a household to the payload of an expense, charge by charge |
| `Attestations` | probes, the store of attestations, uploads that present one, the second probe of the job, models that are replaced meanwhile |
| `Ingestion` | what the worker of `IngestWorker` does while it works: reading page by page within the budgets, the message, the server's second check, the gateway's limits |
| `AuditLedger` | the hash chain as operators on rows: append, head hash, verify |
| `AuditedRuns` | the abstract specification of the database: an operation changes the runs and adds its events in one step, and duplicates are never active |
| `Database` | the file under both, statement by statement: opening, backup, migration, indexes, transactions with their events, commands beside the server, death, accidents |
| `Browser` | `Posting` extended by one page of the browser: the run it shows, its timer, its requests |
| `AttestationsProofs`, `DatabaseProofs`, `PreviewProofs` | the theorems about `Attestations`, `Database`, and `Allocation` with `Preview` |
| `FiniteSums` | lemmas about sums over finite sets and about the first few of an order, for `IngestionProofs` and `PreviewProofs` |
| `MCPosting`, `MCBrowser`, `MCExtraction`, `MCWaySplit`, `MCPreview`, `MCAttestations`, `MCIngestion`, `MCDatabase` | small instances |

**State and code.** A column of a table is a variable that is a function on the
key (`status[r]`, `pStatus[r]`, `tState[t]`); a deleted confirmation is a token
in state `"deleted"` whose other columns remain as history. Run status `"none"`
and posting status `"none"` mean that there is no row. A method of `Repository`
is an operator of nearly the same name (`ReservePosting` is `reserve_posting`);
its guards are the checks under which the code raises and rolls back.

**Actions and code.** Code between two awaits runs without interruption, so it is
one action, with every transaction it commits: `PostRequest` checks, consumes the
token and reserves the posting; `SendCreate` puts the request on the wire;
`CreateNotSent`, `CreateRefused`, `CreateUnclear` and `CreateAnswered` are the
ways in which `_non_idempotent_post` and `create_expense` end it; `ReadBack` is
the verification and `complete_posting`. Only death falls between two commits of
one segment: `PreviewKilled`, `PostKilled`, `RollbackKilled`. A handler past its
confirmation is named by the token it consumed. A request on the wire
(`creates`, `deletes`) is processed by the destination once, at any later time,
or never, whatever became of its sender, and the answer may be lost. Others may
change or delete an expense at any time.

**Abstractions.**
- A bill is a value with a fingerprint (`Fingerprint`), a gate verdict
  (`Approved`) and a repair (`Repair`, `_ignore_prior_cycle_payment`). An expense
  preview is a function of run, bill and household; the triple stands for the
  saved preview and for its digest (`confirmation_plan_digest` hashes exactly
  what determines it; collisions of SHA-256 are left out).
- Which pairs of bill and household can be allocated, posted or are for a local
  summary is given by `Resolved`, `Postable` and `LocalOnly`. The settings of the
  process are constant.
- The audit chain is the set of facts `contains_event` asks for. That the chain
  verifies is assumed here; `Database` checks it (`UntouchedChainVerifies`).
- Time is the expiry of a token at any moment. A used row's own expiry is left
  out: nothing reads it again.
- A destination that answers 4xx, an `errors` body or `success` other than true
  has not applied the request (external, as the client reads it).
- Exceptions that no `except` clause expects are one action each for create and
  delete, switched by `Uncaught`. They cover an access token that is not ASCII,
  an id such as `"²"` (`isdigit()` accepts it, `int()` does not) and numbers
  `json.loads` refuses to convert.
- A forced shutdown cancels what is under way. No `except Exception` catches a
  `CancelledError`, so the rows stay as they are, but two clauses still unlink: the
  `finally` of `_process_run` (unless sources are retained) and the
  `except BaseException` of `_store_upload`. `ForcedShutdown` unlinks any subset of
  these files, because the process may be killed before it is done; a job that waits
  for the lock has entered neither clause. To the handlers of posting, which have no
  such clause, a cancellation is a `Crash`; so is one of the start-up. `WaySplit` puts
  the two together. A source file that is missing when its job starts needs somebody
  else to delete it and is left out.

- The worker's message is a document or a refusal and comes in one piece or in
  two, as `Connection.send_bytes` writes it; in `IngestWorker` the checks on a
  decoded document are a choice, which `Ingestion` replaces by what the code does. SIGTERM and SIGKILL have their default effect on the worker: it runs
  nothing more, but may take longer to die than the server waits. The worker's
  number cannot be reused before it is collected. Left out: a process that cannot
  be started, and death of the server during the call.
- In `Allocation` an amount is a number of cents and a weight a positive integer
  (only ratios of weights are used); participants are numbered in the order of
  their ids. Every field of type `Money` keeps its limit, because sums that leave
  it raise.

- In `Ingestion` a text, an encoded image and a raster are their sizes, and pypdf,
  pdfium, Pillow and tesseract return any size. The headings `--- PAGE n ---` have
  one length. Whatever raises anything else ends in a refusal, which the worker may
  send at any stage.

- SQLite is external: one writer at a time, a statement outside a transaction is a
  transaction, an uncommitted transaction is gone when its process dies and a
  committed one stays (WAL, `synchronous = FULL`). `Database` has the operations of a
  run up to the end of its extraction, and `save_household` for the writes that
  change no run (`POST /api/splitwise/context`, whose `append` commits by itself, has
  the same effect on rows and trail); the others append in the same way. A hash is the tuple of what it
  is computed from. An accident changes the file while nobody has it open: a backup
  is restored, a row of the ledger is lost, changed, or written in other bytes.

- `Browser` puts one page beside the server of `Posting`; what it sees change is
  done by other clients. In this version of `app.js` the functions that post and roll
  back (`openConfirmation`, `postConfirmedPreview`, `openRollback`,
  `rollbackPosting`) are called from nowhere. The other run it may open waits for
  its review all along. One poll and one `loadRun` are under way at a time.

- In `Attestations` a model is an endpoint of the allowlist with a provider and a
  name; a version of it is the digest its provider reports. The provider may fail to
  report it, and an opaque one never does; the commitment is then to the identity
  alone, as in the code. A token is named by its probe and cannot be guessed. The
  synthetic statement passes or fails at will, whatever is served. Time is a clock
  of whole ticks. `Extraction` keeps the rows and files of the same upload and lets
  the second probe pass or fail; the two are not composed.

`Preview` is what the constants `Repair`, `Approved`, `Resolved`, `Postable` and
`LocalOnly` of `Repository` abstract, and `ReadyPlansArePayable` checks what
`BuildsPayload` there takes for granted: a ready plan has a payload exactly if it
is not a local summary.

**Operators named as faults.** Each module keeps, next to a definition, the
mutated forms of it that PROJECT.json names under "mutants" (comment `Fault:`).
No specification uses them; they show that each property can fail.

## Runs

| Run | Instance | Distinct states | Shows |
|---|---|---|---|
| `posting` (`MCPosting.cfg`) | 1 run, 3 bills, 4 households, 3 tokens, 2 expenses, 2 rollback requests, uncaught exceptions | 708 000 | all safety properties of posting |
| `browser` (`MCBrowser.cfg`) | 1 run and another, 2 tokens, 1 expense, 1 request, 1 `loadRun` at a time | 294 000 | without uncaught exceptions (finding 1), a submission always has a handler and gets an outcome (liveness); the page follows the run it shows (liveness) |
| `uncaught` (`MCUncaught.cfg`) | 1 run, 1 bill, 2 tokens, with uncaught exceptions | violation | finding 1 |
| `extraction` (`MCExtraction.cfg`) | 3 uploads, 2 contents, 3 bills (2 of one fingerprint) | 70 000 | rows name files that exist, but for those of cancelled jobs until the next start; every extraction ends (liveness) and uploads are erased |
| `erasure` (`MCErasure.cfg`) | 1 upload | violation | finding 2 |
| `whole_server` (`MCWaySplit.cfg`) | 2 uploads, 2 contents, 2 bills of one fingerprint, 2 tokens, 2 expenses | 418 000 | one expense per statement; extraction never disturbs a posting |
| `ingestion` (`MCIngestion.cfg`) | one call; up to 3 pages, 3 sizes of text, 4 of images, 3 of rasters | 972 000 | exact budgets; what is accepted passes every further limit; what is left behind, and that the call ends (liveness) |
| `preview` (`MCPreview.cfg`) | up to 3 charges, 8 households of 1 to 3 members, 7 cents | 21 000 | fair splits; ready plans match the statement and can be paid |
| `repair` (`MCRepair.cfg`) | as `preview` | violation | finding 3 |
| `attestations` (`MCAttestations.cfg`) | 3 probes, 2 entries, 2 sessions, 1 upload, 2 models (one opaque), 2 versions, 2 ticks | 3 320 000 | what the store holds, what an upload rests on, and which version gets its document |
| `database` (`MCDatabase.cfg`) | a new file, two of the first release and one of a later release; 2 runs, 2 contents, 1 fingerprint, 4 events, 1 death, 1 accident, 1 command, not beside the server | 536 000 | commits are operations with their events, the migration keeps everything and completes (liveness), what the chain is evidence of |
| `reindex` (`MCReindex.cfg`) | a new file, 2 runs, 1 command beside the server | violation | finding 4 |

**Bounds.** `Tokens` bounds the confirmations issued in a behaviour, `Requests`
the rollbacks that verify at once, `Expenses` what the destination may create.
One run is enough for the properties of `Posting`: runs share nothing there but
the fingerprint index, and `whole_server` has two. Three tokens allow a posting
that fails, a second one and a rollback, or a posting and two rollbacks. Two expenses are what a second creation
needs. Two rollback requests are what a race needs. The four households are the
four outcomes of a preview: complete, for a local summary, not resolvable,
blocked. Bills are: one the repair changes, one that passes and one that is
blocked; in extraction, two with one fingerprint of which one is blocked, and
another. Symmetry permutes tokens, expenses, runs, sessions and versions where
the run checks no liveness.

In `preview` the limit of an amount is 7 cents, so that sums cross it; the charges
are amounts of either sign up to the limit, shared, of a line with an owner,
without one, or of no line; the totals agree, or are off in the line items or the
amount due, and carry a payment with and without a balance or an adjustment that
offsets it. Three members with equal and unequal weights leave one and two cents
over. A household lacks a payer, a user id or a group, or keeps a local summary.

The store of attestations holds two entries, so that the third probe evicts one.
With a time to live of two ticks and a clock of two, entries of different ages are in
it together, and at the end one expires while another stays.
That a probe might be used across sessions or models needs two of each; two
versions are one replacement and its return.

In `ingestion` the limits are a few units, the relations among them those of the
code (`LimitsAreBelowTheGateways`, `MessageHasRoom`: with equality), and three pages
reach each of them exactly and one beyond: texts by the blank lines between pages,
images by bytes first or by characters first, rasters by each of their three sizes.

In `database` four events are two creations and an operation on each, or a start-up
that fails both runs; the legacy files hold two waiting runs, or one that
was reviewed and has a posting. One
death and one restored backup interrupt the migration at every statement once, and
`MigrationCompletes` holds for any interleaving of failed backups.

In `browser` one poll, one `loadRun` and one other run are what a late answer, an
answer to a run that is not shown any more and a timer cancelled for nothing need.
The extraction runs keep no sources (`RetainSource = FALSE`, the default).

**Deadlock** is checked in every run but those of `Ingestion`, `Preview` and
`Database`, which are one call, one request, and a bounded number of events, and end
for good; elsewhere the model may
always crash or restart.

**Fairness.**
- Posting: weak fairness of each handler. Every await is bounded (the `httpx`
  timeouts and `MAX_RESPONSE_BYTES` in `destinations/splitwise.py`), so a handler
  cannot wait for ever; the destination has no fairness at all.
- Restart: `compose.yaml` restarts the container. Weak fairness of the first
  recovery, strong fairness of the last: the process may die again while starting
  up, but not every time. The process may crash infinitely often.
- Extraction: weak fairness of each job (the model call and the worker have
  timeouts) and strong fairness of `StartJob`: `asyncio.Lock` wakes its waiters
  in order.

- Ingestion worker: weak fairness of the server, whose waits are timed, except
  `recv_bytes`. That one relies on a worker that has begun to write going on while
  the server reads (weak fairness of `SendRest` in that state); no deadline in the
  code enforces it. The worker has no other fairness: it may hang in its parser.

- Database: the server is started again whenever it is down and no command has the
  file (strong fairness of `Open`, from `compose.yaml`); a process that opens the file
  goes on (weak fairness of its steps), a command ends. Strong fairness of
  `BackupDone`: a disk that is full for ever prevents the migration.

- Browser: the event loop fires a timer that is due and runs a callback whose answer
  is there (weak fairness); a request is answered or fails. A poll the server could
  answer again and again is answered once (strong fairness of `PollAnswered`).
  `OutcomeIsShown` supposes a server that stays up from some moment on; that the
  run has an outcome then is `SubmissionSettles`, under the handlers' fairness.

## Properties

Posting: `AtMostOneExpense` (no second expense through crashes, timeouts, late
requests and retries), `PostedAsConfirmed` and `DeletedAsApproved` (what reaches
the destination was approved, for that purpose and that expense),
`ChangedExpenseIsKept` (an expense changed before the approval is not deleted),
`ClaimsHonest` (recorded outcomes agree with the destination),
`RunMirrorsPosting`, `ApprovalIsCurrent`, `RecordsStayUsable` (the checks against
the audit chain never lock the operator out), `InFlightIsHandled` (in `browser`), the action property `SettledIsFinal` and the liveness
property `SubmissionSettles`.

`PromiseKept` says the same from outside: `Posting` implements `Promise`, where a
run has a consent, a phase, an agreed plan and an expense. A valid token is a
consent for what it was issued for (the code does not keep that: the mapping
reads it from the history `tPurpose`), the posting's status is the phase, its
digest what was agreed, and the expenses made with the run's tokens are its
expense. In `Promise` an attempt needs a consent and spends it, a run is open
again only when no expense was made and none can be any more, and it is said to
be posted or rolled back only when it is.

Extraction: `NamedFileExists`, `ExtractionEnds`, `UploadsAreRemovedWhileAlive`.
`NamedFileExists` names the one case in which a row names a file that is gone: the
server is down, the run is `extracting`, sources are not retained. A job cancelled by a
forced shutdown unlinks its upload and leaves its row alone, and start-up clears the
path before it admits a request. Without `ForcedShutdown` no such row could be seen.

Both: `OneExpensePerStatement`, `PostingIsUndisturbed`.

Ingestion worker: `DocumentIsFromACleanExit` (a late answer, or one of a worker
that had to be stopped, is discarded), `WorkerIsGone` (neither a running worker nor
a zombie is left unless SIGKILL has no effect), `OcrIsLeftByTheDead` (an OCR program
is left unsignalled in one case only: its worker died by itself),
`SignalsReachTheWorker` (no signal to a number that has been given back) and
`CallEnds`.

Ingestion: `BudgetsAreExact` (between two pages every total is what the pages have
used, and what the guard on a page's text or on the encoder's output let through is
never refused by the reservation that follows) and `AcceptedDocumentsPass` (three
limits in three places, the worker's message, the server's second check and the
gateway's, never refuse a document that kept within its budgets).

Database: `CommitsAreOperations` says that `Database` implements `AuditedRuns`,
whatever is changed from outside: each commit is one operation with all its
events, through the migration, the rebuilding of indexes, exceptions and deaths.
`MigrationKeepsEverything` (rows, postings and ledger, with a complete backup of them),
`MigrationCompletes`, `StartNeverFails` (rows the program wrote never break the
indexes it creates at the next start). `UntouchedChainVerifies` and
`KeptHeadVouches` say what the chain is worth: the program never breaks it, and if the
operator has kept a head hash, a chain that verifies and still contains it has the
rows it had. (Rows dropped from the end verify: the hash has to be kept elsewhere.)

Browser: `PollingStopsOnlyByFailedOpen` names the only way in which the page stops to
follow a run in flight: `loadRun` cancels the timer before it asks for the other run,
and if that request fails nothing sets it again. `OutcomeIsShown`: in every other case
the outcome is shown, or another run.

Preview: `SplitsAreFair` compares the algorithm with a definition that does not
mention remainders: the shares add up, and no cent can be moved to bring them
closer to the proportional ones. `ReadyPlanMatchesStatement` and
`ReadyPlansArePayable` relate the gate, the allocation, the preview and the
payload; `OrdinaryBillsAreAllocated` says that only credits can make the
allocation of a reconciled bill leave the limit of an amount (a line whose charges
exceed it while another line's credits make up for it does raise).

Attestations: `UploadsAreAttested`; `StoreHoldsTheNewest` (an attestation is lost
before its time only to `MaxEntries` newer ones or to a restart);
`DocumentGoesToTheProbedVersion`, which says exactly how far the second probe
reaches: `docs/ARCHITECTURE.md` admits an interval in which a model can be replaced
unseen, and the property shows that it is the one from the second probe's look at
the digest to the document, reading by the worker included. Its history `putSince`
holds the versions put under the name in that interval: the document goes to the
probed version or to one of them, never to one that was there before. If the session's
probe got no digest nothing is promised but that some version passed; if it got one,
a second probe without a digest ends the job.

`DeletedAsApproved` and `PostingIsUndisturbed` are the two that hold for reasons
the code does not state. The table `confirmations` does not record what a token
is for, and both `consume_` methods accept any valid token of the run; that a
posting token cannot delete rests on `issue_rollback_confirmation` deleting the
others. `fail_run` would overwrite the statuses `submitting`,
`rollback_submitting` and `rollback_ambiguous`; that it never does rests on the
order of the job and the review.

## Findings

1. **A posting can be left without a handler** (`uncaught`).
   `post_to_splitwise` reserves the posting and then catches `DestinationError`
   and its subclass only. An exception of another kind leaves `submitting` in a
   running server until it is restarted, which makes it `ambiguous`. Safety is
   not affected: `posting` checks everything with such exceptions.
2. **An upload can outlive its run** (`erasure`). `source_path` is cleared in one
   commit and the file unlinked after it. Killed in between, nothing ever removes
   the file; `docs/PRIVACY.md` says that uploads are removed.
   `UploadsAreRemovedWhileAlive` shows that this is the only way.

3. **A reconciled bill may be "repaired" into one that does not reconcile**
   (`repair`). `_ignore_prior_cycle_payment` assumes that a payment, with no
   balance forward and the current charges due, makes the balance equation fail.
   If another adjustment offsets the payment the equation holds, the repair drops
   the payment all the same, and `create_preview` stores a blocked bill.

4. **Opening the database beside a server lets duplicates in** (`reindex`).
   `_refresh_retry_indexes` drops both unique indexes and creates them again in
   statements that commit one by one, on every opening, also by `waysplit doctor` and
   `waysplit audit-verify`. `create_run` has no other check for a duplicate. An upload
   in between makes a second active run of one statement, and the index cannot be
   created any more: no opening succeeds from then on (`StartNeverFails` holds as
   long as processes take turns).

## Proofs

Every safety property and action property above is a theorem of its specification,
for any sets of runs, bills, households, tokens, expenses, requests, processes or
participants, any limits and documents of any length. PROJECT.json lists the theorems
with the properties they state.

None of the properties is inductive. Each component therefore has an inductive
invariant, a conjunction of named parts (`PostingInv`, `JobInv`, `WholeInv`,
`PageInv`, `AttestationInv`, `ChainInv`, `AloneInv`, `CallInv`, `IngestInv`,
`PreviewInv`), which the initial states have and each action keeps.

### Posting (`PostingProofs`)

That a run makes one expense, for example, needs that a run with an attempt under way
is `submitting` (or it could be reserved again), that a refused request has not been
applied (or `failed` would be wrong), that an unused token has no handler and no
request on the wire (or a second handler could go by the same name), and that a
dead server has no handlers. `PostingInv` is the conjunction of

- `TypeInv`: the types, and that handlers name a run;
- `AttemptInv`: every attempt to create is in exactly one phase, and at most one
  of a run counts;
- `StatusInv`, `PrintsInv`: the status columns agree, and the fingerprint index
  holds. `StatusInv` is `RunMirrorsPosting` without its supposition that every run
  has been extracted, so that `WaySplit` can have it too (`RunMirrorsPosting` itself is
  inductive in `Posting`, given the types);
- `ApprovalInv`: a live token approves the current plan of its run, as the only
  one, and its purpose, which the table does not keep, follows from the run;
- `PlanInv`: plans are complete, unblocked and audited, postings name them, and
  the audited expense survives a failed rollback;
- `PayloadInv`, `WireInv`: what is sent is what was approved;
- `ExpenseInv`, `DeleteInv`, `VerifyInv`, `GoneInv`: the recorded expense is the
  run's, at most one delete of it counts, what a rollback read before its await
  still holds after it, and "rolled back" means deleted.

Each has a lemma `...Step` that names the conjuncts it depends on and has one
step for each action; `PlanStep` rests on a lemma for each transaction.
`InFlightIsHandled` is proved under `~ Uncaught`, which the run `uncaught` shows to be
necessary.

`KeepsPromise`, in the last part, says that `Spec` implements `Promise!Spec` under the
mapping. `PostingInv` supplies what each step needs: that a live token is the run's
only consent and its purpose the one the state allows (`ApprovalInv`), that an attempt
that failed has made nothing (`OneAttempt`, `AttemptPhases`), that a late create or
delete belongs to an attempt that is under way or out of sight (`AttemptInv`,
`DeleteInv`).

### Extraction, the whole server, the page (`ExtractionProofs`, `WaySplitProofs`)

`JobInv` ties a run's status to its job: a job that works belongs to a run that is
queued or extracting, such a run has no bill and was never posted, and a row that names
a file names one that is there and that nobody is about to unlink, unless the server is
down and the run's job was cut off (`FilesInv`).

`WholeInv` is `PostingInv /\ JobInv` over one database. A step of posting keeps its own
part by the lemmas of `PostingProofs` and leaves runs that are not read yet alone
(`KeepsUnread`); a step of a job changes the row of one run that is not read yet
(`ReadsRun`), which therefore has no bill, no approval and no posting. The safety of
posting, `PostingIsUndisturbed`, `SettledIsFinal` and the refinement of `Promise` follow
for the whole server. `OneExpensePerStatement`: an expense that was made leaves its run
in a status that the fingerprint index covers for good (`OneAttempt`, `StatusInv`), a run
makes one, and two runs the index covers differ in their bills (`PrintsInv`).

`PageInv` says that while the page shows a run in flight no timer is set for another,
and that requests name runs; `PollingStopsOnlyByFailedOpen` follows.

### Attestations (`AttestationsProofs`)

`records` is a set, not a sequence: each entry carries its place in the order of issue.
`EntriesInv` says that an entry is what the probe issued at its place attested, and
`NothingLost` that none of the newest `MaxEntries` is missing before it expires. That
eviction loses none of these is a matter of counting: a full store holds `MaxEntries`
entries of different places, so its oldest is at least that many places behind.
`JobInv` there says that what is served is what the second probe has seen or was put
there since.

### Database (`DatabaseProofs`)

Two inductions. `ChainInv` holds with any number of processes that open, write, break
and restore the file: every ledger, in the file, in a transaction and in every
backup, is a sequence of rows, and without accidents it verifies. `KeptHeadVouches`
rests on a lemma about chains alone: since a hash is the tuple of all it is computed
from, rows that verify and have a given hash are determined by it, from that row back
to the first (by induction over a set of positions, not over an operator).

`AloneInv` supposes that processes take turns (`~ Together`). It says for each place of
an opening, a migration or a transaction what the process that is there, or the
next one after a death, may rely on: a complete backup of what is being migrated,
the unique indexes once they are built, and that an uncommitted transaction with the
events still to be appended is exactly one operation of `AuditedRuns`.
`StartNeverFails`, `CommitsAreOperations`, `MigrationKeepsEverything` and
that active runs are deduplicated follow. Without the supposition they fail: finding 4.

### Ingestion (`IngestionProofs`)

`CallInv` says what the server knows wherever it waits: before it stops the worker it
has sent no signal, an answer it holds was written whole by a worker that is leaving, a
worker is collected only as the call ends, and an OCR program belongs to a worker
that leads its group. `IngestionIsAWorker` shows that each step of reading is no step
of the call or starts the OCR program, so that what is proved of the call holds while
the worker reads.

`IngestInv` says that each running total is the sum over the pages read and the
page under way, that what a guard let through fits, and that nothing is sent before
the document is accepted. The arithmetic that follows is that of the code: the blank
lines between pages, base64's growth (`Encoded`), and that six bytes a character and
the frame of each page leave the worker's message within its limit.

### Allocation and preview (`PreviewProofs`, `FiniteSums`)

`SplitIsFair` proves `LargestRemainder` against `IsFairSplit` for every amount,
sign and weights. With `t` the total weight, each share of the base is a quotient by `t`
and leaves a remainder below `t`; the remainders add up to `t` times the cents left over
(`LeftOver`), so there are fewer cents left than members; the order in which they are
handed out is total, and its first `k` are `k` members (`FirstOnes`), so
the shares add up. Moving a cent from `p` to `q` changes their distance from the
proportional split by `t`, and remainders decide whether that helps.

`PreviewInv`: what has been split is fair, the running totals are the sum of the
amounts split so far, and the plan is made of the totals. When every charge is split
the totals add up to the bill. Without a credit none of them exceeds their
sum, which reconciliation has found to be in range; that is `OrdinaryBillsAreAllocated`.
A plan that is not blocked has a payer among the members and leaves nobody with
a share and no user id, so that the sums over those included are the sums over all:
`ReadyPlansArePayable`.

The library defines a sum by `CHOOSE` of an order. `FiniteSums` shows that it does not
depend on it, by induction over the subsets of a finite set in the form "a collection
of sets that has the empty set and, with a set, the set and one element more, has
every finite set": no operator is a parameter of it, so the provers can use it.

### Assumptions

Those the modules state, and TLC evaluates in each run: constants are of their types
(`UncaughtIsBoolean`, `RetainSourceIsBoolean`, `RetentionIsBoolean`, `TogetherIsBoolean`,
`LimitsAssumption`, `LimitIsPositive`, `SizesAreSizes`), absent values are no values
(`NoneIsNoValue`, `NoneIsNoData`, `NoOneIsNobody`, `DigestAssumption`, `OtherIsNoRun`),
and

- `RepairIsIdempotent`, `BillData`: a repaired bill is not repaired again, which
  `_ignore_prior_cycle_payment` has since it sets the payment to zero;
- `BillsAreBills`, `HouseholdsAreHouseholds`: what pydantic validated, with
  `validate_references`;
- `ParticipantsAreRanks`, `RunsAreFinite`: finitely many members and rows;
- `LimitsAreBelowTheGateways`, `MessageHasRoom`: the relations among the limits in
  `ingest.py`, `ingest_worker.py` and `model_gateway.py`;
- `InitialFilesAreTheProgramsOwn`: a database found at the first start was
  written by a release of the program and not changed since.

### Only model-checked

Liveness under fairness: `SubmissionSettles`, `ExtractionEnds`,
`UploadsAreRemovedWhileAlive`, `CallEnds`, `MigrationCompletes` and `OutcomeIsShown`.
The provers have no rule for `ENABLED`, and each needs an argument over the
steps of a handler under `WF` and `SF`.

## Not modelled

Of the browser, what is named above. Of the ledger, its metadata and
`contains_bill_fingerprint`, which only a test calls; `append` with a transaction of its
own (`POST /api/splitwise/context`) is not an operation by itself, see `Database` above. Settings and packaging are read once, at the start. The repairs of an extracted bill. Household
configuration (`save_household` only fills a form), the browser-safety middleware,
sessions, rendering, HTTP with the model, PDF and OCR: pure input and output, or no
state anything here depends on.

## Plan

In this order:

1. Lemmas that bring the liveness properties closer: the state functions that decrease
   along a handler, as action properties.
2. That `Preview` and `Ingestion` are what the constants of `Repository` and the choices
   of `Extraction` abstract, as theorems (`Resolved`, `Postable`, `LocalOnly`).
3. The steps of the model gateway (fallbacks of discovery and probe).
