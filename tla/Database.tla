------------------------------ MODULE Database ------------------------------
(***************************************************************************)
(* The SQLite file under waysplit/repository.py and waysplit/audit.py:     *)
(* processes that open it, statement by statement, with the migration of   *)
(* its first form, and the transactions that change a run and append its   *)
(* event.  The server opens it when it starts; "waysplit doctor" and       *)
(* "waysplit audit-verify" open it, verify the chain and leave.            *)
(*                                                                         *)
(* SQLite is external: one writer at a time (BEGIN IMMEDIATE; a statement  *)
(* outside a transaction is one of its own), a transaction is seen by      *)
(* nobody before it commits and is gone if its process dies, and what has  *)
(* been committed survives (WAL, synchronous = FULL).                      *)
(***************************************************************************)
EXTENDS AuditLedger, FiniteSets

CONSTANTS
    Runs, Sources, Prints, None,
    Server,        \* the process that serves
    Tools,         \* processes of the other commands
    Together,      \* whether a tool may run beside the server
    InitialFiles,  \* what the file may hold at first
    MaxEvents,     \* bound on the audit trail
    MaxCrashes,    \* bound on deaths of processes
    MaxAccidents   \* bound on changes made outside the program

ASSUME TogetherIsBoolean == Together \in BOOLEAN

ASSUME NoneIsNoData == None \notin Runs \cup Sources \cup Prints

ASSUME RunsAreFinite == IsFiniteSet(Runs)

VARIABLES
    disk,      \* what is committed
    work,      \* what the transaction of the writer sees; disk if there is none
    writer,    \* the process that holds the write lock, or None
    todo,      \* events its transaction has yet to append
    pc,        \* where each process is
    backups,   \* the complete backup files
    \* bounds
    crashes, accidents,
    \* history
    kept       \* rows whose head hash the operator has kept

vars == <<disk, work, writer, todo, pc, backups, crashes, accidents, kept>>

Audited == INSTANCE AuditedRuns WITH table <- disk.runs, trail <- EventsOf(disk.ledger)

Procs == {Server} \cup Tools

\* legacy: runs.source_sha256 is UNIQUE in the definition of the table, which
\* only the rebuild of the table removes.  postings: runs with a row of postings.
File(legacy, versions, indexes, runs, postings, ledger) ==
    [legacy |-> legacy, versions |-> versions, indexes |-> indexes, runs |-> runs,
     postings |-> postings, ledger |-> ledger]

SchemaVersion == 2

\* INSERT OR IGNORE INTO schema_migrations
WithVersion(file, v) == [file EXCEPT !.versions = @ \cup {v}]

\* Fault: the index that replaces the constraint is taken for the migration.
NeedsMigrationByIndex(file) == file.legacy /\ "source" \notin file.indexes

NeedsMigration(file) == file.legacy

\* CREATE UNIQUE INDEX succeeds.
Indexable(index, runs) ==
    IF index = "source" THEN Audited!OneActiveRunPerSource(runs)
    ELSE Audited!OneRunPerPrint(runs)

OneRunPerSource(runs) ==
    \A r, q \in Runs :
        runs[r].source # None /\ runs[r].source = runs[q].source => r = q

\* No constraint the file has rejects these rows.
Admits(file, runs) ==
    /\ \A index \in file.indexes : Indexable(index, runs)
    /\ file.legacy => OneRunPerSource(runs)

IsFile(file) ==
    file = File(file.legacy, file.versions, file.indexes, file.runs, file.postings,
                file.ledger)

\* The file is what some release wrote: rows without duplicates, and a chain that verifies.
ASSUME InitialFilesAreTheProgramsOwn ==
    \A file \in InitialFiles :
        /\ IsFile(file) /\ IsLedger(file.ledger)
        /\ file.runs \in Audited!Table /\ Audited!Deduplicated(file.runs)
        /\ EventsOf(file.ledger) \in Seq(Audited!Events)
        /\ Verifies(file.ledger)

Init ==
    /\ disk \in InitialFiles
    /\ work = disk
    /\ writer = None
    /\ todo = <<>>
    /\ pc = [p \in Procs |-> "off"]
    /\ backups = {}
    /\ crashes = 0
    /\ accidents = 0
    /\ kept = <<>>

-----------------------------------------------------------------------------
(* Opening: Repository.__init__ *)

Goto(p, label) == pc' = [pc EXCEPT ![p] = label]

Quiet == UNCHANGED <<crashes, accidents, kept>>

\* A statement outside a transaction: it waits for the lock and commits at once.
Statement(p, from, to, file) ==
    /\ pc[p] = from
    /\ writer = None
    /\ Goto(p, to)
    /\ disk' = file
    /\ work' = file
    /\ UNCHANGED <<writer, todo, backups>>
    /\ Quiet

Open(p) ==
    /\ pc[p] = "off"
    /\ Together \/ \A q \in Procs : pc[q] = "off"
    /\ Goto(p, IF \E v \in disk.versions : v > SchemaVersion THEN "closing"
               ELSE IF NeedsMigration(disk) THEN "backup" ELSE "script")
    /\ UNCHANGED <<disk, work, writer, todo, backups>>
    /\ Quiet

\* The file that is being written is no backup before all pages are copied and pass
\* the quick check.
BackUp(p) ==
    /\ pc[p] = "backup"
    /\ Goto(p, "copying")
    /\ UNCHANGED <<disk, work, writer, todo, backups>>
    /\ Quiet

BackupDone(p) ==
    /\ pc[p] = "copying"
    /\ backups' = backups \cup {disk}
    /\ Goto(p, "script")
    /\ UNCHANGED <<disk, work, writer, todo>>
    /\ Quiet

\* The copy is unlinked and the process ends.
BackupFails(p) ==
    /\ pc[p] = "copying"
    /\ Goto(p, "closing")
    /\ UNCHANGED <<disk, work, writer, todo, backups>>
    /\ Quiet

\* A unique index is created, or the rows it would reject end the process.
CreateIndex(p, from, to, index) ==
    LET possible == index \in disk.indexes \/ Indexable(index, disk.runs) IN
    Statement(p, from, IF possible THEN to ELSE "failed",
              IF possible THEN [disk EXCEPT !.indexes = @ \cup {index}] ELSE disk)

DropIndex(p, from, to, index) ==
    Statement(p, from, to, [disk EXCEPT !.indexes = @ \ {index}])

\* executescript: tables and indexes IF NOT EXISTS, a statement at a time.
Script(p) ==
    \/ CreateIndex(p, "script", "script 2", "fingerprint")
    \/ CreateIndex(p, "script 2", "script 3", "source")
    \/ Statement(p, "script 3", "migrate", WithVersion(disk, 1))

-----------------------------------------------------------------------------
(* _migrate_source_hash_index *)

SkipMigration(p) ==
    /\ ~ NeedsMigration(disk)
    /\ Statement(p, "migrate", "refresh", disk)

\* Fault: foreign keys stay on, and DROP TABLE deletes the rows that refer to runs.
RebuiltWithForeignKeys(file) ==
    [file EXCEPT !.legacy = FALSE, !.indexes = {"fingerprint", "source"}, !.postings = {}]

\* runs_v2 is filled from runs and takes its name; the indexes are new.
Rebuilt(file) ==
    [file EXCEPT !.legacy = FALSE, !.indexes = {"fingerprint", "source"}]

Migrate(p) ==
    /\ pc[p] = "migrate"
    /\ writer = None
    /\ NeedsMigration(disk)
    /\ writer' = p
    /\ work' = Rebuilt(disk)
    /\ Goto(p, "rebuilt")
    /\ UNCHANGED <<disk, todo, backups>>
    /\ Quiet

MigrationCommits(p) ==
    /\ pc[p] = "rebuilt"
    /\ disk' = work
    /\ writer' = None
    /\ Goto(p, "refresh")
    /\ UNCHANGED <<work, todo, backups>>
    /\ Quiet

-----------------------------------------------------------------------------
(* _refresh_retry_indexes, on every opening, and the end of the opening *)

\* Fault: only one of the indexes comes back.
RefreshOne(p) ==
    \/ DropIndex(p, "refresh", "refresh 2", "fingerprint")
    \/ DropIndex(p, "refresh 2", "refresh 3", "source")
    \/ CreateIndex(p, "refresh 3", "version", "fingerprint")

Refresh(p) ==
    \/ DropIndex(p, "refresh", "refresh 2", "fingerprint")
    \/ DropIndex(p, "refresh 2", "refresh 3", "source")
    \/ CreateIndex(p, "refresh 3", "refresh 4", "fingerprint")
    \/ CreateIndex(p, "refresh 4", "version", "source")

Opened(p) ==
    Statement(p, "version", IF p = Server THEN "starting" ELSE "verifying",
              WithVersion(disk, SchemaVersion))

\* A tool prints what verify returns and closes; so does a process that could
\* not open.
Close(p) ==
    /\ pc[p] \in {"verifying", "closing", "failed"}
    /\ Goto(p, "off")
    /\ UNCHANGED <<disk, work, writer, todo, backups>>
    /\ Quiet

-----------------------------------------------------------------------------
(* The server's transactions *)

\* BEGIN IMMEDIATE and the statements of a method; one that breaks a
\* constraint, or finds no row, rolls back and changes nothing.
Execute(from, effect) ==
    /\ pc[Server] = from
    /\ writer = None
    /\ Len(disk.ledger) + Len(effect.events) <= MaxEvents
    /\ Admits(disk, effect.table)
    /\ writer' = Server
    /\ work' = [disk EXCEPT !.runs = effect.table]
    /\ todo' = effect.events
    /\ Goto(Server, IF from = "starting" THEN "recovering" ELSE "writing")
    /\ UNCHANGED <<disk, backups>>
    /\ Quiet

\* lifespan: recover_interrupted_runs before the first request.
Recover ==
    \E effect \in Audited!Recovered(disk.runs) : Execute("starting", effect)

Write ==
    \E effect \in Audited!Operations(disk.runs) : Execute("serving", effect)

InTransaction == {"recovering", "writing"}

\* Fault: append commits what its caller has begun.
AppendCommits ==
    /\ pc[Server] \in InTransaction
    /\ todo # <<>>
    /\ work' = [work EXCEPT !.ledger = AppendEntry(work.ledger, Head(todo))]
    /\ disk' = work'
    /\ todo' = Tail(todo)
    /\ UNCHANGED <<writer, pc, backups>>
    /\ Quiet

\* AuditLedger.append in the transaction of its caller.
AppendEvent ==
    /\ pc[Server] \in InTransaction
    /\ todo # <<>>
    /\ work' = [work EXCEPT !.ledger = AppendEntry(work.ledger, Head(todo))]
    /\ todo' = Tail(todo)
    /\ UNCHANGED <<disk, writer, pc, backups>>
    /\ Quiet

\* The method returns.
Commit ==
    /\ pc[Server] \in InTransaction
    /\ todo = <<>>
    /\ disk' = work
    /\ writer' = None
    /\ Goto(Server, "serving")
    /\ UNCHANGED <<work, todo, backups>>
    /\ Quiet

\* An exception before COMMIT: ROLLBACK.  One in the recovery ends the start.
Fail ==
    /\ pc[Server] \in InTransaction
    /\ writer' = None
    /\ todo' = <<>>
    /\ Goto(Server, IF pc[Server] = "recovering" THEN "closing" ELSE "serving")
    /\ work' = disk
    /\ UNCHANGED <<disk, backups>>
    /\ Quiet

-----------------------------------------------------------------------------
(* Crashes, accidents and the operator *)

Crash(p) ==
    /\ pc[p] # "off"
    /\ crashes < MaxCrashes
    /\ crashes' = crashes + 1
    /\ writer' = IF writer = p THEN None ELSE writer
    /\ todo' = IF writer = p THEN <<>> ELSE todo
    /\ work' = IF writer = p THEN disk ELSE work
    /\ Goto(p, "off")
    /\ UNCHANGED <<disk, backups, accidents, kept>>

AllOff == \A p \in Procs : pc[p] = "off"

\* The file is changed while nobody has it open.
Accident(file) ==
    /\ AllOff
    /\ accidents < MaxAccidents
    /\ file # disk
    /\ accidents' = accidents + 1
    /\ disk' = file
    /\ work' = file
    /\ UNCHANGED <<writer, todo, pc, backups, crashes, kept>>

\* The operator puts a backup in the place of the file.
Restore == \E file \in backups : Accident(file)

RowLost(rows, i) == SubSeq(rows, 1, i - 1) \o SubSeq(rows, i + 1, Len(rows))

\* What a stray statement may make of a row: another event, with the hash it
\* had or with its own, or the same payload in other bytes.
RowsLike(row) ==
    LET other == [row EXCEPT !.event = Audited!Event("household.updated", None)] IN
    {other, [other EXCEPT !.hash = EntryHash(row.seq, other.event, row.previous)],
     [row EXCEPT !.form = "other"]}

LedgerDamaged ==
    \E i \in DOMAIN disk.ledger :
        \/ Accident([disk EXCEPT !.ledger = RowLost(disk.ledger, i)])
        \/ \E row \in RowsLike(disk.ledger[i]) : Accident([disk EXCEPT !.ledger[i] = row])

\* The operator copies the head hash that audit-verify prints for a chain
\* that verifies.
KeepHead(p) ==
    /\ pc[p] = "verifying"
    /\ kept = <<>>
    /\ disk.ledger # <<>>
    /\ Verifies(disk.ledger)
    /\ kept' = disk.ledger
    /\ UNCHANGED <<disk, work, writer, todo, pc, backups, crashes, accidents>>

-----------------------------------------------------------------------------
Opening(p) ==
    \/ Open(p)
    \/ BackUp(p) \/ BackupDone(p) \/ BackupFails(p)
    \/ Script(p)
    \/ SkipMigration(p) \/ Migrate(p) \/ MigrationCommits(p)
    \/ Refresh(p) \/ Opened(p)
    \/ Close(p)

Serving == Recover \/ Write \/ AppendEvent \/ Commit \/ Fail

Outside == Restore \/ LedgerDamaged

Next ==
    \/ \E p \in Procs : Opening(p) \/ Crash(p)
    \/ Serving
    \/ Outside
    \/ \E p \in Tools : KeepHead(p)

Spec == Init /\ [][Next]_vars

\* The server is started again whenever it is down and its opening goes on; a
\* tool that has begun to open the file ends.  A backup need not fail for ever.
Fairness ==
    /\ SF_vars(Open(Server))
    /\ WF_vars(BackUp(Server))
    /\ SF_vars(BackupDone(Server))
    /\ WF_vars(Script(Server) \/ Migrate(Server) \/ MigrationCommits(Server) \/ Close(Server))
    /\ \A p \in Tools : WF_vars(Opening(p) /\ pc[p] # "off")

FairSpec == Spec /\ Fairness

-----------------------------------------------------------------------------
(* Properties *)

Labels == {"off", "closing", "failed", "backup", "copying", "script", "script 2", "script 3",
           "migrate", "rebuilt", "refresh", "refresh 2", "refresh 3", "refresh 4", "version",
           "verifying", "starting", "recovering", "serving", "writing"}

FileOK(file) ==
    /\ file.legacy \in BOOLEAN
    /\ file.versions \subseteq Nat
    /\ file.indexes \subseteq {"fingerprint", "source"}
    /\ file.runs \in Audited!Table
    /\ file.postings \subseteq Runs

\* Types; and the write lock is held exactly while a transaction is open.
TypeOK ==
    /\ FileOK(disk) /\ FileOK(work)
    /\ writer \in Procs \cup {None}
    /\ pc \in [Procs -> Labels]
    /\ \A file \in backups : FileOK(file)
    /\ \A p \in Procs : writer = p <=> pc[p] \in InTransaction \cup {"rebuilt"}
    /\ writer = None => todo = <<>> /\ work = disk

\* Whatever is committed is one operation with all of its events: no state
\* without its event, no event without its state, through exceptions, crashes,
\* the migration and the rebuilding of indexes; and no operation makes two
\* active runs of one source or two of one fingerprint.
CommitsAreOperations ==
    /\ Audited!Init
    /\ [][Outside \/ Audited!Next]_<<disk.runs, EventsOf(disk.ledger)>>

\* Nothing the program does, nor any crash of it, makes the chain fail its own
\* verification, which would disable posting and rollback.
UntouchedChainVerifies == accidents = 0 => Verifies(disk.ledger)

\* A chain that verifies and still has an entry with the hash the operator has
\* kept has, up to that entry, the rows it had then.
KeptHeadVouches ==
    kept # <<>> /\ Verifies(disk.ledger) =>
        \A i \in DOMAIN disk.ledger :
            disk.ledger[i].hash = HeadHash(kept) => SubSeq(disk.ledger, 1, i) = kept

\* Two runs of one statement are never active together, whoever has the
\* database open ("Allow safe re-extraction of blocked runs while preserving
\* active dedupe", the comment of _refresh_retry_indexes).
ActiveDedupeIsPreserved == Audited!Deduplicated(disk.runs)

\* No opening fails on rows the program itself has written.
StartNeverFails == \A p \in Procs : pc[p] # "failed"

\* The migration changes the constraint and nothing else, and a complete
\* backup of the very rows it starts from exists when it commits.
MigrationKeepsEverything ==
    [][disk.legacy /\ ~ disk'.legacy =>
         /\ \A field \in {"runs", "postings", "ledger"} : disk'[field] = disk[field]
         /\ \E file \in backups :
               \A field \in {"legacy", "runs", "postings", "ledger"} : file[field] = disk[field]
      ]_vars

\* However often it is interrupted, a legacy database ends up migrated, once
\* crashes and restored backups end.
MigrationCompletes == disk.legacy ~> ~ disk.legacy
=============================================================================
