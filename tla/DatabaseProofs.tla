--------------------------- MODULE DatabaseProofs ---------------------------
(***************************************************************************)
(* The audit chain of Database, with everything that opens, writes, breaks *)
(* and restores the file; and what holds besides when processes have the   *)
(* database open one at a time.                                            *)
(***************************************************************************)
EXTENDS Database, SequenceTheorems, FiniteSetTheorems, TLAPS

-----------------------------------------------------------------------------
(* The chain *)

\* A ledger is a sequence over any set that has its rows.
LEMMA LedgerIsSequence ==
    ASSUME NEW rows, IsLedger(rows)
    PROVE  /\ Len(rows) \in Nat /\ DOMAIN rows = 1..Len(rows)
           /\ \A S : (\A i \in DOMAIN rows : rows[i] \in S) => rows \in Seq(S)
<1>1. rows \in Seq({rows[i] : i \in DOMAIN rows}) BY DEF IsLedger
<1>2. Len(rows) \in Nat /\ DOMAIN rows = 1..Len(rows) BY <1>1, LenProperties
<1>3. ASSUME NEW S, \A i \in DOMAIN rows : rows[i] \in S PROVE rows \in Seq(S)
  <2>1. {rows[i] : i \in DOMAIN rows} \subseteq S BY <1>3
  <2> QED BY <1>1, <2>1, SeqMonotonic
<1> QED BY <1>2, <1>3

\* The fields of a row.
Shaped(row) ==
    row = [seq |-> row.seq, event |-> row.event, form |-> row.form,
           previous |-> row.previous, hash |-> row.hash]

\* Any sequence of rows is a ledger.
LEMMA SequenceIsLedger ==
    ASSUME NEW S, \A row \in S : Shaped(row), NEW rows \in Seq(S)
    PROVE  IsLedger(rows)
<1>1. Len(rows) \in Nat /\ DOMAIN rows = 1..Len(rows) BY LenProperties
<1>2. \A i \in DOMAIN rows : rows[i] \in S BY <1>1, ElementOfSeq
<1>3. \A i \in DOMAIN rows : Shaped(rows[i]) BY <1>2
<1>4. rows \in [1..Len(rows) -> {rows[i] : i \in DOMAIN rows}] BY <1>1, LenProperties
<1>5. rows \in Seq({rows[i] : i \in DOMAIN rows}) BY <1>1, <1>4, SeqDef
<1> QED BY <1>3, <1>5 DEF IsLedger, Shaped

\* What append makes of a ledger.
LEMMA AppendedRows ==
    ASSUME NEW rows, IsLedger(rows), NEW event
    PROVE  LET new == NewRow(NextSequence(rows), event, HeadHash(rows))
               all == AppendEntry(rows, event)
           IN  /\ IsLedger(all)
               /\ Len(all) = Len(rows) + 1
               /\ \A i \in 1..Len(rows) : all[i] = rows[i]
               /\ all[Len(rows) + 1] = new
<1> DEFINE new == NewRow(NextSequence(rows), event, HeadHash(rows))
           all == AppendEntry(rows, event)
           S == {rows[i] : i \in DOMAIN rows} \cup {new}
<1>1. rows \in Seq(S) BY LedgerIsSequence
<1>2. all = Append(rows, new) BY DEF AppendEntry
<1>3. Shaped(new) BY DEF NewRow, Shaped
<1> HIDE DEF new, all
<1>4. /\ all \in Seq(S) /\ Len(all) = Len(rows) + 1
      /\ \A i \in 1..Len(rows) : all[i] = rows[i]
      /\ all[Len(rows) + 1] = new
  BY <1>1, <1>2, AppendProperties
<1>5. \A row \in S : Shaped(row) BY <1>3 DEF IsLedger, Shaped
<1>6. IsLedger(all) BY <1>4, <1>5, SequenceIsLedger
<1> QED BY <1>4, <1>6 DEF all, new

\* What is left of a ledger without one of its rows.
LEMMA LostRows ==
    ASSUME NEW rows, IsLedger(rows), NEW i \in DOMAIN rows
    PROVE  /\ IsLedger(RowLost(rows, i))
           /\ RowLost(rows, i) \in Seq({rows[k] : k \in DOMAIN rows})
<1> DEFINE S == {rows[k] : k \in DOMAIN rows}
           n == Len(rows)
<1>1. rows \in Seq(S) /\ n \in Nat /\ DOMAIN rows = 1..n BY LedgerIsSequence
<1>2. \A row \in S : Shaped(row) BY DEF IsLedger, Shaped
<1>3. SubSeq(rows, 1, i - 1) \in Seq(S)
  <2>1. i - 1 \in Int /\ \A k \in 1..(i - 1) : rows[k] \in S BY <1>1
  <2> HIDE DEF S
  <2> QED BY <2>1, SubSeqProperties
<1>4. SubSeq(rows, i + 1, n) \in Seq(S)
  <2>1. i + 1 \in Int /\ n \in Int /\ \A k \in (i + 1)..n : rows[k] \in S BY <1>1
  <2> HIDE DEF S, n
  <2> QED BY <2>1, SubSeqProperties
<1>5. RowLost(rows, i) \in Seq(S)
  <2> HIDE DEF S
  <2> QED BY <1>3, <1>4, ConcatProperties DEF RowLost
<1>6. IsLedger(RowLost(rows, i))
  <2> HIDE DEF S
  <2> QED BY <1>2, <1>5, SequenceIsLedger
<1> QED BY <1>5, <1>6

\* A ledger one of whose rows is another row.
LEMMA ChangedRow ==
    ASSUME NEW rows, IsLedger(rows), NEW i \in DOMAIN rows, NEW row, Shaped(row)
    PROVE  /\ IsLedger([rows EXCEPT ![i] = row])
           /\ [rows EXCEPT ![i] = row] \in Seq({rows[k] : k \in DOMAIN rows} \cup {row})
<1> DEFINE S == {rows[k] : k \in DOMAIN rows} \cup {row}
<1>1. rows \in Seq(S) /\ DOMAIN rows = 1..Len(rows) BY LedgerIsSequence
<1>2. \A x \in S : Shaped(x) BY DEF IsLedger, Shaped
<1>3. row \in S OBVIOUS
<1> HIDE DEF S
<1>4. [rows EXCEPT ![i] = row] \in Seq(S) BY <1>1, <1>3, ExceptSeq
<1>5. IsLedger([rows EXCEPT ![i] = row]) BY <1>2, <1>4, SequenceIsLedger
<1> QED BY <1>4, <1>5 DEF S

\* append keeps a chain that verifies.
LEMMA AppendVerifies ==
    ASSUME NEW rows, IsLedger(rows), Verifies(rows), NEW event
    PROVE  Verifies(AppendEntry(rows, event))
<1> DEFINE all == AppendEntry(rows, event)
           n == Len(rows)
<1>1. /\ n \in Nat /\ DOMAIN rows = 1..n
      /\ IsLedger(all) /\ Len(all) = n + 1 /\ DOMAIN all = 1..(n + 1)
      /\ \A i \in 1..n : all[i] = rows[i]
      /\ all[n + 1] = NewRow(NextSequence(rows), event, HeadHash(rows))
  BY AppendedRows, LedgerIsSequence
<1>2. NextSequence(rows) = n + 1 /\ HeadHash(rows) = PreviousOf(all, n + 1)
  <2>1. CASE n = 0
    <3>1. rows = <<>> BY <1>1, <2>1, EmptySeq DEF IsLedger
    <3> QED BY <2>1, <3>1 DEF NextSequence, HeadHash, PreviousOf
  <2>2. CASE n # 0
    <3>1. rows # <<>> /\ n \in 1..n BY <1>1, <2>2
    <3>2. rows[n].seq = n BY <1>1, <3>1 DEF Verifies
    <3> QED BY <1>1, <2>2, <3>1, <3>2 DEF NextSequence, HeadHash, PreviousOf
  <2> QED BY <2>1, <2>2
<1>3. \A i \in 1..n : PreviousOf(all, i) = PreviousOf(rows, i)
  BY <1>1 DEF PreviousOf
<1>4. ASSUME NEW i \in 1..(n + 1)
      PROVE  /\ all[i].seq = i /\ all[i].previous = PreviousOf(all, i)
             /\ all[i].form = "canonical"
             /\ all[i].hash = EntryHash(all[i].seq, all[i].event, all[i].previous)
  <2> HIDE DEF all, n
  <2>1. CASE i \in 1..n BY <1>1, <1>3, <2>1 DEF Verifies
  <2>2. CASE i = n + 1
    <3>1. all[i] = NewRow(n + 1, event, PreviousOf(all, n + 1)) BY <1>1, <1>2, <2>2
    <3> QED BY <2>2, <3>1 DEF NewRow
  <2> QED BY <1>1, <2>1, <2>2
<1> QED BY <1>1, <1>4 DEF Verifies

\* A set that has 0, and n + 1 if it has n, has every natural number.
LEMMA SetInduction ==
    ASSUME NEW S, 0 \in S, \A n \in Nat : n \in S => n + 1 \in S
    PROVE  Nat \subseteq S
<1> DEFINE R == OpToRel(<, Nat)
           Rest == Nat \ S
<1> SUFFICES ASSUME Rest # {} PROVE FALSE OBVIOUS
<1>1. IsWellFoundedOn(R, Nat) BY NatLessThanWellFounded
<1>2. \A x, y \in Nat : <<y, x>> \in R <=> y < x BY SMT DEF OpToRel
<1> HIDE DEF R
<1>3. Rest \subseteq Nat OBVIOUS
<1>4. PICK x \in Rest : \A y \in Rest : ~ (<<y, x>> \in R)
  <2> HIDE DEF Rest
  <2> QED BY <1>1, <1>3, WFMin, Zenon
<1>5. x - 1 \in Nat /\ x - 1 < x OBVIOUS
<1>6. x - 1 \in S BY <1>2, <1>4, <1>5
<1> QED BY <1>5, <1>6

\* Rows of two chains that verify and have one hash are one row in one place, behind rows
\* of one hash.
LEMMA SameHashSameRow ==
    ASSUME NEW a, IsLedger(a), Verifies(a), NEW i \in DOMAIN a,
           NEW b, IsLedger(b), Verifies(b), NEW j \in DOMAIN b,
           a[i].hash = b[j].hash
    PROVE  /\ i = j /\ a[i] = b[i]
           /\ i # 1 => a[i - 1].hash = b[i - 1].hash
<1>1. /\ a[i].seq = i /\ a[i].previous = PreviousOf(a, i) /\ a[i].form = "canonical"
      /\ a[i].hash = <<a[i].seq, a[i].event, a[i].previous>>
  BY DEF Verifies, EntryHash
<1>2. /\ b[j].seq = j /\ b[j].previous = PreviousOf(b, j) /\ b[j].form = "canonical"
      /\ b[j].hash = <<b[j].seq, b[j].event, b[j].previous>>
  BY DEF Verifies, EntryHash
<1>3. a[i].seq = b[j].seq /\ a[i].event = b[j].event /\ a[i].previous = b[j].previous
  <2>1. <<a[i].seq, a[i].event, a[i].previous>> = <<b[j].seq, b[j].event, b[j].previous>>
    BY <1>1, <1>2
  <2> QED BY <2>1
<1>4. i = j BY <1>1, <1>2, <1>3
<1>5. a[i] = b[i]
  <2>1. /\ a[i] = [seq |-> a[i].seq, event |-> a[i].event, form |-> a[i].form,
                   previous |-> a[i].previous, hash |-> a[i].hash]
        /\ b[j] = [seq |-> b[j].seq, event |-> b[j].event, form |-> b[j].form,
                   previous |-> b[j].previous, hash |-> b[j].hash]
    BY DEF IsLedger
  <2> QED BY <1>1, <1>2, <1>3, <1>4, <2>1
<1>6. i # 1 => a[i - 1].hash = b[i - 1].hash
  BY <1>1, <1>2, <1>3, <1>4 DEF PreviousOf
<1> QED BY <1>4, <1>5, <1>6

\* The hash of a row vouches for all the rows up to it.
LEMMA HashVouches ==
    ASSUME NEW a, IsLedger(a), Verifies(a), NEW i \in DOMAIN a,
           NEW b, IsLedger(b), Verifies(b), NEW j \in DOMAIN b,
           a[i].hash = b[j].hash
    PROVE  i = j /\ \A k \in 1..i : a[k] = b[k]
<1>1. i = j BY SameHashSameRow
<1>2. /\ Len(a) \in Nat /\ DOMAIN a = 1..Len(a) /\ Len(b) \in Nat /\ DOMAIN b = 1..Len(b)
  BY LedgerIsSequence
<1> DEFINE S == {d \in Nat : d < i => a[i - d].hash = b[i - d].hash}
<1>3. 0 \in S BY <1>1, <1>2
<1>4. \A d \in Nat : d \in S => d + 1 \in S
  <2> SUFFICES ASSUME NEW d \in Nat, d < i => a[i - d].hash = b[i - d].hash, d + 1 < i
               PROVE  a[i - (d + 1)].hash = b[i - (d + 1)].hash
    OBVIOUS
  <2>1. /\ i - d \in DOMAIN a /\ i - d \in DOMAIN b /\ d < i /\ i - d # 1
        /\ i - (d + 1) = (i - d) - 1
    BY <1>1, <1>2
  <2> QED BY <2>1, SameHashSameRow
<1>5. Nat \subseteq S
  <2> HIDE DEF S
  <2> QED BY <1>3, <1>4, SetInduction
<1>6. ASSUME NEW k \in 1..i PROVE a[k] = b[k]
  <2>1. i - k \in Nat /\ i - k < i /\ i - (i - k) = k /\ k \in DOMAIN a /\ k \in DOMAIN b
    BY <1>1, <1>2
  <2>2. a[k].hash = b[k].hash BY <1>5, <2>1
  <2> QED BY <2>1, <2>2, SameHashSameRow
<1> QED BY <1>1, <1>6

-----------------------------------------------------------------------------
(* Files *)

GoodFile(file) == IsFile(file) /\ IsLedger(file.ledger)

\* A change of one column leaves a file with the other columns it had.
LEMMA VersionsEdited ==
    ASSUME NEW file, IsFile(file), NEW x
    PROVE  LET new == [file EXCEPT !.versions = x]
           IN  /\ IsFile(new) /\ new.versions = x
               /\ new.legacy = file.legacy /\ new.indexes = file.indexes /\ new.runs = file.runs
               /\ new.postings = file.postings /\ new.ledger = file.ledger
BY DEF IsFile, File

LEMMA IndexesEdited ==
    ASSUME NEW file, IsFile(file), NEW x
    PROVE  LET new == [file EXCEPT !.indexes = x]
           IN  /\ IsFile(new) /\ new.indexes = x
               /\ new.legacy = file.legacy /\ new.versions = file.versions /\ new.runs = file.runs
               /\ new.postings = file.postings /\ new.ledger = file.ledger
BY DEF IsFile, File

LEMMA RunsEdited ==
    ASSUME NEW file, IsFile(file), NEW x
    PROVE  LET new == [file EXCEPT !.runs = x]
           IN  /\ IsFile(new) /\ new.runs = x
               /\ new.legacy = file.legacy /\ new.versions = file.versions
               /\ new.indexes = file.indexes
               /\ new.postings = file.postings /\ new.ledger = file.ledger
BY DEF IsFile, File

LEMMA LedgerEdited ==
    ASSUME NEW file, IsFile(file), NEW x
    PROVE  LET new == [file EXCEPT !.ledger = x]
           IN  /\ IsFile(new) /\ new.ledger = x
               /\ new.legacy = file.legacy /\ new.versions = file.versions
               /\ new.indexes = file.indexes
               /\ new.runs = file.runs /\ new.postings = file.postings
BY DEF IsFile, File

LEMMA FileRebuilt ==
    ASSUME NEW file, IsFile(file)
    PROVE  LET new == Rebuilt(file)
           IN  /\ IsFile(new) /\ ~ new.legacy /\ new.indexes = {"fingerprint", "source"}
               /\ new.runs = file.runs /\ new.postings = file.postings
               /\ new.ledger = file.ledger
<1> DEFINE Current(x) == [file EXCEPT !.legacy = x]
           Renewed(x, y) == [file EXCEPT !.legacy = x, !.indexes = y]
<1>1. ASSUME NEW x, NEW y
      PROVE  /\ IsFile(Renewed(x, y)) /\ Renewed(x, y).legacy = x /\ Renewed(x, y).indexes = y
             /\ Renewed(x, y).runs = file.runs /\ Renewed(x, y).postings = file.postings
             /\ Renewed(x, y).ledger = file.ledger
  <2>1. Renewed(x, y) = [Current(x) EXCEPT !.indexes = y] OBVIOUS
  <2>2. /\ IsFile(Current(x)) /\ Current(x).legacy = x /\ Current(x).runs = file.runs
        /\ Current(x).postings = file.postings /\ Current(x).ledger = file.ledger
    BY DEF IsFile, File
  <2> HIDE DEF Current, Renewed
  <2> QED BY <2>1, <2>2, IndexesEdited
<1>2. Rebuilt(file) = Renewed(FALSE, {"fingerprint", "source"}) BY DEF Rebuilt
<1> HIDE DEF Current, Renewed
<1>3. PICK x, y : x = FALSE /\ y = {"fingerprint", "source"} OBVIOUS
<1>4. Rebuilt(file) = Renewed(x, y) BY <1>2, <1>3
<1>5. /\ IsFile(Rebuilt(file)) /\ Rebuilt(file).legacy = x /\ Rebuilt(file).indexes = y
      /\ Rebuilt(file).runs = file.runs /\ Rebuilt(file).postings = file.postings
      /\ Rebuilt(file).ledger = file.ledger
  BY <1>1, <1>4
<1> QED BY <1>3, <1>5

-----------------------------------------------------------------------------
(* The chain through everything that happens to the file *)

ChainInv ==
    /\ GoodFile(disk) /\ GoodFile(work)
    /\ \A file \in backups : GoodFile(file)
    /\ IsLedger(kept) /\ Verifies(kept)
    /\ accidents \in Nat
    /\ accidents = 0 => Verifies(disk.ledger) /\ Verifies(work.ledger)

LEMMA EmptyLedger == IsLedger(<<>>) /\ Verifies(<<>>)
BY DEF IsLedger, Verifies

LEMMA ChainInitially == Init => ChainInv
BY EmptyLedger, InitialFilesAreTheProgramsOwn DEF Init, ChainInv, GoodFile

\* The steps that leave every ledger as it is in the file or in the transaction.
LEMMA ChainKept ==
    ASSUME ChainInv, IsFile(disk'), IsFile(work'),
           disk'.ledger \in {disk.ledger, work.ledger},
           work'.ledger \in {disk.ledger, work.ledger},
           backups' \subseteq backups \cup {disk}, UNCHANGED <<accidents, kept>>
    PROVE  ChainInv'
BY DEF ChainInv, GoodFile

\* A statement outside a transaction that changes another column.
LEMMA StatementKeepsChain ==
    ASSUME ChainInv, NEW p, NEW from, NEW to, NEW file, Statement(p, from, to, file),
           IsFile(file), file.ledger = disk.ledger
    PROVE  ChainInv'
BY ChainKept DEF Statement, Quiet

\* Opening the file, whether it is new, migrated or only indexed again.
LEMMA OpeningKeepsChain == ASSUME ChainInv, NEW p, Opening(p) PROVE ChainInv'
<1> USE DEF Quiet
<1>1. IsFile(disk) /\ IsFile(work) BY DEF ChainInv, GoodFile
<1>2. CASE Open(p) \/ BackUp(p) \/ BackupDone(p) \/ BackupFails(p) \/ Close(p)
  BY <1>1, <1>2, ChainKept DEF Open, BackUp, BackupDone, BackupFails, Close
<1>3. ASSUME NEW from, NEW to, NEW index, CreateIndex(p, from, to, index) PROVE ChainInv'
  <2> DEFINE possible == index \in disk.indexes \/ Indexable(index, disk.runs)
             label == IF possible THEN to ELSE "failed"
             file == IF possible THEN [disk EXCEPT !.indexes = @ \cup {index}] ELSE disk
  <2>1. Statement(p, from, label, file) BY <1>3 DEF CreateIndex
  <2>2. IsFile(file) /\ file.ledger = disk.ledger BY <1>1, IndexesEdited
  <2> HIDE DEF label, file
  <2> QED BY <2>1, <2>2, StatementKeepsChain
<1>4. ASSUME NEW from, NEW to, NEW index, DropIndex(p, from, to, index) PROVE ChainInv'
  <2> DEFINE file == [disk EXCEPT !.indexes = @ \ {index}]
  <2>1. Statement(p, from, to, file) BY <1>4 DEF DropIndex
  <2>2. IsFile(file) /\ file.ledger = disk.ledger BY <1>1, IndexesEdited
  <2> QED BY <2>1, <2>2, StatementKeepsChain
<1>5. ASSUME NEW from, NEW to, NEW v, Statement(p, from, to, WithVersion(disk, v))
      PROVE  ChainInv'
  <2>1. /\ IsFile(WithVersion(disk, v)) /\ WithVersion(disk, v).ledger = disk.ledger
    BY <1>1, VersionsEdited DEF WithVersion
  <2> QED BY <1>5, <2>1, StatementKeepsChain
<1>6. CASE Script(p) BY <1>3, <1>5, <1>6 DEF Script
<1>7. CASE SkipMigration(p)
  BY <1>1, <1>7, StatementKeepsChain DEF SkipMigration
<1>8. CASE Migrate(p)
  BY <1>1, <1>8, FileRebuilt, ChainKept DEF Migrate
<1>9. CASE MigrationCommits(p) BY <1>1, <1>9, ChainKept DEF MigrationCommits
<1>10. CASE Refresh(p) BY <1>3, <1>4, <1>10 DEF Refresh
<1>11. CASE Opened(p)
  <2>1. \E to : Statement(p, "version", to, WithVersion(disk, SchemaVersion))
    BY <1>11 DEF Opened
  <2> QED BY <1>5, <2>1
<1> QED BY <1>2, <1>6, <1>7, <1>8, <1>9, <1>10, <1>11 DEF Opening

\* The transactions of the server, to their commit, their rollback and the death of a
\* process.
LEMMA ServingKeepsChain ==
    ASSUME ChainInv, Serving \/ (\E p \in Procs : Crash(p)) PROVE ChainInv'
<1> USE DEF Quiet
<1>1. IsFile(disk) /\ IsFile(work) BY DEF ChainInv, GoodFile
<1>2. ASSUME NEW from, NEW effect, Execute(from, effect) PROVE ChainInv'
  BY <1>1, <1>2, RunsEdited, ChainKept DEF Execute
<1>3. CASE Recover \/ Write BY <1>2, <1>3 DEF Recover, Write
<1>4. CASE AppendEvent
  <2> DEFINE all == AppendEntry(work.ledger, Head(todo))
  <2>1. work' = [work EXCEPT !.ledger = all] /\ UNCHANGED <<disk, backups, accidents, kept>>
    BY <1>4 DEF AppendEvent
  <2>2. IsFile(work') /\ work'.ledger = all
    <3> HIDE DEF all
    <3> QED BY <1>1, <2>1, LedgerEdited
  <2>3. IsLedger(all) /\ (Verifies(work.ledger) => Verifies(all))
    BY AppendedRows, AppendVerifies DEF ChainInv, GoodFile
  <2> QED BY <2>1, <2>2, <2>3 DEF ChainInv, GoodFile
<1>5. CASE Commit \/ Fail BY <1>1, <1>5, ChainKept DEF Commit, Fail
<1>6. CASE \E p \in Procs : Crash(p) BY <1>1, <1>6, ChainKept DEF Crash
<1> QED BY <1>3, <1>4, <1>5, <1>6 DEF Serving

LEMMA RowsLikeAreRows ==
    ASSUME NEW row, Shaped(row), NEW other \in RowsLike(row)
    PROVE  Shaped(other)
<1>1. ASSUME NEW r, Shaped(r), NEW x
      PROVE  /\ Shaped([r EXCEPT !.event = x]) /\ Shaped([r EXCEPT !.hash = x])
             /\ Shaped([r EXCEPT !.form = x])
  BY <1>1 DEF Shaped
<1> DEFINE changed == [row EXCEPT !.event = Audited!Event("household.updated", None)]
           hash == EntryHash(row.seq, changed.event, row.previous)
<1>2. Shaped(changed) BY <1>1
<1>3. other \in {changed, [changed EXCEPT !.hash = hash], [row EXCEPT !.form = "other"]}
  BY DEF RowsLike
<1>4. Shaped([row EXCEPT !.form = "other"]) BY <1>1
<1> HIDE DEF changed, hash
<1>5. Shaped([changed EXCEPT !.hash = hash]) BY <1>1, <1>2
<1> QED BY <1>2, <1>3, <1>4, <1>5

\* What happens to the file while nobody has it open, and what the operator notes.
LEMMA OutsideKeepsChain ==
    ASSUME ChainInv, Outside \/ (\E p \in Tools : KeepHead(p)) PROVE ChainInv'
<1>1. ASSUME NEW file, IsFile(file), IsLedger(file.ledger), Accident(file) PROVE ChainInv'
  BY <1>1 DEF Accident, ChainInv, GoodFile
<1>2. CASE Restore BY <1>1, <1>2 DEF Restore, ChainInv, GoodFile
<1>3. ASSUME NEW i \in DOMAIN disk.ledger, NEW rows, IsLedger(rows),
             Accident([disk EXCEPT !.ledger = rows])
      PROVE  ChainInv'
  <2> DEFINE file == [disk EXCEPT !.ledger = rows]
  <2>1. IsFile(file) /\ file.ledger = rows BY LedgerEdited DEF ChainInv, GoodFile
  <2> HIDE DEF file
  <2>2. Accident(file) BY <1>3 DEF file
  <2> QED BY <1>1, <1>3, <2>1, <2>2
<1>4. CASE LedgerDamaged
  <2>1. PICK i \in DOMAIN disk.ledger :
            \/ Accident([disk EXCEPT !.ledger = RowLost(disk.ledger, i)])
            \/ \E row \in RowsLike(disk.ledger[i]) : Accident([disk EXCEPT !.ledger[i] = row])
    BY <1>4 DEF LedgerDamaged
  <2>2. CASE Accident([disk EXCEPT !.ledger = RowLost(disk.ledger, i)])
    BY <1>3, <2>2, LostRows DEF ChainInv, GoodFile
  <2>3. ASSUME NEW row \in RowsLike(disk.ledger[i]), Accident([disk EXCEPT !.ledger[i] = row])
        PROVE  ChainInv'
    <3>1. Shaped(disk.ledger[i]) BY DEF ChainInv, GoodFile, IsLedger, Shaped
    <3>2. Shaped(row) BY <3>1, RowsLikeAreRows
    <3>3. IsLedger([disk.ledger EXCEPT ![i] = row]) BY <3>2, ChangedRow DEF ChainInv, GoodFile
    <3>4. [disk EXCEPT !.ledger[i] = row] = [disk EXCEPT !.ledger = [disk.ledger EXCEPT ![i] = row]]
      OBVIOUS
    <3> QED BY <1>3, <2>3, <3>3, <3>4
  <2> QED BY <2>1, <2>2, <2>3
<1>5. CASE \E p \in Tools : KeepHead(p)
  BY <1>5 DEF KeepHead, ChainInv, GoodFile
<1> QED BY <1>2, <1>4, <1>5 DEF Outside

LEMMA ChainStep == ASSUME ChainInv, [Next]_vars PROVE ChainInv'
<1>1. CASE UNCHANGED vars BY <1>1 DEF vars, ChainInv, GoodFile
<1> QED BY <1>1, OpeningKeepsChain, ServingKeepsChain, OutsideKeepsChain DEF Next

\* Two chains that verify and agree in a hash agree up to it.
LEMMA HeadVouches ==
    ASSUME ChainInv, kept # <<>>, Verifies(disk.ledger), NEW i \in DOMAIN disk.ledger,
           disk.ledger[i].hash = HeadHash(kept)
    PROVE  SubSeq(disk.ledger, 1, i) = kept
<1> DEFINE rows == disk.ledger
           n == Len(kept)
<1>1. /\ IsLedger(rows) /\ IsLedger(kept) /\ Verifies(kept)
      /\ Len(rows) \in Nat /\ DOMAIN rows = 1..Len(rows)
      /\ n \in Nat /\ DOMAIN kept = 1..n
  BY LedgerIsSequence DEF ChainInv, GoodFile
<1>2. n \in DOMAIN kept
  <2>1. n # 0 BY <1>1, EmptySeq DEF IsLedger
  <2> QED BY <1>1, <2>1
<1>3. rows[i].hash = kept[n].hash BY DEF HeadHash
<1>4. i = n /\ \A k \in 1..i : rows[k] = kept[k]
  <2> HIDE DEF rows, n
  <2>1. i \in DOMAIN rows BY DEF rows
  <2>2. Verifies(rows) BY DEF rows
  <2> QED BY <1>1, <1>2, <1>3, <2>1, <2>2, HashVouches
<1> DEFINE S == {kept[k] : k \in DOMAIN kept}
<1>5. \A k \in 1..i : rows[k] \in S BY <1>1, <1>4
<1>6. kept \in Seq(S) BY <1>1 DEF IsLedger
<1> HIDE DEF S, rows, n
<1>7. i \in Int /\ 1 <= i BY <1>1, <1>2, <1>4
<1>8. /\ SubSeq(rows, 1, i) \in Seq(S) /\ Len(SubSeq(rows, 1, i)) = i
      /\ \A k \in 1..i : SubSeq(rows, 1, i)[k] = rows[k]
  BY <1>5, <1>7, SubSeqProperties
<1>9. SubSeq(rows, 1, i) = kept
  BY <1>4, <1>6, <1>8, SeqEqual DEF n
<1> QED BY <1>9 DEF rows

\* The chain verifies in every state until somebody changes the file from outside; what
\* the operator has noted verifies for ever.
THEOREM ChainInvariant == Spec => []ChainInv
<1> QED BY ChainInitially, ChainStep, PTL DEF Spec

\* audit.py: through every opening, migration, transaction, rollback and crash the chain
\* verifies, however many processes have the database open.
THEOREM ChainVerifies == Spec => []UntouchedChainVerifies
<1>1. ChainInv => UntouchedChainVerifies BY DEF ChainInv, UntouchedChainVerifies
<1> QED BY <1>1, ChainInvariant, PTL

\* audit.py, verify: an intact chain with the noted hash has the noted rows, whatever was
\* changed, lost, appended and restored since.
THEOREM NotedHeadVouches == Spec => []KeptHeadVouches
<1>1. ChainInv => KeptHeadVouches BY HeadVouches DEF KeptHeadVouches
<1> QED BY <1>1, ChainInvariant, PTL

-----------------------------------------------------------------------------
(* One process at a time *)

Retry == {"fingerprint", "source"}

\* No two processes have the database open.
Exclusive ==
    /\ pc \in [Procs -> Labels]
    /\ \A p, q \in Procs : pc[p] # "off" /\ pc[q] # "off" => p = q

\* A backup of the rows the migration starts from.
BackedUp ==
    \E file \in backups :
        /\ file.legacy = disk.legacy /\ file.runs = disk.runs
        /\ file.postings = disk.postings /\ file.ledger = disk.ledger

\* An operation of AuditedRuns is under way: its table is in the transaction, and its
\* events are there or yet to be appended.
OperationUnderWay ==
    /\ todo \in Seq(Audited!Events)
    /\ EventsOf(work.ledger) \in Seq(Audited!Events)
    /\ work.legacy = disk.legacy /\ work.indexes = disk.indexes
    /\ \E effect \in Audited!Operations(disk.runs) \cup Audited!Recovered(disk.runs) :
        /\ Audited!Deduplicated(effect.table)
        /\ work.runs = effect.table
        /\ EventsOf(work.ledger) \o todo = EventsOf(disk.ledger) \o effect.events

Unmigrated == {"script", "script 2", "script 3", "migrate", "rebuilt"}

Indexed == {"version", "verifying", "starting", "serving"} \cup InTransaction

\* What a process may rely on where it is.
Phase(p) ==
    /\ pc[p] # "failed"
    /\ pc[p] \in {"backup", "copying"} => disk.legacy
    /\ pc[p] \in Unmigrated /\ disk.legacy => BackedUp
    /\ pc[p] = "rebuilt" => work = Rebuilt(disk)
    /\ pc[p] = "refresh 4" => "fingerprint" \in disk.indexes
    /\ pc[p] \in Indexed => Retry \subseteq disk.indexes
    /\ pc[p] \in InTransaction => OperationUnderWay

SoundFile(file) ==
    /\ Audited!Deduplicated(file.runs)
    /\ EventsOf(file.ledger) \in Seq(Audited!Events)

FilesInv ==
    /\ SoundFile(disk)
    /\ \A file \in backups : SoundFile(file) /\ file.legacy

AloneInv == Exclusive /\ FilesInv /\ \A p \in Procs : Phase(p)

LEMMA AloneInitially == Init => AloneInv
BY InitialFilesAreTheProgramsOwn
   DEF Init, AloneInv, Exclusive, FilesInv, SoundFile, Phase, Labels, Unmigrated, Indexed,
       InTransaction

\* A step of the only process that has the database open, or of the first.
LEMMA StepOfOne ==
    ASSUME Exclusive, NEW p \in Procs, pc[p] # "off" \/ AllOff,
           NEW label \in Labels, pc' = [pc EXCEPT ![p] = label], Phase(p)'
    PROVE  Exclusive' /\ \A q \in Procs : Phase(q)'
<1>1. pc'[p] = label /\ \A q \in Procs : q # p => pc'[q] = "off"
  BY DEF Exclusive, AllOff
<1>2. Exclusive' BY <1>1 DEF Exclusive, Labels
<1>3. ASSUME NEW q \in Procs, q # p PROVE Phase(q)'
  BY <1>1, <1>3 DEF Phase, Unmigrated, Indexed, InTransaction
<1> QED BY <1>2, <1>3

LEMMA FilesKept ==
    ASSUME FilesInv, disk'.runs = disk.runs, disk'.ledger = disk.ledger,
           backups' = backups
    PROVE  FilesInv'
BY DEF FilesInv, SoundFile

\* Rows without duplicates can be indexed.
LEMMA IndexesArePossible ==
    ASSUME FilesInv, NEW index PROVE Indexable(index, disk.runs)
BY DEF FilesInv, SoundFile, Indexable, Audited!Deduplicated

\* A statement of the process that is alone: another column of the file may change.
LEMMA StatementAlone ==
    ASSUME AloneInv, NEW p \in Procs, NEW from \in Labels, from # "off", NEW to \in Labels,
           NEW file, Statement(p, from, to, file),
           file.runs = disk.runs, file.ledger = disk.ledger, Phase(p)'
    PROVE  AloneInv'
<1>1. pc[p] # "off" /\ pc' = [pc EXCEPT ![p] = to] BY DEF Statement, Goto
<1>2. disk' = file /\ backups' = backups BY DEF Statement
<1>3. FilesInv' BY <1>2, FilesKept DEF AloneInv
<1> QED BY <1>1, <1>3, StepOfOne DEF AloneInv

\* Opening, up to the script.
LEMMA BackupAlone ==
    ASSUME ~ Together, AloneInv, NEW p \in Procs,
           Open(p) \/ BackUp(p) \/ BackupDone(p) \/ BackupFails(p) \/ Close(p)
    PROVE  AloneInv'
<1> USE DEF Labels, Unmigrated, Indexed, InTransaction
<1>1. CASE Open(p)
  <2>1. PICK label \in {"closing", "backup", "script"} :
            /\ pc' = [pc EXCEPT ![p] = label]
            /\ label = "backup" => disk.legacy
            /\ label = "script" => ~ disk.legacy
    BY <1>1 DEF Open, Goto, NeedsMigration
  <2>2. disk' = disk /\ backups' = backups BY <1>1 DEF Open
  <2>3. AllOff BY <1>1 DEF Open, AllOff
  <2>4. pc'[p] = label BY <2>1 DEF AloneInv, Exclusive
  <2>5. Phase(p)' BY <2>1, <2>2, <2>4 DEF Phase
  <2>6. FilesInv' BY <2>2, FilesKept DEF AloneInv
  <2> QED BY <2>1, <2>3, <2>5, <2>6, StepOfOne DEF AloneInv
<1>2. CASE BackUp(p)
  <2>1. pc' = [pc EXCEPT ![p] = "copying"] /\ pc[p] = "backup"
    BY <1>2 DEF BackUp, Goto
  <2>2. disk' = disk /\ backups' = backups BY <1>2 DEF BackUp
  <2>3. pc'[p] = "copying" BY <2>1 DEF AloneInv, Exclusive
  <2>4. Phase(p)' BY <2>1, <2>2, <2>3 DEF Phase, AloneInv
  <2>5. FilesInv' BY <2>2, FilesKept DEF AloneInv
  <2> QED BY <2>1, <2>4, <2>5, StepOfOne DEF AloneInv
<1>3. CASE BackupDone(p)
  <2>1. pc' = [pc EXCEPT ![p] = "script"] /\ pc[p] = "copying"
    BY <1>3 DEF BackupDone, Goto
  <2>2. disk' = disk /\ backups' = backups \cup {disk} BY <1>3 DEF BackupDone
  <2>3. pc'[p] = "script" BY <2>1 DEF AloneInv, Exclusive
  <2>4. BackedUp' BY <2>2 DEF BackedUp
  <2>5. Phase(p)' BY <2>3, <2>4 DEF Phase
  <2>6. disk.legacy BY <2>1 DEF Phase, AloneInv
  <2>7. FilesInv' BY <2>2, <2>6 DEF FilesInv, SoundFile, AloneInv
  <2> QED BY <2>1, <2>5, <2>7, StepOfOne DEF AloneInv
<1>4. CASE BackupFails(p) \/ Close(p)
  <2>1. PICK label \in {"closing", "off"} : pc' = [pc EXCEPT ![p] = label]
    BY <1>4 DEF BackupFails, Close, Goto
  <2>2. disk' = disk /\ backups' = backups /\ pc[p] # "off" BY <1>4 DEF BackupFails, Close
  <2>3. pc'[p] = label BY <2>1 DEF AloneInv, Exclusive
  <2>4. Phase(p)' BY <2>3 DEF Phase
  <2>5. FilesInv' BY <2>2, FilesKept DEF AloneInv
  <2> QED BY <2>1, <2>2, <2>4, <2>5, StepOfOne DEF AloneInv
<1> QED BY <1>1, <1>2, <1>3, <1>4

\* Where a statement leads: the label is the process's own.
LEMMA StatementLeads ==
    ASSUME AloneInv, NEW p \in Procs, NEW from, NEW to \in Labels, NEW file,
           Statement(p, from, to, file)
    PROVE  pc[p] = from /\ pc'[p] = to /\ disk' = file /\ backups' = backups
BY DEF Statement, Goto, AloneInv, Exclusive

\* The script and the indexes.
LEMMA IndexesAlone ==
    ASSUME AloneInv, ChainInv, NEW p \in Procs, Script(p) \/ Refresh(p)
    PROVE  AloneInv'
<1> USE DEF Labels, Unmigrated, Indexed, InTransaction
<1>1. IsFile(disk) BY DEF ChainInv, GoodFile
<1>2. Phase(p) BY DEF AloneInv
<1>3. ASSUME NEW from \in Labels, NEW to \in Labels, NEW index,
             CreateIndex(p, from, to, index), from # "off",
             \/ from \in {"script", "script 2"} /\ to \in {"script 2", "script 3"}
             \/ from = "refresh 3" /\ to = "refresh 4" /\ index = "fingerprint"
             \/ from = "refresh 4" /\ to = "version" /\ index = "source"
      PROVE  AloneInv'
  <2> DEFINE possible == index \in disk.indexes \/ Indexable(index, disk.runs)
             indexes == disk.indexes \cup {index}
             file == [disk EXCEPT !.indexes = indexes]
  <2>1. Statement(p, from, to, file)
    <3>1. possible BY IndexesArePossible DEF AloneInv
    <3>2. Statement(p, from, IF possible THEN to ELSE "failed", IF possible THEN file ELSE disk)
      BY <1>3 DEF CreateIndex
    <3> HIDE DEF file, possible
    <3> QED BY <3>1, <3>2
  <2>2. /\ file.runs = disk.runs /\ file.ledger = disk.ledger /\ file.legacy = disk.legacy
        /\ file.postings = disk.postings /\ file.indexes = indexes
    <3> HIDE DEF indexes
    <3> QED BY <1>1, IndexesEdited
  <2> HIDE DEF file
  <2>3. pc[p] = from /\ pc'[p] = to /\ disk' = file /\ backups' = backups
    BY <2>1, StatementLeads
  <2>4. disk.legacy /\ BackedUp => BackedUp' BY <2>2, <2>3 DEF BackedUp
  <2>5. Phase(p)' BY <1>2, <1>3, <2>2, <2>3, <2>4 DEF Phase, Retry
  <2> QED BY <1>3, <2>1, <2>2, <2>5, StatementAlone
<1>4. ASSUME NEW from \in Labels, NEW to \in {"refresh 2", "refresh 3"}, NEW index,
             DropIndex(p, from, to, index), from # "off"
      PROVE  AloneInv'
  <2> DEFINE indexes == disk.indexes \ {index}
             file == [disk EXCEPT !.indexes = indexes]
  <2>1. Statement(p, from, to, file) BY <1>4 DEF DropIndex
  <2>2. file.runs = disk.runs /\ file.ledger = disk.ledger
    <3> HIDE DEF indexes
    <3> QED BY <1>1, IndexesEdited
  <2> HIDE DEF file
  <2>3. to \in Labels OBVIOUS
  <2>4. pc'[p] = to BY <2>1, <2>3, StatementLeads
  <2>5. Phase(p)' BY <2>4 DEF Phase
  <2> QED BY <1>4, <2>1, <2>2, <2>3, <2>5, StatementAlone
<1>5. CASE Statement(p, "script 3", "migrate", WithVersion(disk, 1))
  <2> DEFINE file == WithVersion(disk, 1)
  <2>1. /\ file.runs = disk.runs /\ file.ledger = disk.ledger /\ file.legacy = disk.legacy
        /\ file.postings = disk.postings
    BY <1>1, VersionsEdited DEF WithVersion
  <2> HIDE DEF file
  <2>2. Statement(p, "script 3", "migrate", file) BY <1>5 DEF file
  <2>3. pc[p] = "script 3" /\ pc'[p] = "migrate" /\ disk' = file /\ backups' = backups
    BY <2>2, StatementLeads
  <2>4. disk.legacy /\ BackedUp => BackedUp' BY <2>1, <2>3 DEF BackedUp
  <2>5. Phase(p)' BY <1>2, <2>1, <2>3, <2>4 DEF Phase
  <2> QED BY <2>1, <2>2, <2>5, StatementAlone
<1> QED BY <1>3, <1>4, <1>5 DEF Script, Refresh

\* The migration, and the end of the opening.
LEMMA MigrationAlone ==
    ASSUME AloneInv, ChainInv, NEW p \in Procs,
           SkipMigration(p) \/ Migrate(p) \/ MigrationCommits(p) \/ Opened(p)
    PROVE  AloneInv'
<1> USE DEF Labels, Unmigrated, Indexed, InTransaction
<1>1. IsFile(disk) BY DEF ChainInv, GoodFile
<1>2. Phase(p) /\ Exclusive BY DEF AloneInv
<1>3. CASE SkipMigration(p)
  <2>1. Statement(p, "migrate", "refresh", disk) BY <1>3 DEF SkipMigration
  <2>2. pc'[p] = "refresh" BY <2>1, StatementLeads
  <2>3. Phase(p)' BY <2>2 DEF Phase
  <2> QED BY <2>1, <2>3, StatementAlone
<1>4. CASE Migrate(p)
  <2>1. pc[p] = "migrate" /\ pc' = [pc EXCEPT ![p] = "rebuilt"] BY <1>4 DEF Migrate, Goto
  <2>2. disk' = disk /\ backups' = backups /\ work' = Rebuilt(disk) BY <1>4 DEF Migrate
  <2>3. pc'[p] = "rebuilt" BY <1>2, <2>1 DEF Exclusive
  <2>4. Rebuilt(disk)' = Rebuilt(disk) BY <2>2 DEF Rebuilt
  <2>5. BackedUp' <=> BackedUp BY <2>2 DEF BackedUp
  <2>6. Phase(p)' BY <1>2, <2>1, <2>2, <2>3, <2>4, <2>5 DEF Phase
  <2>7. FilesInv' BY <2>2, FilesKept DEF AloneInv
  <2> QED BY <1>2, <2>1, <2>6, <2>7, StepOfOne DEF AloneInv
<1>5. CASE MigrationCommits(p)
  <2>1. pc[p] = "rebuilt" /\ pc' = [pc EXCEPT ![p] = "refresh"]
    BY <1>5 DEF MigrationCommits, Goto
  <2>2. disk' = work /\ backups' = backups /\ work = Rebuilt(disk)
    BY <1>2, <1>5, <2>1 DEF MigrationCommits, Phase
  <2>3. pc'[p] = "refresh" BY <1>2, <2>1 DEF Exclusive
  <2>4. disk'.runs = disk.runs /\ disk'.ledger = disk.ledger BY <1>1, <2>2, FileRebuilt
  <2>5. Phase(p)' BY <2>3 DEF Phase
  <2>6. FilesInv' BY <2>2, <2>4, FilesKept DEF AloneInv
  <2> QED BY <1>2, <2>1, <2>5, <2>6, StepOfOne DEF AloneInv
<1>6. CASE Opened(p)
  <2> DEFINE file == WithVersion(disk, SchemaVersion)
  <2>1. PICK to \in {"starting", "verifying"} : Statement(p, "version", to, file)
    BY <1>6 DEF Opened
  <2>2. to \in Labels OBVIOUS
  <2>3. file.runs = disk.runs /\ file.ledger = disk.ledger /\ file.indexes = disk.indexes
    BY <1>1, VersionsEdited DEF WithVersion
  <2> HIDE DEF file
  <2>4. pc[p] = "version" /\ pc'[p] = to /\ disk' = file BY <2>1, <2>2, StatementLeads
  <2>5. Phase(p)' BY <1>2, <2>3, <2>4 DEF Phase
  <2> QED BY <2>1, <2>2, <2>3, <2>5, StatementAlone
<1> QED BY <1>3, <1>4, <1>5, <1>6

-----------------------------------------------------------------------------
(* The server's transactions *)

\* Every operation appends events.
LEMMA EffectsAreEvents ==
    ASSUME NEW t, NEW effect \in Audited!Operations(t) \cup Audited!Recovered(t)
    PROVE  effect.events \in Seq(Audited!Events)
<1>1. ASSUME NEW kind \in Audited!Kinds, NEW r \in Runs \cup {None}
      PROVE  <<Audited!Event(kind, r)>> \in Seq(Audited!Events)
  BY DEF Audited!Event, Audited!Events
<1>2. CASE effect \in Audited!Created(t)
  <2>1. PICK r \in Runs : effect.events = <<Audited!Event("run.created", r)>>
    BY <1>2 DEF Audited!Created, Audited!Effect
  <2> QED BY <1>1, <2>1 DEF Audited!Kinds
<1>3. CASE effect \in Audited!Started(t)
  <2>1. PICK r \in Runs : effect.events = <<Audited!Event("run.extraction_started", r)>>
    BY <1>3 DEF Audited!Started, Audited!Effect
  <2> QED BY <1>1, <2>1 DEF Audited!Kinds
<1>4. CASE effect \in Audited!Completed(t)
  <2>1. PICK r \in {q \in Runs : t[q].status = "extracting"},
             s \in {"needs_review", "blocked"}, f \in Prints :
            effect = Audited!Effect(Audited!WithResult(t, r, s, f),
                                    <<Audited!Event("run.extraction_completed", r)>>)
    BY <1>4 DEF Audited!Completed
  <2>2. \A x, e : Audited!Effect(x, e).events = e BY DEF Audited!Effect
  <2>3. effect.events = <<Audited!Event("run.extraction_completed", r)>>
    BY <2>1, <2>2, Zenon
  <2> QED BY <1>1, <2>3 DEF Audited!Kinds
<1>5. CASE effect \in Audited!Failed(t)
  <2>1. PICK r \in Runs : effect.events = <<Audited!Event("run.failed", r)>>
    BY <1>5 DEF Audited!Failed, Audited!Effect
  <2> QED BY <1>1, <2>1 DEF Audited!Kinds
<1>6. CASE effect \in Audited!HouseholdSaved(t)
  <2>1. effect.events = <<Audited!Event("household.updated", None)>>
    BY <1>6 DEF Audited!HouseholdSaved, Audited!Effect
  <2> QED BY <1>1, <2>1 DEF Audited!Kinds
<1>7. CASE effect \in Audited!Recovered(t)
  <2>1. PICK order \in Audited!Orders(Audited!Interrupted(t)) :
            effect.events =
                [i \in DOMAIN order |-> Audited!Event("run.recovered_as_failed", order[i])]
    BY <1>7 DEF Audited!Recovered, Audited!Effect
  <2>2. Audited!Interrupted(t) \subseteq Runs BY DEF Audited!Interrupted
  <2>3. Cardinality(Audited!Interrupted(t)) \in Nat
    BY <2>2, RunsAreFinite, FS_Subset, FS_CardinalityType
  <2>4. order \in [1..Cardinality(Audited!Interrupted(t)) -> Audited!Interrupted(t)]
    BY DEF Audited!Orders, Audited!Cardinality, Cardinality
  <2> DEFINE n == Cardinality(Audited!Interrupted(t))
  <2>5. DOMAIN order = 1..n /\ \A i \in 1..n : order[i] \in Runs BY <2>2, <2>4
  <2>6. ASSUME NEW r \in Runs PROVE Audited!Event("run.recovered_as_failed", r) \in Audited!Events
    BY DEF Audited!Event, Audited!Events, Audited!Kinds
  <2> HIDE DEF n
  <2>7. effect.events \in [1..n -> Audited!Events] BY <2>1, <2>5, <2>6
  <2> QED BY <2>3, <2>7, SeqDef DEF n
<1> QED BY <1>2, <1>3, <1>4, <1>5, <1>6, <1>7 DEF Audited!Operations

\* append adds the event of its row to the trail.
LEMMA AppendedEvent ==
    ASSUME NEW rows, IsLedger(rows), EventsOf(rows) \in Seq(Audited!Events),
           NEW event \in Audited!Events
    PROVE  EventsOf(AppendEntry(rows, event)) = Append(EventsOf(rows), event)
<1> DEFINE all == AppendEntry(rows, event)
           n == Len(rows)
<1>1. /\ IsLedger(all) /\ Len(all) = n + 1 /\ n \in Nat
      /\ DOMAIN all = 1..(n + 1) /\ DOMAIN rows = 1..n
      /\ \A i \in 1..n : all[i] = rows[i]
      /\ all[n + 1].event = event
  <2>1. NewRow(NextSequence(rows), event, HeadHash(rows)).event = event BY DEF NewRow
  <2>2. IsLedger(all) /\ Len(all) = n + 1 /\ (\A i \in 1..n : all[i] = rows[i])
        /\ all[n + 1] = NewRow(NextSequence(rows), event, HeadHash(rows))
    BY AppendedRows
  <2> HIDE DEF all
  <2>3. n \in Nat /\ DOMAIN rows = 1..n /\ DOMAIN all = 1..Len(all)
    BY <2>2, LedgerIsSequence
  <2> QED BY <2>1, <2>2, <2>3
<1>2. /\ DOMAIN EventsOf(rows) = 1..n /\ Len(EventsOf(rows)) = n
      /\ \A i \in 1..n : EventsOf(rows)[i] = rows[i].event
  <2>1. DOMAIN EventsOf(rows) = 1..n /\ \A i \in 1..n : EventsOf(rows)[i] = rows[i].event
    BY <1>1 DEF EventsOf
  <2>2. DOMAIN EventsOf(rows) = 1..Len(EventsOf(rows)) /\ Len(EventsOf(rows)) \in Nat
    BY LenProperties
  <2> HIDE DEF n
  <2>3. Len(EventsOf(rows)) = n BY <1>1, <2>1, <2>2
  <2> QED BY <2>1, <2>3
<1>3. /\ Append(EventsOf(rows), event) \in Seq(Audited!Events)
      /\ Len(Append(EventsOf(rows), event)) = n + 1
      /\ \A i \in 1..n : Append(EventsOf(rows), event)[i] = rows[i].event
      /\ Append(EventsOf(rows), event)[n + 1] = event
  BY <1>2, AppendProperties
<1> HIDE DEF all, n
<1>4. EventsOf(all) \in Seq(Audited!Events) /\ Len(EventsOf(all)) = n + 1
  <2>1. \A i \in 1..(n + 1) : all[i].event \in Audited!Events
    <3>1. \A i \in 1..n : rows[i].event \in Audited!Events
      BY <1>1, <1>2, ElementOfSeq
    <3> QED BY <1>1, <3>1
  <2>2. EventsOf(all) \in [1..(n + 1) -> Audited!Events] BY <1>1, <2>1 DEF EventsOf
  <2> QED BY <1>1, <2>2, SeqDef, LenProperties
<1>5. \A i \in 1..(n + 1) : EventsOf(all)[i] = Append(EventsOf(rows), event)[i]
  BY <1>1, <1>3 DEF EventsOf
<1> QED BY <1>3, <1>4, <1>5, SeqEqual DEF all

\* An event moves from those to come to those that are there.
LEMMA MoveHead ==
    ASSUME NEW S, NEW s \in Seq(S), NEW t \in Seq(S), t # <<>>
    PROVE  Append(s, Head(t)) \o Tail(t) = s \o t
<1>1. Head(t) \in S /\ Tail(t) \in Seq(S) BY HeadTailProperties
<1>2. Append(s, Head(t)) = s \o <<Head(t)>> BY <1>1, AppendIsConcat
<1>3. <<Head(t)>> \in Seq(S) BY <1>1
<1>4. (s \o <<Head(t)>>) \o Tail(t) = s \o (<<Head(t)>> \o Tail(t))
  BY <1>1, <1>3, ConcatAssociative
<1>5. <<Head(t)>> \o Tail(t) = t BY HeadTailProperties
<1> QED BY <1>2, <1>4, <1>5


\* A transaction begins with rows that the indexes admit.
LEMMA ExecuteAlone ==
    ASSUME AloneInv, ChainInv, NEW from \in {"starting", "serving"},
           NEW effect \in Audited!Operations(disk.runs) \cup Audited!Recovered(disk.runs),
           Execute(from, effect)
    PROVE  AloneInv'
<1> USE DEF Labels, Unmigrated, Indexed, InTransaction, Procs
<1>1. IsFile(disk) BY DEF ChainInv, GoodFile
<1>2. Exclusive /\ FilesInv /\ Phase(Server) BY DEF AloneInv
<1>3. PICK label \in {"recovering", "writing"} : pc' = [pc EXCEPT ![Server] = label]
  BY DEF Execute, Goto
<1>4. /\ pc[Server] = from /\ disk' = disk /\ backups' = backups /\ todo' = effect.events
      /\ Admits(disk, effect.table)
  BY DEF Execute
<1>5. pc'[Server] = label BY <1>2, <1>3 DEF Exclusive
<1>6. Retry \subseteq disk.indexes BY <1>2, <1>4 DEF Phase
<1>7. Audited!Deduplicated(effect.table)
  <2>1. Indexable("fingerprint", effect.table) /\ Indexable("source", effect.table)
    BY <1>4, <1>6 DEF Admits, Retry
  <2> QED BY <2>1 DEF Indexable, Audited!Deduplicated
<1>8. /\ work'.runs = effect.table /\ work'.legacy = disk.legacy
      /\ work'.indexes = disk.indexes /\ work'.ledger = disk.ledger
  <2> DEFINE new == effect.table
  <2>1. work' = [disk EXCEPT !.runs = new] BY DEF Execute
  <2> HIDE DEF new
  <2>2. /\ work'.runs = new /\ work'.legacy = disk.legacy
        /\ work'.indexes = disk.indexes /\ work'.ledger = disk.ledger
    BY <1>1, <2>1, RunsEdited
  <2> QED BY <2>2 DEF new
<1>9. effect.events \in Seq(Audited!Events) BY EffectsAreEvents
<1>10. EventsOf(disk.ledger) \in Seq(Audited!Events) BY <1>2 DEF FilesInv, SoundFile
<1>11. OperationUnderWay'
  <2>1. EventsOf(work'.ledger) = EventsOf(disk.ledger) BY <1>8
  <2>2. EventsOf(work'.ledger) \o todo' = EventsOf(disk'.ledger) \o effect.events
    BY <1>4, <2>1
  <2>3. effect \in Audited!Operations(disk'.runs) \cup Audited!Recovered(disk'.runs)
    BY <1>4
  <2> QED BY <1>4, <1>7, <1>8, <1>9, <1>10, <2>1, <2>2, <2>3 DEF OperationUnderWay
<1>12. Phase(Server)' BY <1>4, <1>5, <1>6, <1>11 DEF Phase
<1>13. FilesInv' BY <1>2, <1>4, FilesKept
<1> QED BY <1>2, <1>3, <1>4, <1>12, <1>13, StepOfOne DEF AloneInv

\* The events follow one by one.
LEMMA AppendAlone == ASSUME AloneInv, ChainInv, AppendEvent PROVE AloneInv'
<1> USE DEF Labels, InTransaction, Procs
<1>1. IsFile(work) /\ IsLedger(work.ledger) BY DEF ChainInv, GoodFile
<1>2. Exclusive /\ FilesInv /\ Phase(Server) BY DEF AloneInv
<1>3. /\ pc[Server] \in InTransaction /\ todo # <<>> /\ todo' = Tail(todo)
      /\ pc' = pc /\ disk' = disk /\ backups' = backups
  BY DEF AppendEvent
<1>4. OperationUnderWay BY <1>2, <1>3 DEF Phase
<1>5. todo \in Seq(Audited!Events) /\ EventsOf(work.ledger) \in Seq(Audited!Events)
  BY <1>4 DEF OperationUnderWay
<1>6. Head(todo) \in Audited!Events /\ Tail(todo) \in Seq(Audited!Events)
  BY <1>3, <1>5, HeadTailProperties
<1>7. /\ work'.runs = work.runs /\ work'.legacy = work.legacy
      /\ work'.indexes = work.indexes
      /\ EventsOf(work'.ledger) = Append(EventsOf(work.ledger), Head(todo))
  <2> DEFINE all == AppendEntry(work.ledger, Head(todo))
  <2>1. work' = [work EXCEPT !.ledger = all] BY DEF AppendEvent
  <2>2. EventsOf(all) = Append(EventsOf(work.ledger), Head(todo))
    BY <1>1, <1>5, <1>6, AppendedEvent
  <2> HIDE DEF all
  <2> QED BY <1>1, <2>1, <2>2, LedgerEdited
<1>8. EventsOf(work'.ledger) \in Seq(Audited!Events) BY <1>5, <1>6, <1>7, AppendProperties
<1>9. EventsOf(work'.ledger) \o todo' = EventsOf(work.ledger) \o todo
  BY <1>3, <1>5, <1>7, MoveHead
<1>10. OperationUnderWay'
  BY <1>3, <1>4, <1>6, <1>7, <1>8, <1>9 DEF OperationUnderWay
<1>11. Phase(Server)' BY <1>2, <1>3, <1>10 DEF Phase, Unmigrated, Indexed
<1>12. FilesInv' BY <1>2, <1>3, FilesKept
<1>13. pc' = [pc EXCEPT ![Server] = pc[Server]] /\ pc[Server] \in Labels /\ pc[Server] # "off"
  BY <1>2, <1>3 DEF Exclusive
<1> QED BY <1>2, <1>11, <1>12, <1>13, StepOfOne DEF AloneInv

\* The end of a transaction.
LEMMA CommitAlone == ASSUME AloneInv, Commit PROVE AloneInv'
<1> USE DEF Labels, Unmigrated, Indexed, InTransaction, Procs
<1>1. Exclusive /\ FilesInv /\ Phase(Server) BY DEF AloneInv
<1>2. /\ pc[Server] \in InTransaction /\ pc' = [pc EXCEPT ![Server] = "serving"]
      /\ disk' = work /\ backups' = backups
  BY DEF Commit, Goto
<1>3. OperationUnderWay /\ Retry \subseteq disk.indexes BY <1>1, <1>2 DEF Phase
<1>4. SoundFile(work) /\ work.indexes = disk.indexes
  BY <1>3 DEF OperationUnderWay, SoundFile
<1>5. FilesInv' BY <1>1, <1>2, <1>4 DEF FilesInv, SoundFile
<1>6. pc'[Server] = "serving" BY <1>1, <1>2 DEF Exclusive
<1>7. Phase(Server)' BY <1>2, <1>3, <1>4, <1>6 DEF Phase
<1> QED BY <1>1, <1>2, <1>5, <1>7, StepOfOne DEF AloneInv

LEMMA RollbackAlone ==
    ASSUME AloneInv, Fail \/ (\E p \in Procs : Crash(p)) PROVE AloneInv'
<1> USE DEF Labels, Unmigrated, Indexed, InTransaction
<1>1. Exclusive /\ FilesInv /\ (\A p \in Procs : Phase(p)) BY DEF AloneInv
<1>2. disk' = disk /\ backups' = backups BY DEF Fail, Crash
<1>3. FilesInv' BY <1>1, <1>2, FilesKept
<1>4. CASE Fail
  <2>1. PICK label \in {"closing", "serving"} : pc' = [pc EXCEPT ![Server] = label]
    BY <1>4 DEF Fail, Goto
  <2>2. pc[Server] \in InTransaction BY <1>4 DEF Fail
  <2>3. Server \in Procs BY DEF Procs
  <2>4. pc'[Server] = label BY <1>1, <2>1, <2>3 DEF Exclusive
  <2>5. Phase(Server)' BY <1>1, <1>2, <2>2, <2>3, <2>4 DEF Phase
  <2> QED BY <1>1, <1>3, <2>1, <2>2, <2>3, <2>5, StepOfOne DEF AloneInv
<1>5. ASSUME NEW p \in Procs, Crash(p) PROVE AloneInv'
  <2>1. pc[p] # "off" /\ pc' = [pc EXCEPT ![p] = "off"] BY <1>5 DEF Crash, Goto
  <2>2. pc'[p] = "off" BY <1>1, <2>1 DEF Exclusive
  <2>3. Phase(p)' BY <2>2 DEF Phase
  <2> QED BY <1>1, <1>3, <2>1, <2>3, StepOfOne DEF AloneInv
<1> QED BY <1>4, <1>5


\* Rows with events of the program have a trail of such events.
LEMMA TrailOfRows ==
    ASSUME NEW S, \A row \in S : row.event \in Audited!Events, NEW rows \in Seq(S)
    PROVE  EventsOf(rows) \in Seq(Audited!Events)
<1>1. Len(rows) \in Nat /\ DOMAIN rows = 1..Len(rows) BY LenProperties
<1>2. \A i \in DOMAIN rows : rows[i].event \in Audited!Events BY <1>1, ElementOfSeq
<1>3. EventsOf(rows) \in [1..Len(rows) -> Audited!Events] BY <1>1, <1>2 DEF EventsOf
<1> QED BY <1>1, <1>3, SeqDef

LEMMA EventsOfRowsLike ==
    ASSUME NEW row, Shaped(row), row.event \in Audited!Events, NEW other \in RowsLike(row)
    PROVE  other.event \in Audited!Events
<1>1. ASSUME NEW r, Shaped(r), NEW x
      PROVE  /\ [r EXCEPT !.event = x].event = x /\ Shaped([r EXCEPT !.event = x])
             /\ [r EXCEPT !.hash = x].event = r.event
             /\ [r EXCEPT !.form = x].event = r.event
  BY <1>1 DEF Shaped
<1> DEFINE event == Audited!Event("household.updated", None)
           changed == [row EXCEPT !.event = event]
           hash == EntryHash(row.seq, changed.event, row.previous)
<1>2. event \in Audited!Events BY DEF Audited!Event, Audited!Events, Audited!Kinds
<1>3. other \in {changed, [changed EXCEPT !.hash = hash], [row EXCEPT !.form = "other"]}
  BY DEF RowsLike
<1>4. [row EXCEPT !.form = "other"].event = row.event BY <1>1
<1> HIDE DEF event
<1>5. changed.event = event /\ Shaped(changed) BY <1>1
<1> HIDE DEF changed, hash
<1>6. [changed EXCEPT !.hash = hash].event = event BY <1>1, <1>5
<1> QED BY <1>2, <1>3, <1>4, <1>5, <1>6

\* A ledger that was changed from outside still has events of the program.
LEMMA DamagedTrail ==
    ASSUME NEW rows, IsLedger(rows), EventsOf(rows) \in Seq(Audited!Events),
           NEW i \in DOMAIN rows
    PROVE  /\ EventsOf(RowLost(rows, i)) \in Seq(Audited!Events)
           /\ \A row \in RowsLike(rows[i]) :
                  EventsOf([rows EXCEPT ![i] = row]) \in Seq(Audited!Events)
<1> DEFINE S == {rows[k] : k \in DOMAIN rows}
<1>1. DOMAIN EventsOf(rows) = DOMAIN rows
      /\ \A k \in DOMAIN rows : EventsOf(rows)[k] = rows[k].event
  BY DEF EventsOf
<1>2. \A k \in DOMAIN rows : rows[k].event \in Audited!Events
  <2>1. DOMAIN EventsOf(rows) = 1..Len(EventsOf(rows)) BY LenProperties
  <2> QED BY <1>1, <2>1, ElementOfSeq
<1>3. \A row \in S : row.event \in Audited!Events BY <1>2
<1>4. EventsOf(RowLost(rows, i)) \in Seq(Audited!Events)
  <2>1. RowLost(rows, i) \in Seq(S) BY LostRows
  <2> HIDE DEF S
  <2> QED BY <1>3, <2>1, TrailOfRows
<1>5. ASSUME NEW row \in RowsLike(rows[i])
      PROVE  EventsOf([rows EXCEPT ![i] = row]) \in Seq(Audited!Events)
  <2>1. Shaped(rows[i]) BY DEF IsLedger, Shaped
  <2>2. row.event \in Audited!Events /\ Shaped(row)
    BY <1>2, <2>1, EventsOfRowsLike, RowsLikeAreRows
  <2>3. [rows EXCEPT ![i] = row] \in Seq(S \cup {row}) BY <2>2, ChangedRow
  <2>4. \A x \in S \cup {row} : x.event \in Audited!Events BY <1>3, <2>2
  <2> HIDE DEF S
  <2> QED BY <2>3, <2>4, TrailOfRows
<1> QED BY <1>4, <1>5

\* What happens while nobody has the file open.
LEMMA OutsideAlone == ASSUME AloneInv, ChainInv, Outside PROVE AloneInv'
<1>1. Exclusive /\ FilesInv BY DEF AloneInv
<1>2. GoodFile(disk) BY DEF ChainInv
<1>3. ASSUME NEW file, Accident(file), SoundFile(file) PROVE AloneInv'
  <2>1. pc' = pc /\ disk' = file /\ backups' = backups /\ (\A p \in Procs : pc[p] = "off")
    BY <1>3 DEF Accident, AllOff
  <2>2. FilesInv' BY <1>1, <1>3, <2>1 DEF FilesInv, SoundFile
  <2>3. Exclusive' BY <1>1, <2>1 DEF Exclusive, Labels
  <2>4. \A p \in Procs : Phase(p)'
    BY <2>1 DEF Phase, Unmigrated, Indexed, InTransaction
  <2> QED BY <2>2, <2>3, <2>4 DEF AloneInv
<1>4. CASE Restore BY <1>1, <1>3, <1>4 DEF Restore, FilesInv
<1>5. ASSUME NEW rows, EventsOf(rows) \in Seq(Audited!Events),
             Accident([disk EXCEPT !.ledger = rows])
      PROVE  AloneInv'
  <2> DEFINE file == [disk EXCEPT !.ledger = rows]
  <2>1. file.runs = disk.runs /\ file.ledger = rows BY <1>2, LedgerEdited DEF GoodFile
  <2> HIDE DEF file
  <2>2. SoundFile(file) BY <1>1, <1>5, <2>1 DEF FilesInv, SoundFile
  <2>3. Accident(file) BY <1>5 DEF file
  <2> QED BY <1>3, <2>2, <2>3
<1>6. CASE LedgerDamaged
  <2>1. IsLedger(disk.ledger) /\ EventsOf(disk.ledger) \in Seq(Audited!Events)
    BY <1>1, <1>2 DEF FilesInv, SoundFile, GoodFile
  <2>2. PICK i \in DOMAIN disk.ledger :
            \/ Accident([disk EXCEPT !.ledger = RowLost(disk.ledger, i)])
            \/ \E row \in RowsLike(disk.ledger[i]) : Accident([disk EXCEPT !.ledger[i] = row])
    BY <1>6 DEF LedgerDamaged
  <2>3. CASE Accident([disk EXCEPT !.ledger = RowLost(disk.ledger, i)])
    BY <1>5, <2>1, <2>3, DamagedTrail
  <2>4. ASSUME NEW row \in RowsLike(disk.ledger[i]), Accident([disk EXCEPT !.ledger[i] = row])
        PROVE  AloneInv'
    <3>1. [disk EXCEPT !.ledger[i] = row] = [disk EXCEPT !.ledger = [disk.ledger EXCEPT ![i] = row]]
      OBVIOUS
    <3>2. EventsOf([disk.ledger EXCEPT ![i] = row]) \in Seq(Audited!Events)
      BY <2>1, DamagedTrail
    <3> QED BY <1>5, <2>4, <3>1, <3>2
  <2> QED BY <2>2, <2>3, <2>4
<1> QED BY <1>4, <1>6 DEF Outside

\* A step that leaves the file, the backups, the transaction and every process as it is.
LEMMA NothingMoves ==
    ASSUME AloneInv, UNCHANGED <<disk, work, todo, pc, backups>> PROVE AloneInv'
<1>1. BackedUp' <=> BackedUp BY DEF BackedUp
<1>2. OperationUnderWay' <=> OperationUnderWay BY DEF OperationUnderWay
<1>3. Rebuilt(disk)' = Rebuilt(disk) BY DEF Rebuilt
<1>4. \A p \in Procs : Phase(p)' BY <1>1, <1>2, <1>3 DEF AloneInv, Phase
<1> QED BY <1>4 DEF AloneInv, Exclusive, FilesInv, SoundFile

LEMMA AloneStep == ASSUME ~ Together, AloneInv, ChainInv, [Next]_vars PROVE AloneInv'
<1>1. CASE UNCHANGED vars BY <1>1, NothingMoves DEF vars
<1>2. ASSUME NEW p \in Procs, Opening(p) PROVE AloneInv'
  BY <1>2, BackupAlone, IndexesAlone, MigrationAlone DEF Opening
<1>3. CASE Serving
  BY <1>3, ExecuteAlone, AppendAlone, CommitAlone, RollbackAlone DEF Serving, Recover, Write
<1>4. ASSUME NEW p \in Procs, Crash(p) PROVE AloneInv' BY <1>4, RollbackAlone
<1>5. CASE Outside BY <1>5, OutsideAlone
<1>6. CASE \E p \in Tools : KeepHead(p) BY <1>6, NothingMoves DEF KeepHead
<1> QED BY <1>1, <1>2, <1>3, <1>4, <1>5, <1>6 DEF Next

\* repository.py, the indexes and transactions of a process that has the database for
\* itself: what an operation needs is there when it begins, whatever was interrupted
\* before.
THEOREM AloneInvariant == ~ Together => (Spec => []AloneInv)
<1> SUFFICES ASSUME ~ Together PROVE Spec => []AloneInv OBVIOUS
<1>1. AloneInv /\ ChainInv /\ [Next]_vars => AloneInv' BY AloneStep
<1> QED BY <1>1, AloneInitially, ChainInvariant, PTL DEF Spec

\* repository.py, _refresh_retry_indexes: no opening meets rows that its unique indexes
\* reject.
THEOREM OpeningsSucceed == ~ Together => (Spec => []StartNeverFails)
<1> SUFFICES ASSUME ~ Together PROVE Spec => []StartNeverFails OBVIOUS
<1>1. AloneInv => StartNeverFails BY DEF AloneInv, Phase, StartNeverFails
<1> QED BY <1>1, AloneInvariant, PTL

\* repository.py, create_run and the claims of a fingerprint ("while preserving active
\* dedupe"): two runs of one statement are never active together.
THEOREM ActiveDedupe == ~ Together => (Spec => []ActiveDedupeIsPreserved)
<1> SUFFICES ASSUME ~ Together PROVE Spec => []ActiveDedupeIsPreserved OBVIOUS
<1>1. AloneInv => ActiveDedupeIsPreserved
  BY DEF AloneInv, FilesInv, SoundFile, ActiveDedupeIsPreserved
<1> QED BY <1>1, AloneInvariant, PTL

-----------------------------------------------------------------------------
(* Operations and migration *)

\* Opening the file changes neither its runs nor its trail, and only the commit of the
\* migration ends its first form.
LEMMA OpeningKeepsRows ==
    ASSUME AloneInv, ChainInv, NEW p \in Procs, Opening(p)
    PROVE  /\ disk'.runs = disk.runs /\ disk'.ledger = disk.ledger
           /\ disk'.postings = disk.postings
           /\ disk.legacy /\ ~ disk'.legacy => BackedUp
<1>1. IsFile(disk) BY DEF ChainInv, GoodFile
<1> DEFINE Same(file) == /\ file.runs = disk.runs /\ file.ledger = disk.ledger
                         /\ file.postings = disk.postings /\ file.legacy = disk.legacy
<1>2. CASE UNCHANGED disk BY <1>2
<1>3. ASSUME NEW from, NEW to, NEW file, Statement(p, from, to, file), Same(file)
      PROVE  Same(disk')
  BY <1>3 DEF Statement
<1>4. ASSUME NEW from, NEW to, NEW index, CreateIndex(p, from, to, index) PROVE Same(disk')
  <2> DEFINE possible == index \in disk.indexes \/ Indexable(index, disk.runs)
             label == IF possible THEN to ELSE "failed"
             file == IF possible THEN [disk EXCEPT !.indexes = @ \cup {index}] ELSE disk
  <2>1. Statement(p, from, label, file) BY <1>4 DEF CreateIndex
  <2>2. Same(file) BY <1>1, IndexesEdited
  <2> HIDE DEF label, file, Same
  <2> QED BY <1>3, <2>1, <2>2
<1>5. ASSUME NEW from, NEW to, NEW index, DropIndex(p, from, to, index) PROVE Same(disk')
  <2> DEFINE file == [disk EXCEPT !.indexes = @ \ {index}]
  <2>1. Statement(p, from, to, file) BY <1>5 DEF DropIndex
  <2>2. Same(file) BY <1>1, IndexesEdited
  <2> HIDE DEF file, Same
  <2> QED BY <1>3, <2>1, <2>2
<1>6. ASSUME NEW from, NEW to, NEW v, Statement(p, from, to, WithVersion(disk, v))
      PROVE  Same(disk')
  <2>1. Same(WithVersion(disk, v)) BY <1>1, VersionsEdited DEF WithVersion
  <2> HIDE DEF Same
  <2> QED BY <1>3, <1>6, <2>1
<1>7. CASE MigrationCommits(p)
  <2>1. pc[p] = "rebuilt" /\ disk' = work BY <1>7 DEF MigrationCommits
  <2>2. Phase(p) BY DEF AloneInv
  <2>3. disk' = Rebuilt(disk) /\ (disk.legacy => BackedUp)
    BY <2>1, <2>2 DEF Phase, Unmigrated
  <2> QED BY <1>1, <2>3, FileRebuilt
<1>8. CASE Open(p) \/ BackUp(p) \/ BackupDone(p) \/ BackupFails(p) \/ Close(p) \/ Migrate(p)
  BY <1>2, <1>8 DEF Open, BackUp, BackupDone, BackupFails, Close, Migrate
<1>9. CASE Script(p) \/ Refresh(p) BY <1>4, <1>5, <1>6, <1>9 DEF Script, Refresh
<1>10. CASE SkipMigration(p) BY <1>3, <1>10 DEF SkipMigration
<1>11. CASE Opened(p)
  <2>1. \E to : Statement(p, "version", to, WithVersion(disk, SchemaVersion))
    BY <1>11 DEF Opened
  <2> QED BY <1>6, <2>1
<1> QED BY <1>7, <1>8, <1>9, <1>10, <1>11 DEF Opening

\* The commit of the server is one operation with its events.
LEMMA CommitIsOperation ==
    ASSUME AloneInv, Commit PROVE Audited!Next /\ disk'.legacy = disk.legacy
<1>1. pc[Server] \in InTransaction /\ todo = <<>> /\ disk' = work BY DEF Commit
<1>2. OperationUnderWay BY <1>1 DEF AloneInv, Phase, Procs
<1>3. PICK effect \in Audited!Operations(disk.runs) \cup Audited!Recovered(disk.runs) :
          /\ Audited!Deduplicated(effect.table)
          /\ work.runs = effect.table
          /\ EventsOf(work.ledger) \o todo = EventsOf(disk.ledger) \o effect.events
  BY <1>2 DEF OperationUnderWay
<1>4. EventsOf(work.ledger) \o todo = EventsOf(work.ledger)
  BY <1>1, <1>2, ConcatEmptySeq DEF OperationUnderWay
<1>5. /\ disk'.runs = effect.table
      /\ EventsOf(disk'.ledger) = EventsOf(disk.ledger) \o effect.events
  BY <1>1, <1>3, <1>4
<1>6. Audited!Perform(effect) BY <1>3, <1>5 DEF Audited!Perform
<1> QED BY <1>1, <1>2, <1>6 DEF Audited!Next, OperationUnderWay

LEMMA OutsideKeepsForm ==
    ASSUME AloneInv, ChainInv, Outside PROVE disk.legacy => disk'.legacy
<1>1. CASE Restore BY <1>1 DEF Restore, Accident, AloneInv, FilesInv
<1>2. ASSUME NEW rows, Accident([disk EXCEPT !.ledger = rows])
      PROVE  disk'.legacy = disk.legacy
  BY <1>2, LedgerEdited DEF Accident, ChainInv, GoodFile
<1>3. CASE LedgerDamaged
  <2>1. PICK i \in DOMAIN disk.ledger :
            \/ Accident([disk EXCEPT !.ledger = RowLost(disk.ledger, i)])
            \/ \E row \in RowsLike(disk.ledger[i]) : Accident([disk EXCEPT !.ledger[i] = row])
    BY <1>3 DEF LedgerDamaged
  <2>2. \A row : [disk EXCEPT !.ledger[i] = row]
                     = [disk EXCEPT !.ledger = [disk.ledger EXCEPT ![i] = row]]
    OBVIOUS
  <2> QED BY <1>2, <2>1, <2>2
<1> QED BY <1>1, <1>3 DEF Outside

\* What a step does to the file.
LEMMA FileStep ==
    ASSUME AloneInv, ChainInv, [Next]_vars
    PROVE  /\ \/ Outside
              \/ Audited!Next
              \/ disk'.runs = disk.runs /\ disk'.ledger = disk.ledger
           /\ disk.legacy /\ ~ disk'.legacy =>
                 /\ disk'.runs = disk.runs /\ disk'.ledger = disk.ledger
                 /\ disk'.postings = disk.postings
                 /\ BackedUp
<1>1. CASE UNCHANGED disk BY <1>1
<1>2. ASSUME NEW p \in Procs, Opening(p)
      PROVE  /\ disk'.runs = disk.runs /\ disk'.ledger = disk.ledger
             /\ disk'.postings = disk.postings
             /\ disk.legacy /\ ~ disk'.legacy => BackedUp
  BY <1>2, OpeningKeepsRows
<1>3. CASE Commit BY <1>3, CommitIsOperation
<1>4. CASE Outside BY <1>4, OutsideKeepsForm
<1>5. CASE Recover \/ Write \/ AppendEvent \/ Fail
  BY <1>1, <1>5 DEF Recover, Write, Execute, AppendEvent, Fail
<1>6. CASE (\E p \in Procs : Crash(p)) \/ (\E p \in Tools : KeepHead(p)) \/ UNCHANGED vars
  BY <1>1, <1>6 DEF Crash, KeepHead, vars
<1> QED BY <1>2, <1>3, <1>4, <1>5, <1>6 DEF Next, Serving

LEMMA FirstRowsAreAudited == Init => Audited!Init
BY InitialFilesAreTheProgramsOwn DEF Init, Audited!Init

\* Implementation of AuditedRuns: every commit of repository.py is one operation with all
\* of its events, through exceptions, crashes, migrations and the rebuilding of indexes.
THEOREM CommitsImplementOperations == ~ Together => (Spec => CommitsAreOperations)
<1> SUFFICES ASSUME ~ Together PROVE Spec => CommitsAreOperations OBVIOUS
<1>1. AloneInv /\ ChainInv /\ [Next]_vars
        => [Outside \/ Audited!Next]_<<disk.runs, EventsOf(disk.ledger)>>
  BY FileStep DEF EventsOf
<1> QED
  BY <1>1, FirstRowsAreAudited, AloneInvariant, ChainInvariant, PTL DEF Spec, CommitsAreOperations

\* repository.py, _migrate_source_hash_index: the migration changes the constraint alone,
\* and commits only when a complete backup of the rows it began with exists.
THEOREM MigrationIsLossless == ~ Together => (Spec => MigrationKeepsEverything)
<1> DEFINE Kept == disk.legacy /\ ~ disk'.legacy =>
                     /\ \A field \in {"runs", "postings", "ledger"} : disk'[field] = disk[field]
                     /\ \E file \in backups :
                           \A field \in {"legacy", "runs", "postings", "ledger"} :
                               file[field] = disk[field]
<1> SUFFICES ASSUME ~ Together PROVE Spec => [][Kept]_vars
  BY DEF MigrationKeepsEverything
<1>1. AloneInv /\ ChainInv /\ [Next]_vars => [Kept]_vars
  BY FileStep DEF BackedUp
<1> HIDE DEF Kept
<1> QED BY <1>1, AloneInvariant, ChainInvariant, PTL DEF Spec
=============================================================================
