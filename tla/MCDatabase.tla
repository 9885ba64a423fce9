----------------------------- MODULE MCDatabase -----------------------------
(***************************************************************************)
(* Small instances of Database.  The file is new, or of the first release, *)
(* where both runs were waiting, or run r1 was reviewed and posted.        *)
(***************************************************************************)
EXTENDS Database, TLC

CONSTANTS r1, r2, s1, s2

Empty == [r \in Runs |-> [status |-> "none", source |-> None, print |-> None]]

Row(status, source, print) == [status |-> status, source |-> source, print |-> print]

\* A chain as an earlier release has left it.
Trail(events) ==
    LET rows[i \in 0..Len(events)] ==
            IF i = 0 THEN <<>>
            ELSE Append(rows[i - 1], NewRow(i, events[i], HeadHash(rows[i - 1])))
    IN  rows[Len(events)]

New == File(FALSE, {}, {}, Empty, {}, <<>>)

LegacyQueued ==
    File(TRUE, {1}, {},
         [Empty EXCEPT ![r1] = Row("queued", s1, None), ![r2] = Row("queued", s2, None)],
         {}, Trail(<<Audited!Event("run.created", r1), Audited!Event("run.created", r2)>>))

LegacyReviewed ==
    File(TRUE, {1}, {"fingerprint"},
         [Empty EXCEPT ![r1] = Row("needs_review", s1, CHOOSE f \in Prints : TRUE)],
         {r1}, Trail(<<Audited!Event("run.created", r1),
                       Audited!Event("run.extraction_completed", r1)>>))

Newer == File(FALSE, {1, 2, 3}, {"fingerprint", "source"}, Empty, {}, <<>>)

MCInitialFiles == {New, LegacyQueued, LegacyReviewed, Newer}
MCNew == {New}
=============================================================================
