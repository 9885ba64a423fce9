------------------------ MODULE ExtractionInvariants ------------------------
(***************************************************************************)
(* The inductive invariant behind the safety of Extraction: what an        *)
(* extraction job may rely on while it has work to do, and the upload      *)
(* directory while a row names one of its files.  It speaks of postings    *)
(* too, so that it also holds of extraction beside posting (WaySplit).     *)
(***************************************************************************)
EXTENDS Extraction

\* Statuses of a run that has not been read yet.
Unread == {"none", "queued", "extracting"}

\* A row is inserted by the upload request, and its status follows its job.
JobsMatch ==
    \A r \in Runs :
        /\ status[r] = "none" <=> job[r] \in {"none", "storing"}
        /\ job[r] = "scheduled" => status[r] = "queued"
        /\ job[r] \in {"probing", "reading", "asking"} => status[r] = "extracting"

\* A run that has not been read has no bill, so it has not been posted.
UnreadIsUnposted ==
    \A r \in Runs : status[r] \in Unread => bill[r] = None /\ pStatus[r] = "none"

\* A row that names a file has one, which nobody is about to unlink; a job that was
\* cancelled may have unlinked it, until start-up recovers its run.
FilesInv ==
    /\ \A r \in Runs :
          /\ sourcePath[r] =>
                /\ status[r] # "none" /\ job[r] # "erasing"
                /\ \/ r \in files
                   \/ server = "down" /\ status[r] = "extracting" /\ ~ RetainSource
          /\ job[r] = "storing" => r \in files
    /\ \A r \in toErase : status[r] # "none" /\ ~ sourcePath[r]
    /\ toErase # {} => server = "recovering"

\* Jobs live in a running server only.
DownIsJobless == server # "up" => \A r \in Runs : job[r] \in {"none", "done"}

JobInv == TypeOK /\ JobsMatch /\ UnreadIsUnposted /\ FilesInv /\ DownIsJobless
=============================================================================
