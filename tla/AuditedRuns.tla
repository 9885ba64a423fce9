---------------------------- MODULE AuditedRuns ----------------------------
(***************************************************************************)
(* What the database of WaySplit promises about the table runs and the     *)
(* audit trail, without a word about connections, statements, indexes,     *)
(* crashes or migrations: an operation changes the table and adds its      *)
(* events to the trail in one step, no two active runs share a source, and *)
(* no two runs that count share a fingerprint.                             *)
(*                                                                         *)
(* The operations are those of waysplit/repository.py that create a run    *)
(* and carry it to the end of its extraction (the rest of its life is in   *)
(* the module Repository); saving the household stands for the writes      *)
(* that change no run, with an append of the trail alone.                  *)
(***************************************************************************)
EXTENDS Naturals, Sequences, FiniteSets

CONSTANTS Runs, Sources, Prints, None

VARIABLES
    table,  \* the table runs: run |-> row
    trail   \* the sequence of audit events

auditedVars == <<table, trail>>

Status == {"none", "queued", "extracting", "needs_review", "blocked", "failed"}

Table == [Runs -> [status: Status, source: Sources \cup {None}, print: Prints \cup {None}]]

Event(kind, r) == [kind |-> kind, run |-> r]

Kinds == {"run.created", "run.extraction_started", "run.extraction_completed",
          "run.failed", "run.recovered_as_failed", "household.updated"}

Events == [kind: Kinds, run: Runs \cup {None}]

-----------------------------------------------------------------------------
(* The partial unique indexes *)

Active(row) == row.status \notin {"none", "failed", "blocked"}

Counts(row) == row.print # None /\ row.status # "blocked"

OneActiveRunPerSource(t) ==
    \A r, q \in Runs :
        Active(t[r]) /\ Active(t[q]) /\ t[r].source = t[q].source => r = q

OneRunPerPrint(t) ==
    \A r, q \in Runs :
        Counts(t[r]) /\ Counts(t[q]) /\ t[r].print = t[q].print => r = q

Deduplicated(t) == OneActiveRunPerSource(t) /\ OneRunPerPrint(t)

-----------------------------------------------------------------------------
(* What an operation does to a table, with the events it appends: sets of   *)
(* records [table, events], one for each way the operation may go.          *)

Effect(t, events) == [table |-> t, events |-> events]

Created(t) ==
    {Effect([t EXCEPT ![r] = [status |-> "queued", source |-> s, print |-> None]],
            <<Event("run.created", r)>>) :
        r \in {q \in Runs : t[q].status = "none"}, s \in Sources}

Started(t) ==
    {Effect([t EXCEPT ![r].status = "extracting"],
            <<Event("run.extraction_started", r)>>) :
        r \in {q \in Runs : t[q].status \in {"queued", "failed"}}}

WithResult(t, r, s, f) == [t EXCEPT ![r].status = s, ![r].print = f]

Completed(t) ==
    {Effect(WithResult(t, r, s, f),
            <<Event("run.extraction_completed", r)>>) :
        r \in {q \in Runs : t[q].status = "extracting"},
        s \in {"needs_review", "blocked"},
        f \in Prints}

Failed(t) ==
    {Effect([t EXCEPT ![r].status = "failed"], <<Event("run.failed", r)>>) :
        r \in {q \in Runs : t[q].status # "none"}}

\* It stands for the other writes that change no run, too: the consent of
\* POST /api/splitwise/context, in a transaction that append opens and commits.
HouseholdSaved(t) == {Effect(t, <<Event("household.updated", None)>>)}

Operations(t) ==
    Created(t) \cup Started(t) \cup Completed(t) \cup Failed(t) \cup HouseholdSaved(t)

\* Start-up: every interrupted run fails, each with an event of its own.
Interrupted(t) == {r \in Runs : t[r].status \in {"queued", "extracting"}}

Orders(S) ==
    {f \in [1..Cardinality(S) -> S] : \A i, j \in DOMAIN f : f[i] = f[j] => i = j}

Recovered(t) ==
    {Effect([r \in Runs |->
                IF r \in Interrupted(t) THEN [t[r] EXCEPT !.status = "failed"] ELSE t[r]],
            [i \in DOMAIN order |-> Event("run.recovered_as_failed", order[i])]) :
        order \in Orders(Interrupted(t))}

-----------------------------------------------------------------------------
Init == table \in Table /\ Deduplicated(table) /\ trail \in Seq(Events)

Perform(effect) ==
    /\ Deduplicated(effect.table)
    /\ table' = effect.table
    /\ trail' = trail \o effect.events

Next == \E effect \in Operations(table) \cup Recovered(table) : Perform(effect)

Spec == Init /\ [][Next]_auditedVars
=============================================================================
