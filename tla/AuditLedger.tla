---------------------------- MODULE AuditLedger ----------------------------
(***************************************************************************)
(* The hash chain of waysplit/audit.py as operators on the rows of the     *)
(* table audit_entries in the order of their sequence numbers.             *)
(*                                                                         *)
(* A row keeps its event and the form in which its payload is written:     *)
(* other bytes may decode to the same payload.  SHA-256 over the canonical *)
(* JSON of sequence, event and previous hash is the tuple of the three, a  *)
(* function without collisions that gives nothing else away.               *)
(***************************************************************************)
EXTENDS Naturals, Sequences

GenesisHash == <<>>

EntryHash(seq, event, previous) == <<seq, event, previous>>

HeadHash(rows) == IF rows = <<>> THEN GenesisHash ELSE rows[Len(rows)].hash

NextSequence(rows) == IF rows = <<>> THEN 1 ELSE rows[Len(rows)].seq + 1

NewRow(seq, event, previous) ==
    [seq |-> seq, event |-> event, form |-> "canonical", previous |-> previous,
     hash |-> EntryHash(seq, event, previous)]

\* Fault: the new row commits to the row before the last.
AppendBehind(rows, event) ==
    Append(rows, NewRow(NextSequence(rows), event,
                        IF rows = <<>> THEN GenesisHash ELSE rows[Len(rows)].previous))

\* AuditLedger.append, in a transaction that holds the write lock.
AppendEntry(rows, event) ==
    Append(rows, NewRow(NextSequence(rows), event, HeadHash(rows)))

PreviousOf(rows, i) == IF i = 1 THEN GenesisHash ELSE rows[i - 1].hash

\* Fault: every row is checked by itself.
RowsVerify(rows) ==
    \A i \in DOMAIN rows :
        /\ rows[i].seq = i
        /\ rows[i].form = "canonical"
        /\ rows[i].hash = EntryHash(rows[i].seq, rows[i].event, rows[i].previous)

\* AuditLedger.verify: the answer "valid".
Verifies(rows) ==
    \A i \in DOMAIN rows :
        /\ rows[i].seq = i
        /\ rows[i].previous = PreviousOf(rows, i)
        /\ rows[i].form = "canonical"
        /\ rows[i].hash = EntryHash(rows[i].seq, rows[i].event, rows[i].previous)

EventsOf(rows) == [i \in DOMAIN rows |-> rows[i].event]

\* Rows of the table, whatever they hold.
IsLedger(rows) ==
    /\ rows \in Seq({rows[i] : i \in DOMAIN rows})
    /\ \A i \in DOMAIN rows :
        LET row == rows[i] IN
        row = [seq |-> row.seq, event |-> row.event, form |-> row.form,
               previous |-> row.previous, hash |-> row.hash]
=============================================================================
