---------------------------- MODULE IngestWorker ----------------------------
(***************************************************************************)
(* Reading a statement in a disposable process: extract_document_isolated  *)
(* and _stop_worker in the server, _worker_entry in the worker, the pipe   *)
(* between them and the OCR program the worker starts (ingest_worker.py).  *)
(*                                                                         *)
(* The server waits in four places: poll for the first byte, recv_bytes    *)
(* for the message, and join, with a grace period, before and after each   *)
(* signal.  Worker and OCR run, stall and die on their own in between.     *)
(***************************************************************************)
VARIABLES
    \* the server
    parent,  \* where extract_document_isolated waits
    cause,   \* what ended the first wait
    result,  \* what it returned or raised
    signal,  \* the last signal it sent
    \* the worker, and the OCR program in its process group
    worker, group, ocr,
    \* the pipe, and what the worker writes into it
    pipe, answer

serverVars == <<parent, cause, result, signal>>
workerVars == <<worker, group, ocr>>
pipeVars   == <<pipe, answer>>
vars       == <<serverVars, workerVars, pipeVars>>

\* Type invariant.
TypeOK ==
    /\ parent \in {"polling", "receiving", "joining", "stopping", "terminating", "killing",
                   "done"}
    /\ cause \in {"none", "timeout", "eof", "answer"}
    /\ result \in {"none", "document", "error", "crash"}
    /\ signal \in {"none", "TERM", "KILL"}
    /\ worker \in {"starting", "working", "writing", "leaving", "exited", "reaped"}
    /\ group \in {"servers", "own"}
    /\ ocr \in {"none", "running", "signalled"}
    /\ pipe \in {"empty", "partial", "full"}
    /\ answer \in {"none", "document", "refusal"}

Init ==
    /\ parent = "polling" /\ cause = "none" /\ result = "none" /\ signal = "none"
    /\ worker = "starting" /\ group = "servers" /\ ocr = "none"
    /\ pipe = "empty" /\ answer = "none"

\* The worker closes its end of the pipe when it leaves.
WriteEndClosed == worker \in {"leaving", "exited", "reaped"}
Readable       == pipe # "empty" \/ WriteEndClosed

-----------------------------------------------------------------------------
(* The worker.  A signal has its default effect on it: once sent, the worker *)
(* runs nothing more, however long it takes to die.                          *)

NotSignalled == signal = "none"

\* os.setsid.
LeadGroup ==
    /\ worker = "starting" /\ NotSignalled
    /\ worker' = "working"
    /\ group' = "own"
    /\ UNCHANGED <<serverVars, ocr, pipeVars>>

\* pytesseract runs the OCR program and waits for it.
StartOcr ==
    /\ worker = "working" /\ ocr = "none" /\ NotSignalled
    /\ ocr' = "running"
    /\ UNCHANGED <<serverVars, worker, group, pipeVars>>

OcrEnds ==
    /\ ocr # "none"
    /\ ocr' = "none"
    /\ UNCHANGED <<serverVars, worker, group, pipeVars>>

\* A short message is one write.  A worker that cannot be hardened, or that fails,
\* refuses.
SendAtOnce(a) ==
    /\ worker = "working" /\ ocr = "none" /\ NotSignalled
    /\ answer' = a
    /\ pipe' = "full"
    /\ worker' = "leaving"
    /\ UNCHANGED <<serverVars, group, ocr>>

\* A long one is its length first.
SendHeader ==
    /\ worker = "working" /\ ocr = "none" /\ NotSignalled
    /\ answer' = "document"
    /\ pipe' = "partial"
    /\ worker' = "writing"
    /\ UNCHANGED <<serverVars, group, ocr>>

SendRest ==
    /\ worker = "writing" /\ NotSignalled
    /\ pipe' = "full"
    /\ worker' = "leaving"
    /\ UNCHANGED <<serverVars, group, ocr, answer>>

\* It exits, or dies of a signal, a resource limit or a parser's fault.
WorkerEnds ==
    /\ worker \in {"starting", "working", "writing", "leaving"}
    /\ worker' = "exited"
    /\ UNCHANGED <<serverVars, group, ocr, pipeVars>>

-----------------------------------------------------------------------------
(* The server, waiting for the answer *)

PollReady ==
    /\ parent = "polling" /\ Readable
    /\ parent' = "receiving"
    /\ UNCHANGED <<cause, result, signal, workerVars, pipeVars>>

PollTimesOut ==
    /\ parent = "polling" /\ ~ Readable
    /\ parent' = "stopping" /\ cause' = "timeout"
    /\ UNCHANGED <<result, signal, workerVars, pipeVars>>

Receive ==
    /\ parent = "receiving" /\ pipe = "full"
    /\ parent' = "joining" /\ cause' = "answer"
    /\ UNCHANGED <<result, signal, workerVars, pipeVars>>

\* Fault: the end of the file is noticed before a message only.
ReceiveFailsIfEmpty ==
    /\ parent = "receiving" /\ pipe = "empty" /\ WriteEndClosed
    /\ parent' = "joining" /\ cause' = "eof"
    /\ UNCHANGED <<result, signal, workerVars, pipeVars>>

\* EOFError, or OSError in the middle of a message.
ReceiveFails ==
    /\ parent = "receiving" /\ pipe # "full" /\ WriteEndClosed
    /\ parent' = "joining" /\ cause' = "eof"
    /\ UNCHANGED <<result, signal, workerVars, pipeVars>>

-----------------------------------------------------------------------------
(* The server, getting rid of the worker *)

\* join or is_alive collects the exit status, and the call ends with r.
Reap(r) ==
    /\ worker = "exited"
    /\ worker' = "reaped"
    /\ parent' = "done"
    /\ result' = r
    /\ UNCHANGED <<cause, signal, group, ocr, pipeVars>>

\* _decode_worker_response checks a document once more.
DecodedAs(a) == IF a = "document" THEN {"document", "error"} ELSE {"error"}

Joined ==
    /\ parent = "joining"
    /\ \E r \in DecodedAs(IF cause = "answer" THEN answer ELSE "none") : Reap(r)

\* Fault: the answer is taken though the worker does not exit.
JoinTimesOutWithAnswer ==
    /\ parent = "joining" /\ worker # "exited"
    /\ IF cause = "answer" /\ answer = "document"
       THEN parent' = "done" /\ result' = "document"
       ELSE parent' = "stopping" /\ UNCHANGED result
    /\ UNCHANGED <<cause, signal, workerVars, pipeVars>>

JoinTimesOut ==
    /\ parent = "joining" /\ worker # "exited"
    /\ parent' = "stopping"
    /\ UNCHANGED <<cause, result, signal, workerVars, pipeVars>>

\* Fault: the worker alone is signalled.
SignalWorker(s) == signal' = s /\ UNCHANGED ocr

\* _signal_process_group: the group if the worker leads one, else the worker.
Signal(s) ==
    /\ signal' = s
    /\ ocr' = IF group = "own" /\ ocr = "running" THEN "signalled" ELSE ocr

\* Fault: is_alive has collected the exit status, and the signal is sent all the same.
StopDeadSignals ==
    /\ parent = "stopping" /\ worker = "exited"
    /\ worker' = "reaped" /\ parent' = "terminating"
    /\ Signal("TERM")
    /\ UNCHANGED <<cause, result, group, pipeVars>>

\* _stop_worker of a worker that has ended meanwhile.
StopDead == parent = "stopping" /\ Reap("error")

StopAlive ==
    /\ parent = "stopping" /\ worker # "exited"
    /\ Signal("TERM")
    /\ parent' = "terminating"
    /\ UNCHANGED <<cause, result, worker, group, pipeVars>>

Stopped == parent \in {"terminating", "killing"} /\ Reap("error")

\* Fault: a worker that ignores SIGTERM is left alone.
TerminateGivesUp ==
    /\ parent = "terminating" /\ worker # "exited"
    /\ parent' = "done" /\ result' = "error"
    /\ UNCHANGED <<cause, signal, workerVars, pipeVars>>

TerminateTimesOut ==
    /\ parent = "terminating" /\ worker # "exited"
    /\ Signal("KILL")
    /\ parent' = "killing"
    /\ UNCHANGED <<cause, result, worker, group, pipeVars>>

\* Not even SIGKILL ended it in time: process.close raises ValueError.
KillTimesOut ==
    /\ parent = "killing" /\ worker # "exited"
    /\ parent' = "done" /\ result' = "crash"
    /\ UNCHANGED <<cause, signal, workerVars, pipeVars>>

-----------------------------------------------------------------------------
Server ==
    \/ PollReady \/ PollTimesOut \/ Receive \/ ReceiveFails
    \/ Joined \/ JoinTimesOut
    \/ StopDead \/ StopAlive \/ Stopped \/ TerminateTimesOut \/ KillTimesOut

Worker ==
    \/ LeadGroup \/ StartOcr \/ OcrEnds
    \/ \E a \in {"document", "refusal"} : SendAtOnce(a)
    \/ SendHeader \/ SendRest \/ WorkerEnds

Next == Server \/ Worker

Spec == Init /\ [][Next]_vars

-----------------------------------------------------------------------------
(* Properties *)

\* A document is used only if the worker wrote all of it, exited by itself within
\* the grace period and has been collected: an answer that comes with or after the
\* timeout, or from a worker that had to be stopped, is discarded.
DocumentIsFromACleanExit ==
    result = "document" =>
        answer = "document" /\ pipe = "full" /\ worker = "reaped" /\ signal = "none"

\* The call leaves neither a running worker nor a zombie, whichever way it ends,
\* unless SIGKILL itself had no effect.
WorkerIsGone ==
    parent = "done" => worker = "reaped" \/ (result = "crash" /\ signal = "KILL")

\* An OCR program is left running, unsignalled, only by a worker that died by itself
\* and without an answer: _stop_worker reaches it through the group.
OcrIsLeftByTheDead ==
    parent = "done" /\ ocr = "running" => signal = "none" /\ cause # "answer" /\ result = "error"

\* No signal is sent to a process that has been collected, whose number may by then
\* be somebody else's.
SignalsReachTheWorker == [][signal' # signal => worker' # "reaped"]_vars

\* The server's own waits end by their timeouts.  recv_bytes has none: it relies on
\* a worker that is writing to go on while the server reads.
Fairness ==
    /\ WF_vars(Server)
    /\ WF_vars(parent = "receiving" /\ SendRest)

FairSpec == Spec /\ Fairness

\* extract_document_isolated returns, though the worker hangs in its parser.
CallEnds == <>(parent = "done")
=============================================================================
