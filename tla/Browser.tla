------------------------------ MODULE Browser ------------------------------
(***************************************************************************)
(* One page of the browser client (static/app.js) over a server that posts *)
(* and rolls back: which run the page shows, the timer of its polling, and *)
(* the requests it has sent.  Answers arrive in any order, late or never.  *)
(* The functions of app.js that post and roll back are called from nowhere *)
(* in this version: what changes the runs are other clients, as in Posting.*)
(***************************************************************************)
EXTENDS Posting

CONSTANTS
    Opens,  \* bound: requests of loadRun under way at once
    Other   \* another run, which waits for its review all along

ASSUME OtherIsNoRun == Other \notin Runs \cup {None}

VARIABLES
    page,     \* state.activeRun: [run, status]
    timer,    \* the run the poll timer is set for, or None
    polling,  \* the request of a poll: [run, answer].  Bound: one at a time
    opening   \* the requests of loadRun: [run, answer]

pageVars   == <<page, timer, polling, opening>>
clientVars == <<vars, pageVars>>

InFlight == {"queued", "extracting", "submitting", "rollback_submitting"}

Shown(r, s) == [run |-> r, status |-> s]

Request(r, answer) == [run |-> r, answer |-> answer]

NoRequest == Request(None, "none")

ClientInit ==
    /\ Init
    /\ page = Shown(None, "none")
    /\ timer = None
    /\ polling = NoRequest
    /\ opening = [o \in Opens |-> NoRequest]

\* GET /api/runs/{run_id} reads the row.
Answered(request) ==
    [request EXCEPT !.answer = IF request.run = Other THEN "needs_review"
                               ELSE status[request.run]]

HasAnswer(request) == request.answer \notin {"none", "pending"}

\* schedulePoll: the timer is set anew, for the run the page shows.
SchedulePoll(shown) == timer' = IF shown.status \in InFlight THEN shown.run ELSE None

\* An answer is shown, and a run in flight is polled for.
Show(shown) ==
    /\ page' = shown
    /\ IF shown.status \in InFlight THEN SchedulePoll(shown) ELSE UNCHANGED timer

-----------------------------------------------------------------------------
(* Opening a run: loadRun *)

OpenRun(o, r) ==
    /\ opening[o] = NoRequest
    /\ timer' = None
    /\ opening' = [opening EXCEPT ![o] = Request(r, "pending")]
    /\ UNCHANGED <<page, polling>>

OpenAnswered(o) ==
    /\ server = "up"
    /\ opening[o].answer = "pending"
    /\ opening' = [opening EXCEPT ![o] = Answered(opening[o])]
    /\ UNCHANGED <<page, timer, polling>>

\* The answer that arrives last is shown.
RunOpened(o) ==
    /\ HasAnswer(opening[o])
    /\ Show(Shown(opening[o].run, opening[o].answer))
    /\ opening' = [opening EXCEPT ![o] = NoRequest]
    /\ UNCHANGED polling

\* A GET changes nothing: an answer that is lost is as good as none.
OpenFails(o) ==
    /\ opening[o].answer = "pending"
    /\ opening' = [opening EXCEPT ![o] = NoRequest]
    /\ UNCHANGED <<page, timer, polling>>

-----------------------------------------------------------------------------
(* Polling: the callback of schedulePoll *)

TimerFires ==
    /\ timer # None
    /\ polling = NoRequest
    /\ timer' = None
    /\ polling' = Request(timer, "pending")
    /\ UNCHANGED <<page, opening>>

PollAnswered ==
    /\ server = "up"
    /\ polling.answer = "pending"
    /\ polling' = Answered(polling)
    /\ UNCHANGED <<page, timer, opening>>

\* Fault: the answer of a poll is drawn but not kept.
PolledUnkept ==
    /\ HasAnswer(polling)
    /\ IF page.run = polling.run THEN SchedulePoll(page) ELSE UNCHANGED timer
    /\ polling' = NoRequest
    /\ UNCHANGED <<page, opening>>

\* An answer about a run that is not on the page any more is dropped.
Polled ==
    /\ HasAnswer(polling)
    /\ IF page.run = polling.run
       THEN Show(Shown(polling.run, polling.answer))
       ELSE UNCHANGED <<page, timer>>
    /\ polling' = NoRequest
    /\ UNCHANGED opening

\* Fault: polling ends at the first failure.
PollGivesUp ==
    /\ polling.answer = "pending"
    /\ polling' = NoRequest
    /\ UNCHANGED <<page, timer, opening>>

PollFails ==
    /\ polling.answer = "pending"
    /\ polling' = NoRequest
    /\ SchedulePoll(page)
    /\ UNCHANGED <<page, opening>>

-----------------------------------------------------------------------------
PageStep ==
    \/ TimerFires \/ PollAnswered \/ Polled \/ PollFails
    \/ \E o \in Opens :
          \/ \E r \in Runs \cup {Other} : OpenRun(o, r)
          \/ OpenAnswered(o) \/ RunOpened(o) \/ OpenFails(o)

ClientNext ==
    \/ Next /\ UNCHANGED pageVars
    \/ PageStep /\ UNCHANGED vars

\* Timers fire, callbacks run, every request is answered or fails, and of the
\* polls the server could answer again and again one is answered.
PageFairness ==
    /\ WF_clientVars((TimerFires \/ Polled) /\ UNCHANGED vars)
    /\ SF_clientVars(PollAnswered /\ UNCHANGED vars)
    /\ \A o \in Opens :
          WF_clientVars((OpenAnswered(o) \/ RunOpened(o) \/ OpenFails(o)) /\ UNCHANGED vars)

ClientSpec == ClientInit /\ [][ClientNext]_clientVars /\ Fairness /\ PageFairness

-----------------------------------------------------------------------------
(* Properties *)

\* The page shows a run in flight, and nothing is left that would change that.
Forgotten ==
    /\ page.status \in InFlight
    /\ timer = None
    /\ polling.run # page.run
    /\ \A o \in Opens : opening[o] = NoRequest

\* The page never stops to follow the run it shows, whatever order answers come
\* in and whatever is opened meanwhile, but for one case: opening another run
\* cancels the timer at once, and nothing sets it again if that request fails.
PollingStopsOnlyByFailedOpen ==
    [][Forgotten' => Forgotten \/ \E o \in Opens : OpenFails(o)]_pageVars

\* Once the server stays up, a run shown in flight is at last shown with its
\* outcome or gives way to another; an older answer that is rendered over a newer
\* one is put right.
OutcomeIsShown ==
    <>[](server = "up") =>
        \A r \in Runs :
            page.run = r /\ page.status \in InFlight
                ~> page.run # r \/ page.status \notin InFlight \/ Forgotten
=============================================================================
