---------------------------- MODULE Attestations ----------------------------
(***************************************************************************)
(* Readiness probes of models, the in-memory store of the attestations     *)
(* they yield (ProbeAttestationStore of web.py), the uploads that present  *)
(* one, and the job that probes the model again before it sends it the     *)
(* document.  Models are served by a program the operator administers: a   *)
(* model may be replaced by another version between any two steps.         *)
(*                                                                         *)
(* A model here is an endpoint of the allowlist, a provider and a name.    *)
(* A token names the probe that yields it.  Sessions are browser cookies.  *)
(***************************************************************************)
EXTENDS Naturals, Sequences, FiniteSets

CONSTANTS
    Tokens, Sessions, Runs,
    Models,         \* an endpoint of the allowlist with a provider and a name
    Opaque,         \* the models of a provider that reports no digest
    Versions,       \* what may be served under a name: a version is its digest
    NoDigest,       \* the provider's digest is unknown
    NoOne,
    Ttl,            \* ttl_seconds
    MaxEntries,     \* maximum_entries
    MaxTime         \* bound of the clock

ASSUME OpaqueAssumption == Opaque \subseteq Models
ASSUME LimitsAssumption ==
    /\ Ttl \in Nat \ {0} /\ MaxEntries \in Nat \ {0} /\ MaxTime \in Nat
ASSUME DigestAssumption == NoDigest \notin Versions /\ NoOne \notin Versions

VARIABLES
    now,            \* time.monotonic()
    served,         \* the version served under each model
    records,        \* _records, each with its place in the order of insertion
    probe,          \* the probes, and what each observed
    run,            \* the uploads and their jobs
    issued,         \* the tokens inserted since the server started, in order: more
                    \* than places in this order is history
    putSince        \* history: the versions put under the model of a job since its
                    \* second probe looked at it, until the document was sent

vars == <<now, served, records, probe, run, issued, putSince>>

-----------------------------------------------------------------------------
(* What is attested *)

\* readiness_attestation_digest: a commitment to the identity and the digest, if any.
AttestationDigest(m, d) == <<m, d>>

Digests == Versions \cup {NoDigest}
Attestation == Models \X Digests

NoProbe == [at |-> "none", session |-> NoOne, model |-> NoOne, digest |-> NoDigest, time |-> 0]

NoRun == [at |-> "none", token |-> NoOne, session |-> NoOne, model |-> NoOne,
          digest |-> NoOne, time |-> 0, seen |-> NoDigest, sentTo |-> NoOne]

\* What a provider may answer to a probe that asks for a digest: it may be unreachable.
Reported(m) == IF m \in Opaque THEN {NoDigest} ELSE {served[m], NoDigest}

-----------------------------------------------------------------------------
(* ProbeAttestationStore *)

\* _remove_expired
Unexpired == {e \in records : e.expires > now}

\* The first entry, in the order of insertion, with the least expires_at.
Oldest(rs) ==
    CHOOSE e \in rs :
        \A f \in rs :
            \/ e.expires < f.expires
            \/ e.expires = f.expires /\ e.order <= f.order

\* Fault: the entry that expires last makes room.
EvictNewest(rs) ==
    IF Cardinality(rs) < MaxEntries THEN rs
    ELSE rs \ {CHOOSE e \in rs : \A f \in rs : f.expires <= e.expires}

\* Room for one more.  The store never holds more than MaxEntries (StoreHoldsTheNewest),
\* so one turn of the loop makes it.
Evict(rs) == IF Cardinality(rs) < MaxEntries THEN rs ELSE rs \ {Oldest(rs)}

Issue(t, s, m, d) ==
    records' = Evict(Unexpired) \cup
                   {[token |-> t, model |-> m, session |-> s,
                     digest |-> AttestationDigest(m, d), expires |-> now + Ttl,
                     order |-> Len(issued) + 1]}

\* Fault: the session is not compared.
AcceptsAnySession(e, t, s, m) == e.token = t /\ e.model = m

\* require: the entry of the token is of this endpoint, provider, model and session.
Accepts(e, t, s, m) == e.token = t /\ e.model = m /\ e.session = s

-----------------------------------------------------------------------------
(* POST /api/models/probe *)

\* probe_model asks the provider for the digest before it sends the synthetic statement.
StartProbe(t, s, m) ==
    /\ probe[t].at = "none"
    /\ \E d \in Reported(m) :
        probe' = [probe EXCEPT ![t] = [at |-> "testing", session |-> s, model |-> m,
                                       digest |-> d, time |-> 0]]
    /\ UNCHANGED <<now, served, records, run, issued, putSince>>

\* The synthetic statement was extracted and reconciled: the result is attested.
ProbePasses(t) ==
    /\ probe[t].at = "testing"
    /\ Issue(t, probe[t].session, probe[t].model, probe[t].digest)
    /\ probe' = [probe EXCEPT ![t].at = "attested", ![t].time = now]
    /\ issued' = Append(issued, t)
    /\ UNCHANGED <<now, served, run, putSince>>

\* No answer, an answer that is not valid, or one that does not reconcile.
ProbeFails(t) ==
    /\ probe[t].at = "testing"
    /\ probe' = [probe EXCEPT ![t] = NoProbe]
    /\ UNCHANGED <<now, served, records, run, issued, putSince>>

-----------------------------------------------------------------------------
(* POST /api/runs: any session may present any token that was handed out *)

UploadAccepted(r, t, s, m) ==
    /\ run[r].at = "none" /\ probe[t].at = "attested"
    /\ \E e \in Unexpired :
        /\ Accepts(e, t, s, m)
        /\ run' = [run EXCEPT ![r] = [NoRun EXCEPT !.at = "storing", !.token = t,
                                      !.session = s, !.model = m, !.time = now,
                                      !.digest = e.digest]]
    /\ records' = Unexpired
    /\ UNCHANGED <<now, served, probe, issued, putSince>>

\* Some session presents it for some model, and no entry is of both.
UploadRefused(t) ==
    /\ probe[t].at = "attested"
    /\ ~ \A s \in Sessions, m \in Models : \E e \in Unexpired : Accepts(e, t, s, m)
    /\ records' = Unexpired
    /\ UNCHANGED <<now, served, probe, run, issued, putSince>>

\* _store_upload has awaited the chunks and the run is in the database.
RunCreated(r) ==
    /\ run[r].at = "storing"
    /\ run' = [run EXCEPT ![r].at = "queued"]
    /\ UNCHANGED <<now, served, records, probe, issued, putSince>>

\* The file is refused, or create_run raises.
StoreFails(r) ==
    /\ run[r].at = "storing"
    /\ run' = [run EXCEPT ![r] = NoRun]
    /\ UNCHANGED <<now, served, records, probe, issued, putSince>>

-----------------------------------------------------------------------------
(* _process_run, under _processing_lock *)

Locked == \E r \in Runs : run[r].at \in {"probing", "reading", "asked"}

\* The provider's digest again, before the synthetic statement.
StartJob(r) ==
    /\ run[r].at = "queued" /\ ~ Locked
    /\ \E d \in Reported(run[r].model) :
        run' = [run EXCEPT ![r].at = "probing", ![r].seen = d]
    /\ putSince' = [putSince EXCEPT ![r] = {}]
    /\ UNCHANGED <<now, served, records, probe, issued>>

\* Fault: the model's digest is not compared.
SameModelUnchecked(r) == TRUE

SameModel(r) == AttestationDigest(run[r].model, run[r].seen) = run[r].digest

\* The probe passed and the model is the attested one: the ingestion worker is awaited.
ReadDocument(r) ==
    /\ run[r].at = "probing" /\ SameModel(r)
    /\ run' = [run EXCEPT ![r].at = "reading"]
    /\ UNCHANGED <<now, served, records, probe, issued, putSince>>

\* extract_bill sends the document to whatever is served by now.
SendDocument(r) ==
    /\ run[r].at = "reading"
    /\ run' = [run EXCEPT ![r].at = "asked", ![r].sentTo = served[run[r].model]]
    /\ UNCHANGED <<now, served, records, probe, issued, putSince>>

\* The bill is stored, or fail_run: the probe failed, the model changed, an exception.
JobEnds(r) ==
    /\ run[r].at \in {"probing", "reading", "asked"}
    /\ run' = [run EXCEPT ![r].at = "ended", ![r].seen = NoDigest]
    /\ UNCHANGED <<now, served, records, probe, issued, putSince>>

-----------------------------------------------------------------------------
(* The environment *)

Tick ==
    /\ now < MaxTime
    /\ now' = now + 1
    /\ UNCHANGED <<served, records, probe, run, issued, putSince>>

\* The operator of the model service pulls another version under the same name.
Replace(m, v) ==
    /\ served[m] # v
    /\ served' = [served EXCEPT ![m] = v]
    /\ putSince' = [r \in Runs |-> IF run[r].model = m /\ run[r].at \in {"probing", "reading"}
                                 THEN putSince[r] \cup {v} ELSE putSince[r]]
    /\ UNCHANGED <<now, records, probe, run, issued>>

\* The process dies and starts again: requests and attestations are gone, and the
\* recovery fails every run that had a job.
Restart ==
    /\ records' = {} /\ issued' = << >>
    /\ probe' = [t \in Tokens |-> IF probe[t].at = "testing"
                                  THEN NoProbe ELSE probe[t]]
    /\ run' = [r \in Runs |-> IF run[r].at = "storing" THEN NoRun
                              ELSE IF run[r].at = "none" THEN run[r]
                              ELSE [run[r] EXCEPT !.at = "ended", !.seen = NoDigest]]
    /\ UNCHANGED <<now, served, putSince>>

-----------------------------------------------------------------------------

Init ==
    /\ now = 0
    /\ served \in [Models -> Versions]
    /\ records = {}
    /\ probe = [t \in Tokens |-> NoProbe]
    /\ run = [r \in Runs |-> NoRun]
    /\ issued = << >>
    /\ putSince = [r \in Runs |-> {}]

ProbeStep(t) ==
    \/ \E s \in Sessions, m \in Models : StartProbe(t, s, m)
    \/ ProbePasses(t) \/ ProbeFails(t)

UploadStep(r) ==
    \/ \E t \in Tokens, s \in Sessions, m \in Models : UploadAccepted(r, t, s, m)
    \/ RunCreated(r) \/ StoreFails(r)

JobStep(r) == StartJob(r) \/ ReadDocument(r) \/ SendDocument(r) \/ JobEnds(r)

Next ==
    \/ \E t \in Tokens : ProbeStep(t)
    \/ \E r \in Runs : UploadStep(r) \/ JobStep(r)
    \/ \E t \in Tokens : UploadRefused(t)
    \/ \E m \in Models, v \in Versions : Replace(m, v)
    \/ Tick \/ Restart

Spec == Init /\ [][Next]_vars

-----------------------------------------------------------------------------
(* Properties *)

\* Types of the variables.
TypeOK ==
    /\ now \in 0..MaxTime
    /\ served \in [Models -> Versions]
    /\ records \subseteq [token: Tokens, model: Models, session: Sessions,
                          digest: Attestation, expires: 0..MaxTime + Ttl,
                          order: 1..Len(issued)]
    /\ probe \in [Tokens -> [at: {"none", "testing", "attested"},
                             session: Sessions \cup {NoOne}, model: Models \cup {NoOne},
                             digest: Digests, time: 0..MaxTime]]
    /\ run \in [Runs -> [at: {"none", "storing", "queued", "probing", "reading", "asked",
                              "ended"},
                         token: Tokens \cup {NoOne}, session: Sessions \cup {NoOne},
                         model: Models \cup {NoOne}, digest: Attestation \cup {NoOne},
                         time: 0..MaxTime, seen: Digests, sentTo: Versions \cup {NoOne}]]
    /\ issued \in Seq(Tokens)
    /\ putSince \in [Runs -> SUBSET Versions]

\* web.py: a run exists only for a session whose own probe of that very model passed
\* less than Ttl before the upload, and it keeps what that probe attested, however many
\* probes, evictions, expiries and restarts lie between.
UploadsAreAttested ==
    \A r \in Runs : run[r].at # "none" =>
        LET p == probe[run[r].token]
        IN  /\ p.at = "attested"
            /\ p.session = run[r].session /\ p.model = run[r].model
            /\ run[r].digest = AttestationDigest(p.model, p.digest)
            /\ p.time <= run[r].time /\ run[r].time < p.time + Ttl

\* The attestations that an upload may use are exactly the unexpired among the newest
\* MaxEntries that this process issued: one is lost early only to MaxEntries newer ones,
\* never to an expired one, and none outlives its process.
StoreHoldsTheNewest ==
    /\ Cardinality(records) <= MaxEntries
    /\ LET newest == {i \in DOMAIN issued : i + MaxEntries > Len(issued)}
       IN  {e.token : e \in Unexpired}
           = {issued[i] : i \in {j \in newest : probe[issued[j]].time + Ttl > now}}

\* service.py: where the session's probe saw a digest, the document goes to the version of
\* that digest, whatever was served in between, or to one that was put under the name
\* after the second probe's look at it: the interval that the second probe narrows and
\* cannot close.  A probe that saw no digest promises nothing.
DocumentGoesToTheProbedVersion ==
    \A r \in Runs :
        LET probed == probe[run[r].token].digest
        IN  run[r].sentTo # NoOne /\ probed # NoDigest
                => run[r].sentTo \in {probed} \cup putSince[r]
=============================================================================
