------------------------- MODULE AttestationsProofs -------------------------
(***************************************************************************)
(* The safety properties of Attestations, for every number of models,      *)
(* sessions, uploads and tokens and every limit of the store.              *)
(***************************************************************************)
EXTENDS Attestations, FunctionTheorems, FiniteSetTheorems, TLAPS

-----------------------------------------------------------------------------
(* Least elements, and counting by the order of insertion *)

\* A nonempty set of naturals has a least element.
LEMMA Least ==
    ASSUME NEW S, S \subseteq Nat, S # {}
    PROVE  \E x \in S : \A y \in S : x <= y
<1> DEFINE R == OpToRel(<, Nat)
<1>1. IsWellFoundedOn(R, Nat) BY NatLessThanWellFounded
<1>2. \A x, y \in Nat : <<y, x>> \in R <=> y < x
  BY SMT DEF OpToRel
<1> HIDE DEF R
<1>3. PICK x \in S : \A y \in S : ~ (<<y, x>> \in R) BY <1>1, WFMin, Zenon
<1>4. ASSUME NEW y \in S PROVE x <= y
  <2>1. x \in Nat /\ y \in Nat OBVIOUS
  <2>2. ~ (y < x) BY <1>2, <1>3, <2>1
  <2> QED BY <2>1, <2>2
<1> QED BY <1>4

\* Entries of different places between a and b are at most as many as the places.
LEMMA AtMost ==
    ASSUME NEW S, NEW a \in Nat, NEW b \in Nat, a <= b + 1,
           \A e \in S : e.order \in a..b,
           \A e, f \in S : e.order = f.order => e = f
    PROVE  IsFiniteSet(S) /\ Cardinality(S) <= b - a + 1
<1> DEFINE f == [e \in S |-> e.order]
<1>1. f \in Injection(S, a..b) BY Fun_IsInj
<1>2. IsFiniteSet(a..b) /\ Cardinality(a..b) = b - a + 1
  BY FS_Interval
<1> QED BY <1>1, <1>2, FS_Injection

\* A set with an entry of each place between a and b has at least as many.
LEMMA AtLeast ==
    ASSUME NEW S, IsFiniteSet(S), NEW a \in Nat, NEW b \in Nat, a <= b + 1,
           \A i \in a..b : \E e \in S : e.order = i
    PROVE  b - a + 1 <= Cardinality(S)
<1>1. IsFiniteSet(a..b) /\ Cardinality(a..b) = b - a + 1
  BY FS_Interval
<1> DEFINE f == [i \in a..b |-> CHOOSE e \in S : e.order = i]
<1>2. \A i \in a..b : f[i] \in S /\ f[i].order = i OBVIOUS
<1>3. f \in [a..b -> S] BY <1>2
<1>4. f \in Injection(a..b, S) BY <1>2, <1>3, Fun_IsInj
<1> QED BY <1>1, <1>4, FS_Injection

-----------------------------------------------------------------------------
(* The inductive invariant *)

\* A probe that has begun has a session and a model, and an upload that exists has a
\* token besides.
NamesInv ==
    /\ \A t \in Tokens : probe[t].at # "none" =>
          probe[t].session \in Sessions /\ probe[t].model \in Models
    /\ \A r \in Runs : run[r].at # "none" =>
          run[r].token \in Tokens /\ run[r].session \in Sessions /\ run[r].model \in Models

\* When the probe of the token issued at a place passed.
PassedAt(i) == probe[issued[i]].time

\* What was issued was attested, at times that never decrease in the order of issue.
IssuedInv ==
    /\ \A i \in DOMAIN issued : probe[issued[i]].at = "attested" /\ PassedAt(i) <= now
    /\ \A i, j \in DOMAIN issued : i <= j => PassedAt(i) <= PassedAt(j)

\* An entry is what the probe issued at its place attested; no two have one place.
EntriesInv ==
    /\ \A e \in records :
        /\ e.token = issued[e.order]
        /\ e.session = probe[e.token].session
        /\ e.model = probe[e.token].model
        /\ e.digest = AttestationDigest(probe[e.token].model, probe[e.token].digest)
        /\ e.expires = probe[e.token].time + Ttl
    /\ \A e, f \in records : e.order = f.order => e = f

\* None of the newest MaxEntries is missing before it expires.
NothingLost ==
    \A i \in DOMAIN issued :
        i + MaxEntries > Len(issued) /\ PassedAt(i) + Ttl > now =>
            \E e \in records : e.order = i

Bounded == IsFiniteSet(records) /\ Cardinality(records) <= MaxEntries

StoreInv == IssuedInv /\ EntriesInv /\ NothingLost /\ Bounded

\* What is served to the job of an upload is what its probe has seen or was put there
\* since, and the document is not sent before the model is found to be the attested one.
JobInv ==
    /\ \A r \in Runs :
        /\ run[r].sentTo # NoOne => run[r].at \in {"asked", "ended"}
        /\ run[r].at = "reading" => SameModel(r)
        /\ run[r].at \in {"probing", "reading"} /\ run[r].seen # NoDigest =>
                served[run[r].model] \in {run[r].seen} \cup putSince[r]

AttestationInv ==
    /\ TypeOK /\ NamesInv /\ StoreInv
    /\ UploadsAreAttested /\ JobInv /\ DocumentGoesToTheProbedVersion

-----------------------------------------------------------------------------
(* Types *)

ProbeType == [at: {"none", "testing", "attested"},
              session: Sessions \cup {NoOne}, model: Models \cup {NoOne},
              digest: Digests, time: 0..MaxTime]

RunType == [at: {"none", "storing", "queued", "probing", "reading", "asked", "ended"},
            token: Tokens \cup {NoOne}, session: Sessions \cup {NoOne},
            model: Models \cup {NoOne}, digest: Attestation \cup {NoOne},
            time: 0..MaxTime, seen: Digests, sentTo: Versions \cup {NoOne}]

LEMMA NothingTyped == NoProbe \in ProbeType /\ NoRun \in RunType
BY LimitsAssumption DEF NoProbe, NoRun, ProbeType, RunType, Digests

LEMMA ReportedTyped ==
    ASSUME TypeOK, NEW m \in Models
    PROVE  Reported(m) \subseteq Digests
BY DEF TypeOK, Reported, Digests

\* A store keeps to a part of itself when room is made.
LEMMA EvictKeepsPart == ASSUME NEW rs PROVE Evict(rs) \subseteq rs
BY DEF Evict

LEMMA TypeInitially == Init => TypeOK
BY NothingTyped, LimitsAssumption DEF Init, TypeOK, ProbeType, RunType

LEMMA ProbePassesTyped ==
    ASSUME TypeOK, NamesInv, NEW t \in Tokens, ProbePasses(t)
    PROVE  TypeOK'
<1>1. probe[t] \in ProbeType BY DEF TypeOK, ProbeType
<1>2. now \in 0..MaxTime BY DEF TypeOK
<1>3. issued \in Seq(Tokens) BY DEF TypeOK
<1>4. issued' \in Seq(Tokens) /\ Len(issued') = Len(issued) + 1
  BY <1>3 DEF ProbePasses
<1>5. probe' \in [Tokens -> ProbeType]
  <2>1. [probe[t] EXCEPT !.at = "attested", !.time = now] \in ProbeType
    BY <1>1, <1>2 DEF ProbeType
  <2>2. probe' = [probe EXCEPT ![t] = [probe[t] EXCEPT !.at = "attested", !.time = now]]
    BY DEF ProbePasses
  <2> QED BY <2>1, <2>2 DEF TypeOK, ProbeType
<1>6. ASSUME NEW e \in records'
      PROVE  e \in [token: Tokens, model: Models, session: Sessions, digest: Attestation,
                    expires: 0..MaxTime + Ttl, order: 1..Len(issued')]
  <2>1. CASE e \in records
    <3>1. Len(issued) \in Nat BY <1>3
    <3>2. 1..Len(issued) \subseteq 1..Len(issued') BY <1>4, <3>1
    <3> QED BY <2>1, <3>2 DEF TypeOK
  <2>2. CASE e \notin records
    <3>1. e = [token |-> t, model |-> probe[t].model, session |-> probe[t].session,
               digest |-> AttestationDigest(probe[t].model, probe[t].digest),
               expires |-> now + Ttl, order |-> Len(issued) + 1]
      BY <2>2, EvictKeepsPart DEF ProbePasses, Issue, Unexpired
    <3>5. probe[t].session \in Sessions /\ probe[t].model \in Models
      BY DEF ProbePasses, NamesInv
    <3>2. AttestationDigest(probe[t].model, probe[t].digest) \in Attestation
      BY <1>1, <3>5 DEF ProbeType, AttestationDigest, Attestation
    <3>3. now + Ttl \in 0..MaxTime + Ttl BY <1>2, LimitsAssumption
    <3>4. Len(issued) + 1 \in 1..Len(issued') BY <1>3, <1>4
    <3> QED BY <3>1, <3>2, <3>3, <3>4, <3>5
  <2> QED BY <2>1, <2>2
<1> QED BY <1>4, <1>5, <1>6 DEF TypeOK, ProbeType, ProbePasses

\* What remains in the store when the sequence of tokens is the same stays well typed.
LEMMA RecordsKeepType ==
    ASSUME TypeOK, records' \subseteq records, issued' = issued
    PROVE  /\ records' \subseteq [token: Tokens, model: Models, session: Sessions,
                                  digest: Attestation, expires: 0..MaxTime + Ttl,
                                  order: 1..Len(issued')]
           /\ issued' \in Seq(Tokens)
BY DEF TypeOK

\* A step in which one upload alone changes.
LEMMA RunStepTyped ==
    ASSUME TypeOK, NEW r \in Runs, NEW x \in RunType, run' = [run EXCEPT ![r] = x],
           UNCHANGED <<now, served, probe, issued>>, records' \subseteq records,
           putSince' \in [Runs -> SUBSET Versions]
    PROVE  TypeOK'
BY RecordsKeepType DEF TypeOK, RunType

LEMMA UploadAcceptedTyped ==
    ASSUME TypeOK, NEW r \in Runs, NEW t \in Tokens, NEW s \in Sessions, NEW m \in Models,
           UploadAccepted(r, t, s, m)
    PROVE  TypeOK'
<1>1. PICK e \in Unexpired :
          run' = [run EXCEPT ![r] = [NoRun EXCEPT !.at = "storing", !.token = t, !.session = s,
                                                  !.model = m, !.time = now,
                                                  !.digest = e.digest]]
  BY DEF UploadAccepted
<1>2. [NoRun EXCEPT !.at = "storing", !.token = t, !.session = s, !.model = m, !.time = now,
                    !.digest = e.digest] \in RunType
  BY NothingTyped DEF RunType, TypeOK, Unexpired
<1>3. records' \subseteq records BY DEF UploadAccepted, Unexpired
<1> QED BY <1>1, <1>2, <1>3, RunStepTyped DEF UploadAccepted, TypeOK

LEMMA RunTyped ==
    ASSUME TypeOK, NEW r \in Runs
    PROVE  /\ run[r] \in RunType
           /\ \A a \in {"queued", "probing", "reading", "asked", "ended"} :
                 /\ [run[r] EXCEPT !.at = a] \in RunType
                 /\ \A d \in Digests : [run[r] EXCEPT !.at = a, !.seen = d] \in RunType
                 /\ \A v \in Versions : [run[r] EXCEPT !.at = a, !.sentTo = v] \in RunType
<1>1. run[r] \in RunType BY DEF TypeOK, RunType
<1> DEFINE Labels == {"queued", "probing", "reading", "asked", "ended"}
<1>2. ASSUME NEW a \in Labels PROVE [run[r] EXCEPT !.at = a] \in RunType
  BY <1>1 DEF RunType
<1>3. ASSUME NEW a \in Labels, NEW d \in Digests
      PROVE  [run[r] EXCEPT !.at = a, !.seen = d] \in RunType
  BY <1>1 DEF RunType
<1>4. ASSUME NEW a \in Labels, NEW v \in Versions
      PROVE  [run[r] EXCEPT !.at = a, !.sentTo = v] \in RunType
  BY <1>1 DEF RunType
<1> QED BY <1>1, <1>2, <1>3, <1>4

LEMMA RunCreatedTyped ==
    ASSUME TypeOK, NEW r \in Runs, RunCreated(r) PROVE TypeOK'
<1>1. run' = [run EXCEPT ![r] = [run[r] EXCEPT !.at = "queued"]] BY DEF RunCreated
<1> QED BY <1>1, RunTyped, RunStepTyped DEF RunCreated, TypeOK

LEMMA JobStepTyped ==
    ASSUME TypeOK, NamesInv, NEW r \in Runs, JobStep(r) PROVE TypeOK'
<1>1. CASE StartJob(r)
  <2>1. run[r].model \in Models BY <1>1 DEF StartJob, NamesInv
  <2>2. PICK d \in Digests : run' = [run EXCEPT ![r] = [run[r] EXCEPT !.at = "probing", !.seen = d]]
    BY <1>1, <2>1, ReportedTyped DEF StartJob
  <2>3. putSince' \in [Runs -> SUBSET Versions] BY <1>1 DEF StartJob, TypeOK
  <2>4. [run[r] EXCEPT !.at = "probing", !.seen = d] \in RunType BY RunTyped
  <2> QED BY <1>1, <2>2, <2>3, <2>4, RunStepTyped DEF StartJob
<1>2. CASE ReadDocument(r)
  <2>1. run' = [run EXCEPT ![r] = [run[r] EXCEPT !.at = "reading"]] BY <1>2 DEF ReadDocument
  <2> QED BY <1>2, <2>1, RunTyped, RunStepTyped DEF ReadDocument, TypeOK
<1>3. CASE SendDocument(r)
  <2>1. run[r].model \in Models BY <1>3 DEF SendDocument, NamesInv
  <2>2. served[run[r].model] \in Versions BY <2>1 DEF TypeOK
  <2>3. run' = [run EXCEPT ![r] = [run[r] EXCEPT !.at = "asked", !.sentTo = served[run[r].model]]]
    BY <1>3 DEF SendDocument
  <2>4. [run[r] EXCEPT !.at = "asked", !.sentTo = served[run[r].model]] \in RunType
    BY <2>2, RunTyped
  <2> QED BY <1>3, <2>3, <2>4, RunStepTyped DEF SendDocument, TypeOK
<1>4. CASE JobEnds(r)
  <2>1. run' = [run EXCEPT ![r] = [run[r] EXCEPT !.at = "ended", !.seen = NoDigest]]
    BY <1>4 DEF JobEnds
  <2>2. [run[r] EXCEPT !.at = "ended", !.seen = NoDigest] \in RunType
    BY RunTyped DEF Digests
  <2> QED BY <1>4, <2>1, <2>2, RunStepTyped DEF JobEnds, TypeOK
<1> QED BY <1>1, <1>2, <1>3, <1>4 DEF JobStep

LEMMA StartProbeTyped ==
    ASSUME TypeOK, NEW t \in Tokens, NEW s \in Sessions, NEW m \in Models, StartProbe(t, s, m)
    PROVE  TypeOK'
<1>1. PICK d \in Digests :
          probe' = [probe EXCEPT ![t] = [at |-> "testing", session |-> s, model |-> m,
                                         digest |-> d, time |-> 0]]
  BY ReportedTyped DEF StartProbe
<1>2. [at |-> "testing", session |-> s, model |-> m, digest |-> d, time |-> 0] \in ProbeType
  BY LimitsAssumption DEF ProbeType
<1> QED BY <1>1, <1>2 DEF StartProbe, TypeOK, ProbeType

LEMMA RestartTyped == ASSUME TypeOK, Restart PROVE TypeOK'
<1>1. probe' \in [Tokens -> ProbeType]
  BY NothingTyped DEF Restart, TypeOK, ProbeType
<1>2. run' \in [Runs -> RunType]
  <2>1. ASSUME NEW r \in Runs PROVE run'[r] \in RunType
    <3>1. [run[r] EXCEPT !.at = "ended", !.seen = NoDigest] \in RunType
      BY RunTyped DEF Digests
    <3> QED BY <3>1, NothingTyped, RunTyped DEF Restart
  <2> QED BY <2>1 DEF Restart
<1>3. << >> \in Seq(Tokens) OBVIOUS
<1>4. records' = {} /\ issued' = << >> BY DEF Restart
<1>5. UNCHANGED <<now, served, putSince>> BY DEF Restart
<1> QED BY <1>1, <1>2, <1>3, <1>4, <1>5 DEF TypeOK, ProbeType, RunType

LEMMA TypeStep == ASSUME TypeOK, NamesInv, [Next]_vars PROVE TypeOK'
<1>1. CASE \E t \in Tokens, s \in Sessions, m \in Models : StartProbe(t, s, m)
  BY <1>1, StartProbeTyped
<1>2. CASE \E t \in Tokens : ProbePasses(t) BY <1>2, ProbePassesTyped
<1>3. CASE \E t \in Tokens : ProbeFails(t)
  BY <1>3, NothingTyped DEF ProbeFails, TypeOK, ProbeType
<1>4. CASE \E r \in Runs, t \in Tokens, s \in Sessions, m \in Models :
              UploadAccepted(r, t, s, m)
  BY <1>4, UploadAcceptedTyped
<1>5. CASE \E r \in Runs : RunCreated(r) BY <1>5, RunCreatedTyped
<1>6. CASE \E r \in Runs : StoreFails(r)
  BY <1>6, NothingTyped, RunStepTyped DEF StoreFails, TypeOK
<1>7. CASE \E r \in Runs : JobStep(r) BY <1>7, JobStepTyped
<1>8. CASE \E t \in Tokens : UploadRefused(t)
  BY <1>8 DEF UploadRefused, Unexpired, TypeOK
<1>9. CASE \E m \in Models, v \in Versions : Replace(m, v)
  BY <1>9 DEF Replace, TypeOK
<1>10. CASE Tick BY <1>10, LimitsAssumption DEF Tick, TypeOK
<1>11. CASE Restart BY <1>11, RestartTyped
<1>12. CASE UNCHANGED vars BY <1>12 DEF vars, TypeOK
<1> QED BY <1>1, <1>2, <1>3, <1>4, <1>5, <1>6, <1>7, <1>8, <1>9, <1>10, <1>11, <1>12
        DEF Next, ProbeStep, UploadStep

-----------------------------------------------------------------------------
(* Probes and names *)

\* What a probe attested is never changed, not even by a restart.
LEMMA AttestedStays ==
    ASSUME TypeOK, [Next]_vars, NEW t \in Tokens, probe[t].at = "attested"
    PROVE  probe'[t] = probe[t]
<1>1. CASE \E u \in Tokens : ProbeStep(u)
  BY <1>1 DEF ProbeStep, StartProbe, ProbePasses, ProbeFails, TypeOK
<1>2. CASE Restart BY <1>2 DEF Restart
<1>3. CASE UNCHANGED probe BY <1>3
<1> QED BY <1>1, <1>2, <1>3
        DEF Next, UploadStep, UploadAccepted, RunCreated, StoreFails, JobStep, StartJob,
            ReadDocument, SendDocument, JobEnds, UploadRefused, Replace, Tick, vars

LEMMA NamesInitially == Init => NamesInv
BY DEF Init, NamesInv, NoProbe, NoRun

\* An upload that is there keeps its token, session, model and what was attested.
KeepsUpload(r) ==
    run'[r].at # "none" =>
        /\ run[r].at # "none"
        /\ run'[r].token = run[r].token /\ run'[r].session = run[r].session
        /\ run'[r].model = run[r].model /\ run'[r].digest = run[r].digest
        /\ run'[r].time = run[r].time

\* Only an accepted upload adds or changes one.
LEMMA UploadsKept ==
    ASSUME TypeOK, [Next]_vars, NEW r \in Runs,
           ~ \E t \in Tokens, s \in Sessions, m \in Models : UploadAccepted(r, t, s, m)
    PROVE  KeepsUpload(r)
<1> USE DEF KeepsUpload
<1>1. ASSUME NEW q \in Runs, RunCreated(q) PROVE KeepsUpload(r)
  BY <1>1 DEF RunCreated, TypeOK
<1>2. ASSUME NEW q \in Runs, StoreFails(q) PROVE KeepsUpload(r)
  BY <1>2 DEF StoreFails, NoRun, TypeOK
<1>3. ASSUME NEW q \in Runs, StartJob(q) PROVE KeepsUpload(r)
  <2>1. PICK d : run' = [run EXCEPT ![q].at = "probing", ![q].seen = d]
    BY <1>3 DEF StartJob
  <2> QED BY <1>3, <2>1 DEF StartJob, TypeOK
<1>4. ASSUME NEW q \in Runs, ReadDocument(q) PROVE KeepsUpload(r)
  BY <1>4 DEF ReadDocument, TypeOK
<1>5. ASSUME NEW q \in Runs, SendDocument(q) PROVE KeepsUpload(r)
  BY <1>5 DEF SendDocument, TypeOK
<1>6. ASSUME NEW q \in Runs, JobEnds(q) PROVE KeepsUpload(r)
  BY <1>6 DEF JobEnds, TypeOK
<1>7. ASSUME NEW q \in Runs, q # r, NEW t \in Tokens, NEW s \in Sessions, NEW m \in Models,
             UploadAccepted(q, t, s, m)
      PROVE  KeepsUpload(r)
  BY <1>7 DEF UploadAccepted, TypeOK
<1>8. CASE Restart BY <1>8 DEF Restart, NoRun, TypeOK
<1>9. CASE UNCHANGED run BY <1>9
<1> QED BY <1>1, <1>2, <1>3, <1>4, <1>5, <1>6, <1>7, <1>8, <1>9
        DEF Next, ProbeStep, StartProbe, ProbePasses, ProbeFails, UploadStep, JobStep,
            UploadRefused, Replace, Tick, vars

LEMMA NamesStep == ASSUME TypeOK, NamesInv, [Next]_vars PROVE NamesInv'
<1>1. ASSUME NEW t \in Tokens, probe'[t].at # "none"
      PROVE  probe'[t].session \in Sessions /\ probe'[t].model \in Models
  <2>1. ASSUME NEW u \in Tokens, NEW s \in Sessions, NEW m \in Models, StartProbe(u, s, m)
        PROVE  probe'[t].session \in Sessions /\ probe'[t].model \in Models
    <3>1. CASE u = t BY <2>1, <3>1 DEF StartProbe, TypeOK
    <3>2. CASE u # t BY <1>1, <2>1, <3>2 DEF StartProbe, TypeOK, NamesInv
    <3> QED BY <3>1, <3>2
  <2>2. CASE \E u \in Tokens : ProbePasses(u)
    BY <1>1, <2>2 DEF ProbePasses, TypeOK, NamesInv
  <2>3. CASE \E u \in Tokens : ProbeFails(u)
    BY <1>1, <2>3 DEF ProbeFails, TypeOK, NamesInv, NoProbe
  <2>4. CASE Restart BY <1>1, <2>4 DEF Restart, NamesInv, NoProbe
  <2>5. CASE UNCHANGED probe BY <1>1, <2>5 DEF NamesInv
  <2> QED BY <2>1, <2>2, <2>3, <2>4, <2>5
          DEF Next, ProbeStep, UploadStep, UploadAccepted, RunCreated, StoreFails, JobStep,
              StartJob, ReadDocument, SendDocument, JobEnds, UploadRefused, Replace, Tick,
              vars
<1>2. ASSUME NEW r \in Runs, run'[r].at # "none"
      PROVE  run'[r].token \in Tokens /\ run'[r].session \in Sessions
             /\ run'[r].model \in Models
  <2>1. ASSUME NEW t \in Tokens, NEW s \in Sessions, NEW m \in Models,
               UploadAccepted(r, t, s, m)
        PROVE  run'[r].token \in Tokens /\ run'[r].session \in Sessions
               /\ run'[r].model \in Models
    BY <2>1 DEF UploadAccepted, NoRun, TypeOK
  <2>2. CASE ~ \E t \in Tokens, s \in Sessions, m \in Models : UploadAccepted(r, t, s, m)
    BY <1>2, <2>2, UploadsKept DEF KeepsUpload, NamesInv
  <2> QED BY <2>1, <2>2
<1> QED BY <1>1, <1>2 DEF NamesInv

-----------------------------------------------------------------------------
(* The store *)

LEMMA StoreInitially == Init => StoreInv
<1>1. IsFiniteSet({}) /\ Cardinality({}) = 0 BY FS_EmptySet
<1> QED BY <1>1, LimitsAssumption
        DEF Init, StoreInv, IssuedInv, EntriesInv, NothingLost, Bounded

\* A step that issues nothing and drops expired entries at most keeps the store.
LEMMA StoreKept ==
    ASSUME TypeOK, StoreInv, issued' = issued, now' \in Nat, now <= now',
           records' \subseteq records, Unexpired \subseteq records',
           \A t \in Tokens : probe[t].at = "attested" => probe'[t] = probe[t]
    PROVE  StoreInv'
<1>1. \A i \in DOMAIN issued : issued[i] \in Tokens BY DEF TypeOK
<1>2. \A i \in DOMAIN issued : probe'[issued[i]] = probe[issued[i]]
  BY <1>1 DEF StoreInv, IssuedInv
<1>3. \A i \in DOMAIN issued : PassedAt(i)' = PassedAt(i) BY <1>2 DEF PassedAt
<1>4. \A i \in DOMAIN issued : PassedAt(i) \in Nat /\ now \in Nat
  BY <1>1 DEF PassedAt, TypeOK
<1>5. IssuedInv' BY <1>2, <1>3, <1>4 DEF StoreInv, IssuedInv
<1>6. \A e \in records : e.order \in DOMAIN issued
  BY DEF TypeOK
<1>7. EntriesInv' BY <1>2, <1>6 DEF StoreInv, EntriesInv
<1>8. NothingLost'
  <2> SUFFICES ASSUME NEW i \in DOMAIN issued, i + MaxEntries > Len(issued),
                      PassedAt(i) + Ttl > now'
               PROVE  \E e \in records' : e.order = i
    BY <1>3 DEF NothingLost
  <2>1. PassedAt(i) + Ttl > now BY <1>4, LimitsAssumption
  <2>2. PICK e \in records : e.order = i BY <2>1 DEF StoreInv, NothingLost
  <2>3. e.expires = PassedAt(i) + Ttl BY <2>2 DEF StoreInv, EntriesInv, PassedAt
  <2> QED BY <2>1, <2>2, <2>3 DEF Unexpired
<1>9. Bounded'
  <2>1. IsFiniteSet(records') /\ Cardinality(records') <= Cardinality(records)
    BY FS_Subset DEF StoreInv, Bounded
  <2>2. Cardinality(records) \in Nat /\ Cardinality(records') \in Nat
    BY <2>1, FS_CardinalityType DEF StoreInv, Bounded
  <2> QED BY <2>1, <2>2, LimitsAssumption DEF StoreInv, Bounded
<1> QED BY <1>5, <1>7, <1>8, <1>9 DEF StoreInv

\* Entries inserted later expire no earlier.
LEMMA LaterExpiresLater ==
    ASSUME TypeOK, StoreInv
    PROVE  \A e, f \in records :
              /\ e.order \in 1..Len(issued) /\ e.expires \in Nat
              /\ e.order <= f.order => e.expires <= f.expires
<1> SUFFICES ASSUME NEW e \in records, NEW f \in records
             PROVE  /\ e.order \in 1..Len(issued) /\ e.expires \in Nat
                    /\ e.order <= f.order => e.expires <= f.expires
  OBVIOUS
<1>1. /\ e.order \in 1..Len(issued) /\ e.expires \in 0..MaxTime + Ttl
      /\ f.order \in 1..Len(issued) /\ f.expires \in 0..MaxTime + Ttl
      /\ e.token \in Tokens /\ f.token \in Tokens
  BY DEF TypeOK
<1>2. DOMAIN issued = 1..Len(issued) BY DEF TypeOK
<1>3. e.expires = PassedAt(e.order) + Ttl /\ f.expires = PassedAt(f.order) + Ttl
  BY DEF StoreInv, EntriesInv, PassedAt
<1>4. e.order <= f.order => PassedAt(e.order) <= PassedAt(f.order)
  BY <1>1, <1>2 DEF StoreInv, IssuedInv
<1>5. PassedAt(e.order) \in Nat /\ PassedAt(f.order) \in Nat
  <2>1. issued[e.order] \in Tokens /\ issued[f.order] \in Tokens
    BY <1>1 DEF StoreInv, EntriesInv
  <2> QED BY <2>1 DEF PassedAt, TypeOK
<1> QED BY <1>1, <1>3, <1>4, <1>5, LimitsAssumption

\* The entry that makes room is one of those there are, and the first inserted of them.
LEMMA OldestIsFirst ==
    ASSUME TypeOK, StoreInv, NEW rs \in SUBSET records, rs # {}
    PROVE  /\ Oldest(rs) \in rs
           /\ \A e \in rs : Oldest(rs).order <= e.order
<1> DEFINE IsOldest(e) ==
             \A f \in rs :
                 \/ e.expires < f.expires
                 \/ e.expires = f.expires /\ e.order <= f.order
<1>1. \A e \in rs : e.order \in Nat /\ e.expires \in Nat BY LaterExpiresLater
<1>2. \E e \in rs : \A f \in rs : e.order <= f.order
  <2>1. {e.order : e \in rs} \subseteq Nat /\ {e.order : e \in rs} # {} BY <1>1
  <2>2. \E x \in {e.order : e \in rs} : \A y \in {e.order : e \in rs} : x <= y
    BY <2>1, Least
  <2> QED BY <2>2
<1>3. PICK first \in rs : \A f \in rs : first.order <= f.order BY <1>2
<1>4. IsOldest(first) BY <1>1, <1>3, LaterExpiresLater
<1>5. Oldest(rs) \in rs /\ IsOldest(Oldest(rs))
  <2>1. Oldest(rs) = CHOOSE e \in rs : IsOldest(e) BY DEF Oldest
  <2> HIDE DEF IsOldest
  <2> QED BY <1>4, <2>1
<1>6. ASSUME NEW e \in rs PROVE Oldest(rs).order <= e.order
  BY <1>1, <1>5, LaterExpiresLater
<1> QED BY <1>5, <1>6

\* Room is made for one, and only what MaxEntries - 1 newer ones leave no place for goes.
LEMMA RoomIsMade ==
    ASSUME TypeOK, StoreInv
    PROVE  /\ IsFiniteSet(Evict(Unexpired)) /\ Cardinality(Evict(Unexpired)) < MaxEntries
           /\ \A e \in Unexpired \ Evict(Unexpired) : e.order + MaxEntries <= Len(issued) + 1
<1>1. Unexpired \in SUBSET records BY DEF Unexpired
<1>2. /\ IsFiniteSet(Unexpired)
      /\ Cardinality(Unexpired) \in Nat /\ Cardinality(Unexpired) <= MaxEntries
  <2>1. IsFiniteSet(Unexpired) /\ Cardinality(Unexpired) <= Cardinality(records)
    BY <1>1, FS_Subset DEF StoreInv, Bounded
  <2>2. Cardinality(Unexpired) \in Nat /\ Cardinality(records) \in Nat
    BY <2>1, FS_CardinalityType DEF StoreInv, Bounded
  <2> QED BY <2>1, <2>2, LimitsAssumption DEF StoreInv, Bounded
<1>3. CASE Cardinality(Unexpired) < MaxEntries
  BY <1>2, <1>3 DEF Evict
<1>4. CASE ~ (Cardinality(Unexpired) < MaxEntries)
  <2> DEFINE o == Oldest(Unexpired)
  <2>1. Evict(Unexpired) = Unexpired \ {o} BY <1>4 DEF Evict
  <2>2. Cardinality(Unexpired) = MaxEntries BY <1>2, <1>4, LimitsAssumption
  <2>3. Unexpired # {} BY <2>2, FS_EmptySet, LimitsAssumption
  <2>4. o \in Unexpired /\ \A e \in Unexpired : o.order <= e.order
    BY <1>1, <2>3, OldestIsFirst
  <2>5. /\ IsFiniteSet(Unexpired \ {o})
        /\ Cardinality(Unexpired \ {o}) = Cardinality(Unexpired) - 1
    BY <1>2, <2>4, FS_RemoveElement
  <2>6. o.order + MaxEntries <= Len(issued) + 1
    <3>1. Len(issued) \in Nat BY DEF TypeOK
    <3>2. \A e \in Unexpired : e.order \in 1..Len(issued)
      BY <1>1, LaterExpiresLater
    <3>3. o.order \in Nat /\ o.order <= Len(issued) + 1 BY <2>4, <3>1, <3>2
    <3>4. \A e \in Unexpired : e.order \in o.order..Len(issued)
      BY <2>4, <3>1, <3>2, <3>3
    <3>5. \A e, f \in Unexpired : e.order = f.order => e = f
      BY <1>1 DEF StoreInv, EntriesInv
    <3>6. Cardinality(Unexpired) <= Len(issued) - o.order + 1
      <4> HIDE DEF o
      <4> QED BY <3>1, <3>3, <3>4, <3>5, AtMost
    <3> QED BY <2>2, <3>1, <3>3, <3>6, LimitsAssumption
  <2> QED BY <1>2, <2>1, <2>2, <2>5, <2>6, LimitsAssumption
<1> QED BY <1>3, <1>4

\* A probe that passes adds the newest entry and loses none of the MaxEntries - 1 before.
LEMMA IssueKeepsStore ==
    ASSUME TypeOK, StoreInv, NEW t \in Tokens, ProbePasses(t)
    PROVE  StoreInv'
<1> PICK n \in Nat : n = Len(issued)
  BY DEF TypeOK
<1> DEFINE new == [token |-> t, model |-> probe[t].model, session |-> probe[t].session,
                   digest |-> AttestationDigest(probe[t].model, probe[t].digest),
                   expires |-> now + Ttl, order |-> Len(issued) + 1]
<1>1. records' = Evict(Unexpired) \cup {new} BY DEF ProbePasses, Issue
<1>2. /\ n \in Nat /\ DOMAIN issued = 1..n /\ DOMAIN issued' = 1..(n + 1)
      /\ Len(issued') = n + 1
      /\ \A i \in 1..n : issued'[i] = issued[i] /\ issued[i] \in Tokens
      /\ issued'[n + 1] = t
  BY DEF ProbePasses, TypeOK
<1>3. /\ probe'[t].at = "attested" /\ probe'[t].time = now
      /\ probe'[t].session = probe[t].session /\ probe'[t].model = probe[t].model
      /\ probe'[t].digest = probe[t].digest
      /\ now' = now /\ now \in Nat
  BY DEF ProbePasses, TypeOK
<1>4. \A i \in 1..n : probe'[issued[i]] = probe[issued[i]] /\ probe[issued[i]].at = "attested"
                     /\ PassedAt(i) \in Nat /\ PassedAt(i) <= now
  <2> SUFFICES ASSUME NEW i \in 1..n
               PROVE  probe'[issued[i]] = probe[issued[i]] /\ probe[issued[i]].at = "attested"
                      /\ PassedAt(i) \in Nat /\ PassedAt(i) <= now
    OBVIOUS
  <2>1. probe[issued[i]].at = "attested" /\ PassedAt(i) <= now
    BY <1>2 DEF StoreInv, IssuedInv
  <2>2. issued[i] # t BY <2>1 DEF ProbePasses
  <2>3. PassedAt(i) \in Nat BY <1>2 DEF PassedAt, TypeOK
  <2> QED BY <1>2, <2>1, <2>2, <2>3 DEF ProbePasses, TypeOK
<1>5. PassedAt(n + 1)' = now /\ \A i \in 1..n : PassedAt(i)' = PassedAt(i)
  BY <1>2, <1>3, <1>4 DEF PassedAt
<1>6. IssuedInv'
  <2>1. \A i \in 1..(n + 1) : probe'[issued'[i]].at = "attested" /\ PassedAt(i)' <= now
    BY <1>2, <1>3, <1>4, <1>5
  <2>2. \A i, j \in 1..(n + 1) : i <= j => PassedAt(i)' <= PassedAt(j)'
    <3> SUFFICES ASSUME NEW i \in 1..(n + 1), NEW j \in 1..(n + 1), i <= j
                 PROVE  PassedAt(i)' <= PassedAt(j)'
      OBVIOUS
    <3>1. CASE j = n + 1 BY <1>3, <1>5, <2>1, <3>1
    <3>2. CASE j # n + 1
      <4>1. i \in 1..n /\ j \in 1..n BY <1>2, <3>2
      <4> QED BY <1>2, <1>5, <4>1 DEF StoreInv, IssuedInv
    <3> QED BY <3>1, <3>2
  <2> QED BY <1>2, <1>3, <2>1, <2>2 DEF IssuedInv
<1>7. \A e \in Evict(Unexpired) : e \in records /\ e.order \in 1..n
  BY <1>2, EvictKeepsPart DEF Unexpired, TypeOK
<1>8. EntriesInv'
  <2>1. ASSUME NEW e \in records'
        PROVE  /\ e.token = issued'[e.order]
               /\ e.session = probe'[e.token].session
               /\ e.model = probe'[e.token].model
               /\ e.digest = AttestationDigest(probe'[e.token].model, probe'[e.token].digest)
               /\ e.expires = probe'[e.token].time + Ttl
    <3>1. CASE e \in Evict(Unexpired)
      <4>1. e \in records /\ e.order \in 1..n BY <1>7, <3>1
      <4>2. e.token = issued[e.order] BY <4>1 DEF StoreInv, EntriesInv
      <4> QED BY <1>2, <1>4, <4>1, <4>2 DEF StoreInv, EntriesInv
    <3>2. CASE e = new BY <1>2, <1>3, <3>2
    <3> QED BY <1>1, <3>1, <3>2
  <2>2. ASSUME NEW e \in records', NEW f \in records', e.order = f.order PROVE e = f
    <3>1. CASE e \in Evict(Unexpired) /\ f \in Evict(Unexpired)
      BY <1>7, <2>2, <3>1 DEF StoreInv, EntriesInv
    <3>2. CASE e \in Evict(Unexpired) /\ f = new BY <1>2, <1>7, <2>2, <3>2
    <3>3. CASE e = new /\ f \in Evict(Unexpired) BY <1>2, <1>7, <2>2, <3>3
    <3> HIDE DEF new
    <3> QED BY <1>1, <3>1, <3>2, <3>3
  <2> QED BY <2>1, <2>2 DEF EntriesInv
<1>9. NothingLost'
  <2> SUFFICES ASSUME NEW i \in 1..(n + 1), i + MaxEntries > n + 1, PassedAt(i)' + Ttl > now
               PROVE  \E e \in records' : e.order = i
    BY <1>2, <1>3 DEF NothingLost
  <2>1. CASE i = n + 1
    <3>1. new \in records' /\ new.order = i BY <1>1, <2>1
    <3> QED BY <3>1
  <2>2. CASE i # n + 1
    <3>1. i \in DOMAIN issued /\ i + MaxEntries > Len(issued) /\ PassedAt(i) + Ttl > now
      BY <1>2, <1>5, <2>2, LimitsAssumption
    <3>2. PICK e \in records : e.order = i BY <3>1 DEF StoreInv, NothingLost
    <3>3. e.expires = PassedAt(i) + Ttl BY <3>2 DEF StoreInv, EntriesInv, PassedAt
    <3>4. e \in Unexpired BY <3>1, <3>3 DEF Unexpired
    <3>5. ~ (e.order + MaxEntries <= Len(issued) + 1) BY <1>2, <3>2, LimitsAssumption
    <3>6. e \in Evict(Unexpired) BY <3>4, <3>5, RoomIsMade
    <3> QED BY <1>1, <3>2, <3>6
  <2> QED BY <2>1, <2>2
<1>10. Bounded'
  <2>1. /\ IsFiniteSet(Evict(Unexpired)) /\ Cardinality(Evict(Unexpired)) < MaxEntries
        /\ Cardinality(Evict(Unexpired)) \in Nat
    BY RoomIsMade, FS_CardinalityType
  <2>2. /\ IsFiniteSet(records')
        /\ \/ Cardinality(records') = Cardinality(Evict(Unexpired))
           \/ Cardinality(records') = Cardinality(Evict(Unexpired)) + 1
    <3> HIDE DEF new
    <3> QED BY <1>1, <2>1, FS_AddElement
  <2> QED BY <2>1, <2>2, LimitsAssumption DEF Bounded
<1> QED BY <1>6, <1>8, <1>9, <1>10 DEF StoreInv

LEMMA StoreStep == ASSUME TypeOK, StoreInv, [Next]_vars PROVE StoreInv'
<1>1. CASE \E t \in Tokens : ProbePasses(t) BY <1>1, IssueKeepsStore
<1>2. CASE Restart
  <2>1. IsFiniteSet({}) /\ Cardinality({}) = 0 BY FS_EmptySet
  <2>2. records' = {} /\ issued' = << >> BY <1>2 DEF Restart
  <2> QED BY <2>1, <2>2, LimitsAssumption
          DEF StoreInv, IssuedInv, EntriesInv, NothingLost, Bounded
<1>3. CASE ~ (\E t \in Tokens : ProbePasses(t)) /\ ~ Restart
  <2>1. issued' = issued /\ records' \subseteq records /\ Unexpired \subseteq records'
    BY <1>3 DEF Next, ProbeStep, StartProbe, ProbeFails, UploadStep, UploadAccepted, RunCreated,
            StoreFails, JobStep, StartJob, ReadDocument, SendDocument, JobEnds,
            UploadRefused, Replace, Tick, vars, Unexpired
  <2>2. now' = now \/ now' = now + 1
    BY <1>3 DEF Next, ProbeStep, StartProbe, ProbeFails, UploadStep, UploadAccepted, RunCreated,
            StoreFails, JobStep, StartJob, ReadDocument, SendDocument, JobEnds,
            UploadRefused, Replace, Tick, vars
  <2>3. now' \in Nat /\ now <= now' BY <2>2 DEF TypeOK
  <2> QED BY <2>1, <2>3, AttestedStays, StoreKept
<1> QED BY <1>1, <1>2, <1>3

\* What the invariant of the store says of the attestations that may be used.
LEMMA NewestAreStored == ASSUME TypeOK, StoreInv PROVE StoreHoldsTheNewest
<1> DEFINE newest == {i \in DOMAIN issued : i + MaxEntries > Len(issued)}
<1>1. ASSUME NEW e \in Unexpired
      PROVE  /\ e.order \in newest /\ e.token = issued[e.order]
             /\ PassedAt(e.order) + Ttl > now
  <2>1. e \in records /\ e.expires > now BY DEF Unexpired
  <2>2. /\ Len(issued) \in Nat /\ DOMAIN issued = 1..Len(issued)
        /\ e.order \in 1..Len(issued) /\ now \in Nat
    BY <2>1 DEF TypeOK
  <2>3. e.token = issued[e.order] /\ e.expires = PassedAt(e.order) + Ttl
    BY <2>1 DEF StoreInv, EntriesInv, PassedAt
  <2>4. e.order + MaxEntries > Len(issued)
    <3> SUFFICES ASSUME e.order + MaxEntries <= Len(issued) PROVE FALSE
      BY <2>2, LimitsAssumption
    <3> DEFINE first == Len(issued) - MaxEntries + 1
    <3>1. first \in Nat /\ first <= Len(issued) + 1 /\ e.order < first
      BY <2>2, LimitsAssumption
    <3>2. \A i \in first..Len(issued) : \E f \in records \ {e} : f.order = i
      <4> SUFFICES ASSUME NEW i \in first..Len(issued)
                   PROVE  \E f \in records \ {e} : f.order = i
        OBVIOUS
      <4>1. i \in 1..Len(issued) /\ i > e.order /\ i + MaxEntries > Len(issued)
        BY <2>2, <3>1, LimitsAssumption
      <4>2. PassedAt(e.order) <= PassedAt(i) BY <2>2, <4>1 DEF StoreInv, IssuedInv
      <4>3. PassedAt(i) \in Nat /\ PassedAt(e.order) \in Nat
        BY <2>2, <4>1 DEF PassedAt, TypeOK
      <4>4. PassedAt(i) + Ttl > now
        BY <2>1, <2>2, <2>3, <4>2, <4>3, LimitsAssumption
      <4>5. PICK f \in records : f.order = i
        BY <2>2, <4>1, <4>4 DEF StoreInv, NothingLost
      <4> QED BY <2>2, <4>1, <4>5
    <3>3. /\ IsFiniteSet(records \ {e})
          /\ Cardinality(records \ {e}) = Cardinality(records) - 1
      BY <2>1, FS_RemoveElement DEF StoreInv, Bounded
    <3>4. Len(issued) - first + 1 <= Cardinality(records \ {e})
      <4> HIDE DEF first
      <4> QED BY <2>2, <3>1, <3>2, <3>3, AtLeast
    <3>5. Cardinality(records) \in Nat /\ Cardinality(records) <= MaxEntries
      BY FS_CardinalityType DEF StoreInv, Bounded
    <3> QED BY <2>2, <3>3, <3>4, <3>5, LimitsAssumption
  <2> QED BY <2>1, <2>2, <2>3, <2>4
<1>2. ASSUME NEW i \in newest, PassedAt(i) + Ttl > now
      PROVE  \E e \in Unexpired : e.token = issued[i]
  <2>1. PICK e \in records : e.order = i BY <1>2 DEF StoreInv, NothingLost
  <2>2. e.token = issued[i] /\ e.expires = PassedAt(i) + Ttl
    BY <2>1 DEF StoreInv, EntriesInv, PassedAt
  <2> QED BY <1>2, <2>1, <2>2 DEF Unexpired
<1>3. {e.token : e \in Unexpired}
          = {issued[i] : i \in {j \in newest : probe[issued[j]].time + Ttl > now}}
  <2> HIDE DEF newest
  <2> QED BY <1>1, <1>2 DEF PassedAt
<1> QED BY <1>3 DEF StoreHoldsTheNewest, StoreInv, Bounded

-----------------------------------------------------------------------------
(* Uploads *)

LEMMA UploadsStep ==
    ASSUME TypeOK, NamesInv, StoreInv, UploadsAreAttested, [Next]_vars
    PROVE  UploadsAreAttested'
<1> SUFFICES ASSUME NEW r \in Runs, run'[r].at # "none"
             PROVE  LET p == probe'[run'[r].token]
                    IN  /\ p.at = "attested"
                        /\ p.session = run'[r].session /\ p.model = run'[r].model
                        /\ run'[r].digest = AttestationDigest(p.model, p.digest)
                        /\ p.time <= run'[r].time /\ run'[r].time < p.time + Ttl
  BY DEF UploadsAreAttested
<1>1. ASSUME NEW t \in Tokens, NEW s \in Sessions, NEW m \in Models, UploadAccepted(r, t, s, m)
      PROVE  /\ run'[r].token = t /\ probe'[t].at = "attested"
             /\ probe'[t].session = run'[r].session /\ probe'[t].model = run'[r].model
             /\ run'[r].digest = AttestationDigest(probe'[t].model, probe'[t].digest)
             /\ probe'[t].time <= run'[r].time /\ run'[r].time < probe'[t].time + Ttl
  <2>1. PICK e \in Unexpired :
            /\ Accepts(e, t, s, m)
            /\ run' = [run EXCEPT ![r] = [NoRun EXCEPT !.at = "storing", !.token = t,
                                          !.session = s, !.model = m, !.time = now,
                                          !.digest = e.digest]]
    BY <1>1 DEF UploadAccepted
  <2>2. /\ run'[r].token = t /\ run'[r].session = s /\ run'[r].model = m
        /\ run'[r].time = now /\ run'[r].digest = e.digest
    BY <2>1 DEF TypeOK, NoRun
  <2>3. e \in records /\ e.expires > now BY <2>1 DEF Unexpired
  <2>4. /\ e.session = probe[t].session /\ e.model = probe[t].model /\ e.token = issued[e.order]
        /\ e.digest = AttestationDigest(probe[t].model, probe[t].digest)
        /\ e.expires = probe[t].time + Ttl
    BY <2>1, <2>3 DEF Accepts, StoreInv, EntriesInv
  <2>5. probe[t].at = "attested" /\ probe[t].time <= now
    <3>1. e.order \in DOMAIN issued BY <2>3 DEF TypeOK
    <3> QED BY <2>1, <2>4, <3>1 DEF Accepts, StoreInv, IssuedInv, PassedAt
  <2> QED BY <1>1, <2>1, <2>2, <2>3, <2>4, <2>5 DEF Accepts, UploadAccepted
<1>2. CASE ~ \E t \in Tokens, s \in Sessions, m \in Models : UploadAccepted(r, t, s, m)
  <2>1. KeepsUpload(r) BY <1>2, UploadsKept
  <2>2. run[r].token \in Tokens BY <2>1 DEF KeepsUpload, NamesInv
  <2>3. probe'[run[r].token] = probe[run[r].token]
    BY <2>1, <2>2, AttestedStays DEF KeepsUpload, UploadsAreAttested
  <2> QED BY <2>1, <2>3 DEF KeepsUpload, UploadsAreAttested
<1> QED BY <1>1, <1>2

-----------------------------------------------------------------------------
(* Jobs *)

\* What the invariants say of one upload.
JobOf(r) ==
    /\ run[r].sentTo # NoOne => run[r].at \in {"asked", "ended"}
    /\ run[r].at = "reading" => SameModel(r)
    /\ run[r].at \in {"probing", "reading"} /\ run[r].seen # NoDigest =>
            served[run[r].model] \in {run[r].seen} \cup putSince[r]
    /\ run[r].sentTo # NoOne /\ probe[run[r].token].digest # NoDigest =>
            run[r].sentTo \in {probe[run[r].token].digest} \cup putSince[r]

LEMMA JobByJob ==
    TypeOK => (JobInv /\ DocumentGoesToTheProbedVersion <=> \A r \in Runs : JobOf(r))
BY DEF TypeOK, JobInv, DocumentGoesToTheProbedVersion, JobOf

\* The digest of an attested probe is that of the upload that presents its token.
LEMMA UploadHasProbesDigest ==
    ASSUME UploadsAreAttested, NEW r \in Runs, run[r].at # "none"
    PROVE  run[r].digest = <<run[r].model, probe[run[r].token].digest>>
BY DEF UploadsAreAttested, AttestationDigest

LEMMA JobInvStep ==
    ASSUME TypeOK, NamesInv, UploadsAreAttested, [Next]_vars, NEW r \in Runs, JobOf(r)
    PROVE  JobOf(r)'
<1> USE DEF JobOf
<1>1. ASSUME NEW t \in Tokens, NEW s \in Sessions, NEW m \in Models, UploadAccepted(r, t, s, m)
      PROVE  JobOf(r)'
  <2>1. run'[r].at = "storing" /\ run'[r].sentTo = NoOne
    BY <1>1 DEF UploadAccepted, NoRun, TypeOK
  <2> QED BY <1>1, <2>1 DEF UploadAccepted
<1>2. CASE RunCreated(r)
  <2>1. run'[r].at = "queued" /\ run'[r].sentTo = run[r].sentTo /\ run[r].sentTo = NoOne
    BY <1>2 DEF RunCreated, TypeOK
  <2> QED BY <1>2, <2>1 DEF RunCreated
<1>3. CASE StoreFails(r)
  <2>1. run'[r].at = "none" /\ run'[r].sentTo = NoOne
    BY <1>3 DEF StoreFails, NoRun, TypeOK
  <2> QED BY <1>3, <2>1 DEF StoreFails
<1>4. CASE StartJob(r)
  <2>1. run[r].model \in Models BY <1>4 DEF StartJob, NamesInv
  <2>2. PICK d \in Reported(run[r].model) :
            run' = [run EXCEPT ![r].at = "probing", ![r].seen = d]
    BY <1>4 DEF StartJob
  <2>3. d = NoDigest \/ d = served[run[r].model] BY DEF Reported
  <2>4. /\ run'[r].at = "probing" /\ run'[r].seen = d /\ run'[r].model = run[r].model
        /\ run'[r].sentTo = run[r].sentTo /\ run[r].sentTo = NoOne
    BY <1>4, <2>2 DEF StartJob, TypeOK
  <2> QED BY <1>4, <2>3, <2>4 DEF StartJob
<1>5. CASE ReadDocument(r)
  <2>1. /\ run'[r] = [run[r] EXCEPT !.at = "reading"]
        /\ run[r].at = "probing" /\ SameModel(r)
    BY <1>5 DEF ReadDocument, TypeOK
  <2>2. /\ run'[r].at = "reading" /\ run'[r].model = run[r].model
        /\ run'[r].seen = run[r].seen /\ run'[r].digest = run[r].digest
        /\ run'[r].sentTo = run[r].sentTo /\ run[r].sentTo = NoOne
    BY <2>1 DEF TypeOK, RunType
  <2> QED BY <1>5, <2>1, <2>2 DEF ReadDocument, SameModel
<1>6. CASE SendDocument(r)
  <2>1. /\ run'[r].at = "asked" /\ run'[r].sentTo = served[run[r].model]
        /\ run'[r].token = run[r].token /\ run[r].at = "reading" /\ SameModel(r)
        /\ probe' = probe /\ putSince' = putSince
    BY <1>6 DEF SendDocument, TypeOK
  <2>2. ASSUME probe[run[r].token].digest # NoDigest
        PROVE  served[run[r].model] \in {probe[run[r].token].digest} \cup putSince[r]
    <3>1. <<run[r].model, run[r].seen>> = <<run[r].model, probe[run[r].token].digest>>
      BY <2>1, UploadHasProbesDigest DEF SameModel, AttestationDigest
    <3>2. run[r].seen = probe[run[r].token].digest BY <3>1
    <3> QED BY <2>1, <2>2, <3>2
  <2> QED BY <2>1, <2>2
<1>7. CASE JobEnds(r)
  <2>1. /\ run'[r].at = "ended" /\ run'[r].sentTo = run[r].sentTo
        /\ run'[r].token = run[r].token /\ putSince' = putSince /\ probe' = probe
    BY <1>7 DEF JobEnds, TypeOK
  <2> QED BY <1>7, <2>1 DEF JobEnds
<1>8. ASSUME NEW m \in Models, NEW v \in Versions, Replace(m, v) PROVE JobOf(r)'
  <2>1. UNCHANGED <<run, probe>> BY <1>8 DEF Replace
  <2>2. ASSUME run[r].at \in {"probing", "reading"}
        PROVE  \/ served'[run[r].model] = served[run[r].model]
               \/ served'[run[r].model] \in putSince'[r]
    BY <1>8, <2>2 DEF Replace, TypeOK, NamesInv
  <2>3. putSince[r] \subseteq putSince'[r] BY <1>8 DEF Replace, TypeOK
  <2>4. SameModel(r)' <=> SameModel(r) BY <2>1 DEF SameModel
  <2> QED BY <2>1, <2>2, <2>3, <2>4
<1>9. CASE Restart
  <2>1. CASE run[r].at \in {"none", "storing"}
    <3>1. run'[r].at = "none" /\ run'[r].sentTo = NoOne
      BY <1>9, <2>1 DEF Restart, NoRun
    <3> QED BY <1>9, <2>1, <3>1 DEF Restart
  <2>2. CASE run[r].at \notin {"none", "storing"}
    <3>1. /\ run'[r].at = "ended" /\ run'[r].sentTo = run[r].sentTo
          /\ run'[r].token = run[r].token
      BY <1>9, <2>2 DEF Restart, TypeOK
    <3>2. probe'[run[r].token] = probe[run[r].token]
      BY <2>2, AttestedStays DEF NamesInv, UploadsAreAttested
    <3>3. putSince' = putSince BY <1>9 DEF Restart
    <3> QED BY <3>1, <3>2, <3>3
  <2> QED BY <2>1, <2>2
\* Steps of other uploads, of probes and of the clock.
<1>10. ASSUME run'[r] = run[r], served' = served, putSince'[r] = putSince[r]
       PROVE  JobOf(r)'
  <2>1. CASE run[r].at # "none"
    <3>1. probe'[run[r].token] = probe[run[r].token]
      BY <2>1, AttestedStays DEF NamesInv, UploadsAreAttested
    <3> QED BY <1>10, <3>1 DEF SameModel
  <2>2. CASE run[r].at = "none" BY <1>10, <2>2 DEF SameModel
  <2> QED BY <2>1, <2>2
<1>11. ASSUME NEW q \in Runs, q # r, UploadStep(q) \/ JobStep(q)
       PROVE  run'[r] = run[r] /\ served' = served /\ putSince'[r] = putSince[r]
  BY <1>11 DEF UploadStep, UploadAccepted, RunCreated, StoreFails, JobStep, StartJob,
     ReadDocument, SendDocument, JobEnds, TypeOK
<1>12. CASE \/ \E t \in Tokens : ProbeStep(t)
            \/ \E t \in Tokens : UploadRefused(t)
            \/ Tick \/ UNCHANGED vars
  <2>1. run' = run /\ served' = served /\ putSince' = putSince
    BY <1>12 DEF ProbeStep, StartProbe, ProbePasses, ProbeFails, UploadRefused, Tick, vars
  <2> HIDE DEF JobOf
  <2> QED BY <1>10, <2>1
<1> HIDE DEF JobOf
<1>13. CASE UploadStep(r) \/ JobStep(r)
  BY <1>1, <1>2, <1>3, <1>4, <1>5, <1>6, <1>7, <1>13 DEF UploadStep, JobStep
<1> QED BY <1>8, <1>9, <1>10, <1>11, <1>12, <1>13 DEF Next

-----------------------------------------------------------------------------
(* The invariant and the theorems *)

LEMMA Initially == Init => AttestationInv
<1>1. Init => UploadsAreAttested /\ JobInv /\ DocumentGoesToTheProbedVersion
  BY DEF Init, UploadsAreAttested, JobInv, DocumentGoesToTheProbedVersion, NoRun
<1> QED BY <1>1, TypeInitially, NamesInitially, StoreInitially DEF AttestationInv

LEMMA InvStep == ASSUME AttestationInv, [Next]_vars PROVE AttestationInv'
<1>1. TypeOK' /\ NamesInv' /\ StoreInv' /\ UploadsAreAttested'
  BY TypeStep, NamesStep, StoreStep, UploadsStep DEF AttestationInv
<1>2. \A r \in Runs : JobOf(r)'
  BY JobByJob, JobInvStep DEF AttestationInv
<1>3. (JobInv /\ DocumentGoesToTheProbedVersion <=> \A r \in Runs : JobOf(r))'
  BY <1>1, JobByJob, PTL
<1> QED BY <1>1, <1>2, <1>3 DEF AttestationInv

\* The invariant holds in every state of every behavior.
THEOREM AttestationInvariant == Spec => []AttestationInv
<1> QED BY Initially, InvStep, PTL DEF Spec

\* web.py, ProbeAttestationStore: the store never holds more than MaxEntries, and what it
\* accepts is exactly the unexpired among the newest it issued, whatever was issued,
\* presented and restarted before.
THEOREM NewestAttestationsAreStored == Spec => []StoreHoldsTheNewest
<1>1. AttestationInv => StoreHoldsTheNewest BY NewestAreStored DEF AttestationInv
<1> QED BY <1>1, AttestationInvariant, PTL

\* web.py, create_run: no run exists that its own session's probe of that model has not
\* attested less than Ttl before.
THEOREM EveryUploadIsAttested == Spec => []UploadsAreAttested
<1>1. AttestationInv => UploadsAreAttested BY DEF AttestationInv
<1> QED BY <1>1, AttestationInvariant, PTL

\* service.py, _process_run: where the session's probe saw a digest, the document goes to
\* the version of that digest or to one put there after the second probe's look.
THEOREM DocumentsGoWhereProbed == Spec => []DocumentGoesToTheProbedVersion
<1>1. AttestationInv => DocumentGoesToTheProbedVersion BY DEF AttestationInv
<1> QED BY <1>1, AttestationInvariant, PTL
=============================================================================
