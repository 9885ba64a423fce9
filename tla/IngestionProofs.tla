-------------------------- MODULE IngestionProofs --------------------------
(***************************************************************************)
(* The safety properties of IngestWorker, from one inductive invariant;    *)
(* that Ingestion implements IngestWorker; and that its budgets are exact  *)
(* and its limits leave room for one another.                              *)
(***************************************************************************)
EXTENDS Ingestion, FiniteSums, SequenceTheorems, TLAPS

\* What the server knows of the worker wherever it waits: until it stops the worker it
\* has sent no signal; an answer was written whole by a worker that is leaving; only a
\* worker that can be signalled or has died leaves an OCR program.
WaitInv ==
    /\ TypeOK
    /\ result = "none" <=> parent # "done"
    /\ parent \in {"polling", "receiving"} => cause = "none"
    /\ parent \in {"polling", "receiving", "joining", "stopping"} => signal = "none"
    /\ parent \in {"terminating", "killing"} => signal # "none"
    /\ parent = "killing" => signal = "KILL"
    /\ worker = "reaped" => parent = "done"
    /\ pipe = "full" => WriteEndClosed /\ ocr = "none" /\ answer # "none"
    /\ cause = "answer" => pipe = "full"
    /\ worker = "writing" => ocr = "none" /\ answer = "document"
    /\ ocr = "running" => signal = "none" /\ group = "own"
    /\ worker = "starting" => ocr = "none"
    /\ worker \in {"starting", "working"} => pipe = "empty"
    /\ worker = "working" => group = "own"
    /\ ocr # "none" => group = "own"

\* Every step keeps it, and what the theorems say of the end of the call.
CallInv ==
    /\ WaitInv
    /\ DocumentIsFromACleanExit
    /\ WorkerIsGone
    /\ OcrIsLeftByTheDead

-----------------------------------------------------------------------------
\* The call starts in a state of the invariant: extract_document_isolated has just
\* started the worker and waits in poll.
LEMMA InitCall == Init => CallInv
BY DEF Init, WriteEndClosed, CallInv, WaitInv, TypeOK, DocumentIsFromACleanExit,
   WorkerIsGone, OcrIsLeftByTheDead

\* No step of the worker, the OCR program or the pipe breaks the invariant.
LEMMA WorkerKeeps == ASSUME CallInv, Worker PROVE CallInv'
<1> USE DEF WriteEndClosed, NotSignalled, serverVars, workerVars, pipeVars,
        CallInv, WaitInv, TypeOK, DocumentIsFromACleanExit, WorkerIsGone,
        OcrIsLeftByTheDead
<1>1. CASE LeadGroup BY <1>1 DEF LeadGroup
<1>2. CASE StartOcr BY <1>2 DEF StartOcr
<1>3. CASE OcrEnds BY <1>3 DEF OcrEnds
<1>4. CASE \E a \in {"document", "refusal"} : SendAtOnce(a)
  BY <1>4 DEF SendAtOnce
<1>5. CASE SendHeader BY <1>5 DEF SendHeader
<1>6. CASE SendRest BY <1>6 DEF SendRest
<1>7. CASE WorkerEnds BY <1>7 DEF WorkerEnds
<1> QED BY <1>1, <1>2, <1>3, <1>4, <1>5, <1>6, <1>7 DEF Worker

\* Nor does a step of extract_document_isolated or _stop_worker.
LEMMA ServerKeeps == ASSUME CallInv, Server PROVE CallInv'
<1> USE DEF WriteEndClosed, serverVars, workerVars, pipeVars,
        CallInv, WaitInv, TypeOK, DocumentIsFromACleanExit, WorkerIsGone,
        OcrIsLeftByTheDead
<1>1. CASE PollReady BY <1>1 DEF PollReady, Readable
<1>2. CASE PollTimesOut BY <1>2 DEF PollTimesOut, Readable
<1>3. CASE Receive BY <1>3 DEF Receive
<1>4. CASE ReceiveFails BY <1>4 DEF ReceiveFails
<1>5. CASE Joined BY <1>5 DEF Joined, Reap, DecodedAs
<1>6. CASE JoinTimesOut BY <1>6 DEF JoinTimesOut
<1>7. CASE StopDead BY <1>7 DEF StopDead, Reap
<1>8. CASE StopAlive BY <1>8 DEF StopAlive, Signal
<1>9. CASE Stopped BY <1>9 DEF Stopped, Reap
<1>10. CASE TerminateTimesOut BY <1>10 DEF TerminateTimesOut, Signal
<1>11. CASE KillTimesOut BY <1>11 DEF KillTimesOut
<1> QED
  BY <1>1, <1>2, <1>3, <1>4, <1>5, <1>6, <1>7, <1>8, <1>9, <1>10, <1>11 DEF Server

\* Wherever the server waits for its worker, CallInv holds.
THEOREM CallInvariant == Spec => []CallInv
<1>1. Init => CallInv BY InitCall
<1>2. CallInv /\ [Next]_vars => CallInv'
  <2> SUFFICES ASSUME CallInv, [Next]_vars PROVE CallInv'
    OBVIOUS
  <2>1. CASE Server BY <2>1, ServerKeeps
  <2>2. CASE Worker BY <2>2, WorkerKeeps
  <2>3. CASE UNCHANGED vars
    BY <2>3 DEF vars, serverVars, workerVars, pipeVars, WriteEndClosed, CallInv, WaitInv, TypeOK,
       DocumentIsFromACleanExit, WorkerIsGone, OcrIsLeftByTheDead
  <2> QED BY <2>1, <2>2, <2>3 DEF Next
<1> QED BY <1>1, <1>2, PTL DEF Spec

\* Server, worker and pipe keep their types.
THEOREM TypeCorrect == Spec => []TypeOK
<1>1. CallInv => TypeOK BY DEF CallInv, WaitInv
<1> QED BY <1>1, CallInvariant, PTL

\* A document is only ever taken from a worker that wrote it whole and exited by itself
\* in time.
THEOREM DocumentsAreClean == Spec => []DocumentIsFromACleanExit
<1>1. CallInv => DocumentIsFromACleanExit BY DEF CallInv
<1> QED BY <1>1, CallInvariant, PTL

\* The call leaves no worker behind that SIGKILL can end.
THEOREM WorkersAreGone == Spec => []WorkerIsGone
<1>1. CallInv => WorkerIsGone BY DEF CallInv
<1> QED BY <1>1, CallInvariant, PTL

\* An unsignalled OCR program is left only by a worker that died by itself.
THEOREM OcrIsReached == Spec => []OcrIsLeftByTheDead
<1>1. CallInv => OcrIsLeftByTheDead BY DEF CallInv
<1> QED BY <1>1, CallInvariant, PTL

\* _stop_worker never signals a process it has already collected.
THEOREM SignalsAreSafe == Spec => SignalsReachTheWorker
<1>1. CallInv /\ [Next]_vars => [signal' # signal => worker' # "reaped"]_vars
  <2> SUFFICES ASSUME CallInv, [Next]_vars, signal' # signal PROVE worker' # "reaped"
    OBVIOUS
  <2>1. parent # "done" => worker # "reaped" BY DEF CallInv, WaitInv
  <2>2. CASE Server
    BY <2>1, <2>2 DEF Server, PollReady, PollTimesOut, Receive, ReceiveFails, Joined,
       JoinTimesOut, StopDead, StopAlive, Stopped, TerminateTimesOut, KillTimesOut,
       Reap, Signal, serverVars, workerVars, pipeVars
  <2>3. CASE Worker
    BY <2>3 DEF Worker, LeadGroup, StartOcr, OcrEnds, SendAtOnce, SendHeader, SendRest,
       WorkerEnds, serverVars
  <2>4. CASE UNCHANGED vars BY <2>4 DEF vars, serverVars
  <2> QED BY <2>2, <2>3, <2>4 DEF Next
<1> QED BY <1>1, CallInvariant, PTL DEF Spec, SignalsReachTheWorker

-----------------------------------------------------------------------------
(* Budgets and limits *)

Sizes == [text: Nat, image: Nat, raster: Nat]

Budgets == [pixels: Nat, bytes: Nat, characters: Nat, text: Nat, textPages: Nat]

\* Where a page is, and what is known of it.
PageInv ==
    /\ stage \in {"closed", "page", "accepted"} => page = NoPage
    /\ stage = "rasterize" => page.image = 0 /\ page.raster = 0
    /\ stage \in {"render", "encode"} => page.image = 0
    /\ stage \in {"encoded", "ocr", "recognising"} => page.image > 0
    /\ stage = "closed" => count = 0 /\ pages = <<>>
    /\ stage \notin {"closed", "refused"} => count \in 1..MaxPages
    /\ stage \notin {"closed", "page", "accepted", "refused"} => Len(pages) < count
    /\ Len(pages) <= count /\ count \in Nat
    /\ stage = "accepted" =>
          Len(pages) = count /\ \E i \in DOMAIN pages : HasContent(pages[i])
    /\ stage \in {"closed", "page", "rasterize", "render", "encode", "encoded", "ocr",
                  "recognising", "accepted", "refused"}

\* Every budget is what the pages and the page under way have used, and within its limit.
BudgetInv ==
    LET reserved == IF stage \in {"ocr", "recognising"} THEN page.image ELSE 0 IN
    /\ budget.text = DocumentText /\ budget.text <= MaxText
    /\ budget.textPages = Cardinality(TextPages)
    /\ budget.characters = DocumentImages + (IF reserved > 0 THEN Encoded(reserved) ELSE 0)
    /\ budget.characters <= MaxCharacters
    /\ budget.bytes = PageTotal("image") + reserved /\ budget.bytes <= MaxBytes
    /\ budget.pixels = PageTotal("raster") + page.raster /\ budget.pixels <= MaxPixels
    /\ PageTotal("text") <= budget.text

\* What a guard has let through fits.
GuardInv ==
    /\ stage \in {"rasterize", "render", "encode", "encoded"} => TextFits(page.text)
    /\ stage = "encoded" => ImageFits(page.image)

\* Only an accepted document is sent, and nothing is read afterwards.
SentInv ==
    /\ worker \in {"starting", "working"} => answer = "none"
    /\ answer = "document" => stage = "accepted"

DocInv ==
    /\ pages \in Seq(Sizes) /\ page \in Sizes
    /\ budget \in Budgets
    /\ stage # "refused" => PageInv /\ BudgetInv /\ GuardInv

IngestInv == DocInv /\ SentInv

-----------------------------------------------------------------------------
(* Arithmetic *)

LEMMA MaxOfTwo ==
    ASSUME NEW a \in Int, NEW b \in Int
    PROVE  Max({a, b}) = IF a >= b THEN a ELSE b
<1>1. \E x \in {a, b} : \A y \in {a, b} : x >= y OBVIOUS
<1>2. Max({a, b}) \in {a, b} /\ \A y \in {a, b} : Max({a, b}) >= y BY <1>1 DEF Max
<1> QED BY <1>2

LEMMA MaxOfThree ==
    ASSUME NEW a \in Int, NEW b \in Int, NEW c \in Int
    PROVE  /\ Max({a, b, c}) \in {a, b, c}
           /\ Max({a, b, c}) >= a /\ Max({a, b, c}) >= b /\ Max({a, b, c}) >= c
<1>1. \E x \in {a, b, c} : \A y \in {a, b, c} : x >= y OBVIOUS
<1>2. Max({a, b, c}) \in {a, b, c} /\ \A y \in {a, b, c} : Max({a, b, c}) >= y
  BY <1>1 DEF Max
<1> QED BY <1>2

LEMMA MinOfTwo ==
    ASSUME NEW a \in Int, NEW b \in Int
    PROVE  Min({a, b}) = IF a <= b THEN a ELSE b
<1>1. \E x \in {a, b} : \A y \in {a, b} : x <= y OBVIOUS
<1>2. Min({a, b}) \in {a, b} /\ \A y \in {a, b} : Min({a, b}) <= y BY <1>1 DEF Min
<1> QED BY <1>2

\* _data_uri_length is the length of what base64 writes.
LEMMA EncodedLength ==
    ASSUME NEW bytes \in Nat
    PROVE  Encoded(bytes) = UriLength(bytes) /\ UriLength(bytes) \in Nat
<1> DEFINE least == 4 * ((bytes + 2) \div 3)
           Lengths == {n \in 0..(2 * bytes + 4) : n % 4 = 0 /\ 3 * n >= 4 * bytes}
<1>1. least \in Lengths OBVIOUS
<1>2. \A n \in Lengths : least <= n OBVIOUS
<1>3. Min(Lengths) = least
  <2>1. Lengths \subseteq Int OBVIOUS
  <2> HIDE DEF least, Lengths
  <2>2. Min(Lengths) \in Lengths /\ \A y \in Lengths : Min(Lengths) <= y
    BY <1>1, <1>2 DEF Min
  <2>3. Min(Lengths) \in Int /\ least \in Int BY <1>1, <2>1, <2>2
  <2>4. least <= Min(Lengths) /\ Min(Lengths) <= least BY <1>1, <1>2, <2>2
  <2> QED BY <2>3, <2>4
<1>4. UriPrefix \in Nat /\ least \in Nat BY SizesAreSizes
<1> QED BY <1>3, <1>4 DEF Encoded, UriLength

\* The bounded encoder lets through what can be reserved.
LEMMA WriteLimitIsTight ==
    ASSUME budget \in Budgets,
           budget.bytes <= MaxBytes, NEW image \in Nat \ {0}, image <= WriteLimit
    PROVE  ImageFits(image)
<1>1. MaxBytes \in Nat /\ MaxCharacters \in Nat /\ UriPrefix \in Nat BY SizesAreSizes
<1> DEFINE room == AtLeast0(MaxCharacters - budget.characters, UriPrefix)
           groups == room \div 4
<1>2. room \in Nat /\ (room > 0 => room = MaxCharacters - budget.characters - UriPrefix)
  BY <1>1 DEF AtLeast0, Budgets
<1>3. groups \in Nat /\ 4 * groups <= room
  <2> HIDE DEF room
  <2> QED BY <1>2
<1>4. WriteLimit = Min({MaxBytes - budget.bytes, 3 * groups}) BY DEF WriteLimit
<1> HIDE DEF room, groups
<1>5. image <= MaxBytes - budget.bytes /\ image <= 3 * groups
  BY <1>1, <1>3, <1>4, MinOfTwo DEF Budgets
<1>6. 4 * ((image + 2) \div 3) <= 4 * groups BY <1>3, <1>5
<1>7. UriLength(image) <= MaxCharacters - budget.characters
  <2> DEFINE least == 4 * ((image + 2) \div 3)
  <2>1. least \in Nat /\ least > 0 OBVIOUS
  <2>2. UriLength(image) = UriPrefix + least BY DEF UriLength
  <2> HIDE DEF least
  <2>3. least <= 4 * groups BY <1>6 DEF least
  <2> QED BY <1>1, <1>2, <1>3, <2>1, <2>2, <2>3 DEF Budgets
<1>8. UriLength(image) \in Nat BY EncodedLength
<1> QED BY <1>1, <1>5, <1>7, <1>8 DEF ImageFits, Fits, Budgets

\* The guard on the text of a PDF lets through what can be reserved.
LEMMA TextLimitIsTight ==
    ASSUME budget \in Budgets,
           NEW text \in Nat, text <= TextLimit
    PROVE  TextFits(text)
BY SizesAreSizes DEF Budgets, TextLimit, TextFits, TextOverhead, AtLeast0, Fits

-----------------------------------------------------------------------------
(* What the document has of everything, with one page more *)

\* A page at the end leaves the others where they are.
LEMMA AppendedPage ==
    ASSUME pages \in Seq(Sizes), NEW p \in Sizes, pages' = Append(pages, p)
    PROVE  /\ pages' \in Seq(Sizes) /\ Len(pages') = Len(pages) + 1 /\ Len(pages) \in Nat
           /\ DOMAIN pages' = DOMAIN pages \cup {Len(pages')}
           /\ Len(pages') \notin DOMAIN pages /\ pages'[Len(pages')] = p
           /\ \A i \in DOMAIN pages : pages[i] \in Sizes /\ pages'[i] = pages[i]
           /\ IsFiniteSet(DOMAIN pages)
<1>1. DOMAIN pages = 1..Len(pages) /\ Len(pages) \in Nat OBVIOUS
<1>2. IsFiniteSet(DOMAIN pages) BY <1>1, FS_Interval
<1> QED BY <1>1, <1>2, AppendProperties

LEMMA TotalsGrow ==
    ASSUME pages \in Seq(Sizes), NEW p \in Sizes, pages' = Append(pages, p)
    PROVE  /\ PageTotal("text") \in Int /\ PageTotal("text")' = PageTotal("text") + p.text
           /\ PageTotal("image") \in Int /\ PageTotal("image")' = PageTotal("image") + p.image
           /\ PageTotal("raster") \in Int
           /\ PageTotal("raster")' = PageTotal("raster") + p.raster
<1> DEFINE n == Len(pages')
<1>1. /\ DOMAIN pages' = DOMAIN pages \cup {n} /\ n \notin DOMAIN pages
      /\ pages'[n] = p /\ \A i \in DOMAIN pages : pages[i] \in Sizes /\ pages'[i] = pages[i]
      /\ IsFiniteSet(DOMAIN pages)
  BY AppendedPage
<1> HIDE DEF n
<1>2. ASSUME NEW size \in {"text", "image", "raster"}
      PROVE  /\ SumFunctionOnSet([i \in DOMAIN pages |-> pages[i][size]], DOMAIN pages) \in Int
             /\ SumFunctionOnSet([i \in DOMAIN pages' |-> pages'[i][size]], DOMAIN pages')
                 = SumFunctionOnSet([i \in DOMAIN pages |-> pages[i][size]], DOMAIN pages)
                     + p[size]
  <2> DEFINE f == [i \in DOMAIN pages |-> pages[i][size]]
             g == [i \in DOMAIN pages' |-> pages'[i][size]]
  <2>1. \A i \in DOMAIN pages : f[i] \in Int /\ g[i] = f[i] BY <1>1 DEF Sizes
  <2>2. g[n] = p[size] /\ p[size] \in Int BY <1>1 DEF Sizes
  <2> HIDE DEF f, g
  <2>3. SumFunctionOnSet(g, DOMAIN pages \cup {n}) = g[n] + SumFunctionOnSet(f, DOMAIN pages)
    BY <1>1, <2>1, <2>2, SumGrown
  <2>4. SumFunctionOnSet(f, DOMAIN pages) \in Int BY <1>1, <2>1, SumStep
  <2>5. SumFunctionOnSet(g, DOMAIN pages') = SumFunctionOnSet(f, DOMAIN pages) + p[size]
    BY <1>1, <2>2, <2>3, <2>4
  <2> QED BY <2>4, <2>5 DEF f, g
<1> QED BY <1>2 DEF PageTotal

LEMMA ImagesGrow ==
    ASSUME pages \in Seq(Sizes), NEW p \in Sizes, pages' = Append(pages, p)
    PROVE  /\ DocumentImages \in Int
           /\ DocumentImages' = DocumentImages + (IF p.image > 0 THEN Encoded(p.image) ELSE 0)
<1> DEFINE n == Len(pages')
           f == [i \in DOMAIN pages |-> Encoded(pages[i].image)]
           g == [i \in DOMAIN pages' |-> Encoded(pages'[i].image)]
           S == {i \in DOMAIN pages : pages[i].image > 0}
           T == {i \in DOMAIN pages' : pages'[i].image > 0}
<1>1. /\ DOMAIN pages' = DOMAIN pages \cup {n} /\ n \notin DOMAIN pages
      /\ pages'[n] = p /\ \A i \in DOMAIN pages : pages[i] \in Sizes /\ pages'[i] = pages[i]
      /\ IsFiniteSet(DOMAIN pages)
  BY AppendedPage
<1> HIDE DEF n
<1>2. \A q \in Sizes : Encoded(q.image) \in Int BY EncodedLength DEF Sizes
<1>3. IsFiniteSet(S) /\ n \notin S BY <1>1, FS_Subset
<1>4. \A i \in S : f[i] \in Int /\ g[i] = f[i] BY <1>1, <1>2
<1>5. g[n] = Encoded(p.image) /\ g[n] \in Int BY <1>1, <1>2
<1>6. p.image \in Nat BY DEF Sizes
<1>7. T = IF p.image > 0 THEN S \cup {n} ELSE S BY <1>1
<1>8. DocumentImages = SumFunctionOnSet(f, S) /\ DocumentImages' = SumFunctionOnSet(g, T)
  BY DEF DocumentImages
<1> HIDE DEF f, g, S, T
<1>9. SumFunctionOnSet(f, S) \in Int BY <1>3, <1>4, SumStep
<1>10. CASE p.image > 0
  <2>1. SumFunctionOnSet(g, S \cup {n}) = g[n] + SumFunctionOnSet(f, S)
    BY <1>3, <1>4, <1>5, SumGrown
  <2> QED BY <1>5, <1>7, <1>8, <1>9, <1>10, <2>1
<1>11. CASE ~ (p.image > 0)
  <2>1. SumFunctionOnSet(g, S) = SumFunctionOnSet(f, S) BY <1>3, <1>4, SumSame
  <2> QED BY <1>7, <1>8, <1>9, <1>11, <2>1
<1> QED BY <1>10, <1>11

LEMMA TextGrows ==
    ASSUME pages \in Seq(Sizes), NEW p \in Sizes, pages' = Append(pages, p)
    PROVE  LET before == Cardinality(TextPages) IN
           /\ before \in Nat /\ DocumentText \in Int
           /\ Cardinality(TextPages)' = IF p.text > 0 THEN before + 1 ELSE before
           /\ DocumentText' =
                 IF p.text > 0
                 THEN DocumentText + PagePrefix + p.text + (IF before > 0 THEN 2 ELSE 0)
                 ELSE DocumentText
<1> DEFINE n == Len(pages')
           f == [i \in DOMAIN pages |-> PagePrefix + pages[i].text]
           g == [i \in DOMAIN pages' |-> PagePrefix + pages'[i].text]
           S == TextPages
           T == TextPages'
           before == Cardinality(S)
           after == Cardinality(T)
<1>1. /\ DOMAIN pages' = DOMAIN pages \cup {n} /\ n \notin DOMAIN pages
      /\ pages'[n] = p /\ \A i \in DOMAIN pages : pages[i] \in Sizes /\ pages'[i] = pages[i]
      /\ IsFiniteSet(DOMAIN pages)
  BY AppendedPage
<1> HIDE DEF n
<1>2. PagePrefix \in Nat BY SizesAreSizes
<1>3. S \subseteq DOMAIN pages /\ IsFiniteSet(S) /\ n \notin S
  <2>1. S \subseteq DOMAIN pages BY DEF TextPages
  <2> QED BY <1>1, <2>1, FS_Subset
<1>4. \A i \in S : f[i] \in Int /\ g[i] = f[i]
  <2>1. ASSUME NEW i \in DOMAIN pages
        PROVE  PagePrefix + pages[i].text \in Int /\ pages'[i].text = pages[i].text
    BY <1>1, <1>2 DEF Sizes
  <2>2. \A i \in DOMAIN pages : f[i] \in Int /\ g[i] = f[i] BY <1>1, <2>1
  <2> HIDE DEF f, g, S
  <2> QED BY <1>3, <2>2
<1>5. g[n] = PagePrefix + p.text /\ g[n] \in Int /\ p.text \in Nat BY <1>1, <1>2 DEF Sizes
<1>6. T = IF p.text > 0 THEN S \cup {n} ELSE S BY <1>1 DEF TextPages
<1>7. DocumentText = SumFunctionOnSet(f, S) + 2 * Max({0, before - 1})
  BY DEF DocumentText
<1>8. DocumentText' = SumFunctionOnSet(g, T) + 2 * Max({0, after - 1})
  BY DEF DocumentText
<1>9. before \in Nat /\ after = IF p.text > 0 THEN before + 1 ELSE before
  BY <1>3, <1>6, FS_AddElement, FS_CardinalityType
<1> HIDE DEF f, g, S, T, before, after
<1>10. SumFunctionOnSet(f, S) \in Int BY <1>3, <1>4, SumStep
<1>11. Max({0, before - 1}) = IF before > 0 THEN before - 1 ELSE 0 BY <1>9, MaxOfTwo
<1>12. Max({0, after - 1}) = IF after > 0 THEN after - 1 ELSE 0 BY <1>9, MaxOfTwo
<1>13. SumFunctionOnSet(g, T)
         = IF p.text > 0 THEN PagePrefix + p.text + SumFunctionOnSet(f, S)
                         ELSE SumFunctionOnSet(f, S)
  <2>1. SumFunctionOnSet(g, S \cup {n}) = g[n] + SumFunctionOnSet(f, S)
    BY <1>3, <1>4, <1>5, SumGrown
  <2>2. SumFunctionOnSet(g, S) = SumFunctionOnSet(f, S) BY <1>3, <1>4, SumSame
  <2> QED BY <1>5, <1>6, <2>1, <2>2
<1>14. /\ before \in Nat /\ DocumentText \in Int
       /\ after = IF p.text > 0 THEN before + 1 ELSE before
       /\ DocumentText' =
             IF p.text > 0
             THEN DocumentText + PagePrefix + p.text + (IF before > 0 THEN 2 ELSE 0)
             ELSE DocumentText
  <2> DEFINE sum == SumFunctionOnSet(f, S)
             grown == SumFunctionOnSet(g, T)
  <2>1. sum \in Int /\ p.text \in Nat /\ PagePrefix \in Nat BY <1>2, <1>5, <1>10
  <2>2. /\ DocumentText = sum + 2 * (IF before > 0 THEN before - 1 ELSE 0)
        /\ DocumentText' = grown + 2 * (IF after > 0 THEN after - 1 ELSE 0)
    BY <1>7, <1>8, <1>11, <1>12
  <2>3. grown = IF p.text > 0 THEN PagePrefix + p.text + sum ELSE sum BY <1>13
  <2> HIDE DEF sum, grown
  <2> QED BY <1>9, <2>1, <2>2, <2>3
<1> QED BY <1>14 DEF before, after, S, T

-----------------------------------------------------------------------------
(* Reading keeps the invariant *)

\* The totals depend on the pages that have been read alone.
LEMMA SameTotals ==
    ASSUME pages' = pages
    PROVE  /\ DocumentText' = DocumentText /\ DocumentImages' = DocumentImages
           /\ TextPages' = TextPages /\ Cardinality(TextPages)' = Cardinality(TextPages)
           /\ PageTotal("text")' = PageTotal("text")
           /\ PageTotal("image")' = PageTotal("image")
           /\ PageTotal("raster")' = PageTotal("raster")
BY DEF DocumentText, DocumentImages, TextPages, PageTotal

\* A document that has not been opened has used nothing.
LEMMA NothingUsed ==
    ASSUME pages = <<>>
    PROVE  /\ DocumentText = 0 /\ DocumentImages = 0 /\ Cardinality(TextPages) = 0
           /\ PageTotal("text") = 0 /\ PageTotal("image") = 0 /\ PageTotal("raster") = 0
<1>1. DOMAIN pages = {} OBVIOUS
<1>2. TextPages = {} /\ {i \in DOMAIN pages : pages[i].image > 0} = {}
  BY <1>1 DEF TextPages
<1>3. Cardinality(TextPages) = 0 BY <1>2, FS_EmptySet
<1>4. Max({0, Cardinality(TextPages) - 1}) = 0 BY <1>3, MaxOfTwo
<1>5. DocumentText = 0
  <2>1. SumFunctionOnSet([i \in DOMAIN pages |-> PagePrefix + pages[i].text], {}) = 0
    BY EmptySum
  <2> QED BY <1>2, <1>4, <2>1 DEF DocumentText
<1>6. DocumentImages = 0 BY <1>2, EmptySum DEF DocumentImages
<1>7. PageTotal("text") = 0 /\ PageTotal("image") = 0 /\ PageTotal("raster") = 0
  BY <1>1, EmptySum DEF PageTotal
<1> QED BY <1>3, <1>5, <1>6, <1>7

LEMMA InitIngest == IngestInit => IngestInv
<1> SUFFICES ASSUME IngestInit PROVE IngestInv OBVIOUS
<1>1. page \in Sizes /\ page.raster = 0 BY DEF IngestInit, NoPage, Page, Sizes
<1>2. pages \in Seq(Sizes) /\ pages = <<>> /\ Len(pages) = 0 BY DEF IngestInit
<1>3. PageInv BY <1>2 DEF IngestInit, PageInv
<1>4. BudgetInv
  <2>1. MaxText \in Nat /\ MaxCharacters \in Nat /\ MaxBytes \in Nat /\ MaxPixels \in Nat
    BY SizesAreSizes
  <2> QED BY <1>1, <1>2, <2>1, NothingUsed DEF IngestInit, BudgetInv
<1>5. GuardInv BY DEF IngestInit, GuardInv
<1>6. SentInv BY DEF IngestInit, Init, SentInv
<1>7. budget \in Budgets
  BY DEF IngestInit, Budgets
<1> QED BY <1>1, <1>2, <1>3, <1>4, <1>5, <1>6, <1>7 DEF IngestInv, DocInv

\* Nothing is kept of a document that is refused.
LEMMA RefuseKeeps == ASSUME DocInv, Refuse PROVE DocInv'
BY DEF DocInv, Refuse

\* A page that is done adds to every budget what it has of it.
LEMMA FinishKeeps ==
    ASSUME DocInv, stage \in {"page", "ocr", "recognising"}, Len(pages) < count,
           NEW text \in Nat, Finish(text, page.image, page.raster)
    PROVE  DocInv'
<1> DEFINE p == Page(text, page.image, page.raster)
<1>1. CASE ~ TextFits(text) BY <1>1, RefuseKeeps DEF Finish
<1>2. CASE TextFits(text)
  <2>1. /\ budget' = WithText(budget, text) /\ pages' = Append(pages, p)
        /\ page' = NoPage /\ stage' = "page" /\ count' = count
    BY <1>2 DEF Finish
  <2>2. /\ p \in Sizes /\ p.text = text /\ p.image = page.image /\ p.raster = page.raster
        /\ page \in Sizes
    BY DEF Page, Sizes, DocInv
  <2> HIDE DEF p
  <2>3. PageInv /\ BudgetInv /\ pages \in Seq(Sizes)
    BY DEF DocInv
  <2>4. /\ pages' \in Seq(Sizes) /\ Len(pages') = Len(pages) + 1 /\ Len(pages) \in Nat
    BY <2>1, <2>2, <2>3, AppendedPage
  <2>5. page' \in Sizes /\ page'.raster = 0 BY <2>1 DEF NoPage, Page, Sizes
  <2>6. PageInv'
    <3>1. count \in 1..MaxPages BY <2>3 DEF PageInv
    <3>2. MaxPages \in Nat BY SizesAreSizes
    <3> QED BY <2>1, <2>4, <3>1, <3>2 DEF PageInv
  <2>7. /\ budget \in Budgets
        /\ PagePrefix \in Nat /\ MaxText \in Nat
    BY SizesAreSizes DEF DocInv
  <2>8. /\ TextOverhead \in Nat
        /\ TextOverhead = PagePrefix + (IF Cardinality(TextPages) > 0 THEN 2 ELSE 0)
    BY <2>3, <2>7 DEF BudgetInv, TextOverhead
  <2>9. /\ budget' \in Budgets
        /\ budget'.pixels = budget.pixels /\ budget'.bytes = budget.bytes
        /\ budget'.characters = budget.characters
        /\ budget'.text = IF text > 0 THEN budget.text + TextOverhead + text ELSE budget.text
        /\ budget'.textPages = IF text > 0 THEN budget.textPages + 1 ELSE budget.textPages
    <3>1. CASE text = 0 BY <2>1, <2>7, <3>1 DEF WithText
    <3>2. CASE text > 0
      <4>1. budget' = [budget EXCEPT !.text = budget.text + TextOverhead + text,
                                     !.textPages = budget.textPages + 1]
        BY <2>1, <3>2 DEF WithText
      <4>2. /\ budget.text + TextOverhead + text \in Nat /\ budget.textPages + 1 \in Nat
        BY <2>7, <2>8 DEF Budgets
      <4> QED BY <2>7, <3>2, <4>1, <4>2 DEF Budgets
    <3> QED BY <3>1, <3>2
  <2>10. budget'.text = DocumentText' /\ budget'.text <= MaxText
         /\ budget'.textPages = Cardinality(TextPages)'
    <3>1. LET before == Cardinality(TextPages) IN
          /\ before \in Nat /\ DocumentText \in Int
          /\ Cardinality(TextPages)' = IF text > 0 THEN before + 1 ELSE before
          /\ DocumentText' =
                IF text > 0
                THEN DocumentText + PagePrefix + text + (IF before > 0 THEN 2 ELSE 0)
                ELSE DocumentText
      BY <2>1, <2>2, <2>3, TextGrows
    <3>2. /\ budget.text = DocumentText /\ budget.text <= MaxText
          /\ budget.textPages = Cardinality(TextPages) /\ budget.text \in Nat
      BY <2>3, <2>7 DEF BudgetInv, Budgets
    <3>3. text > 0 => budget.text + TextOverhead + text <= MaxText
      BY <1>2, <2>7, <2>8, <3>2 DEF TextFits, Fits
    <3> QED BY <2>7, <2>8, <2>9, <3>1, <3>2, <3>3
  <2>11. /\ budget'.characters = DocumentImages' /\ budget'.characters <= MaxCharacters
         /\ budget'.bytes = PageTotal("image")' /\ budget'.bytes <= MaxBytes
         /\ budget'.pixels = PageTotal("raster")' /\ budget'.pixels <= MaxPixels
         /\ PageTotal("text")' <= budget'.text
    <3>1. page.image = IF stage \in {"ocr", "recognising"} THEN page.image ELSE 0
      BY <2>3 DEF PageInv, NoPage, Page
    <3>2. /\ budget.characters =
                DocumentImages + (IF page.image > 0 THEN Encoded(page.image) ELSE 0)
          /\ budget.characters <= MaxCharacters
          /\ budget.bytes = PageTotal("image") + page.image /\ budget.bytes <= MaxBytes
          /\ budget.pixels = PageTotal("raster") + page.raster /\ budget.pixels <= MaxPixels
          /\ PageTotal("text") <= budget.text
      BY <2>3, <3>1 DEF BudgetInv
    <3>3. /\ PageTotal("text") \in Int /\ PageTotal("text")' = PageTotal("text") + text
          /\ PageTotal("image")' = PageTotal("image") + page.image
          /\ PageTotal("raster")' = PageTotal("raster") + page.raster
      BY <2>1, <2>2, <2>3, TotalsGrow
    <3>4. DocumentImages' =
            DocumentImages + (IF page.image > 0 THEN Encoded(page.image) ELSE 0)
      BY <2>1, <2>2, <2>3, ImagesGrow
    <3>5. PageTotal("text")' <= budget'.text
      BY <2>7, <2>8, <2>9, <3>2, <3>3 DEF Budgets
    <3> QED BY <2>9, <3>2, <3>3, <3>4, <3>5
  <2>12. BudgetInv'
    <3>1. /\ DocumentImages' \in Int /\ PageTotal("image")' \in Int
          /\ PageTotal("raster")' \in Int
      BY <2>9, <2>11 DEF Budgets
    <3>2. stage' \notin {"ocr", "recognising"} BY <2>1
    <3>3. \A x \in Int : x = x + 0 OBVIOUS
    <3>4. /\ DocumentImages' = DocumentImages' + 0
          /\ PageTotal("image")' = PageTotal("image")' + 0
          /\ PageTotal("raster")' = PageTotal("raster")' + 0
      BY <3>1, <3>3, Zenon
    <3>5. /\ budget'.characters = DocumentImages' + 0
          /\ budget'.bytes = PageTotal("image")' + 0
          /\ budget'.pixels = PageTotal("raster")' + page'.raster
      BY <2>5, <2>11, <3>4, Zenon
    <3> QED BY <2>10, <2>11, <3>2, <3>5 DEF BudgetInv
  <2>13. GuardInv' BY <2>1 DEF GuardInv
  <2> QED BY <2>4, <2>5, <2>6, <2>9, <2>12, <2>13 DEF DocInv
<1> QED BY <1>1, <1>2

\* The totals are integers, whatever the pages.
LEMMA TotalsAreIntegers ==
    ASSUME DocInv, stage # "refused"
    PROVE  /\ PageTotal("text") \in Int /\ PageTotal("image") \in Int
           /\ PageTotal("raster") \in Int /\ DocumentImages \in Int
<1>1. pages \in Seq(Sizes) BY DEF DocInv
<1>2. ASSUME NEW i \in DOMAIN pages PROVE pages[i] \in Sizes BY <1>1
<1>3. IsFiniteSet(DOMAIN pages)
  <2>1. DOMAIN pages = 1..Len(pages) /\ Len(pages) \in Nat BY <1>1
  <2> QED BY <2>1, FS_Interval
<1>4. ASSUME NEW size \in {"text", "image", "raster"}
      PROVE  SumFunctionOnSet([i \in DOMAIN pages |-> pages[i][size]], DOMAIN pages) \in Int
  <2> DEFINE f == [i \in DOMAIN pages |-> pages[i][size]]
  <2>1. \A i \in DOMAIN pages : f[i] \in Int BY <1>2 DEF Sizes
  <2> HIDE DEF f
  <2>2. SumFunctionOnSet(f, DOMAIN pages) \in Int BY <1>3, <2>1, SumStep
  <2> QED BY <2>2 DEF f
<1>5. DocumentImages \in Int
  <2> DEFINE f == [i \in DOMAIN pages |-> Encoded(pages[i].image)]
             S == {i \in DOMAIN pages : pages[i].image > 0}
  <2>1. \A q \in Sizes : Encoded(q.image) \in Int BY EncodedLength DEF Sizes
  <2>2. \A i \in S : f[i] \in Int BY <1>2, <2>1
  <2>3. IsFiniteSet(S) BY <1>3, FS_Subset
  <2>4. DocumentImages = SumFunctionOnSet(f, S) BY DEF DocumentImages
  <2> HIDE DEF f, S
  <2> QED BY <2>2, <2>3, <2>4, SumStep
<1> QED BY <1>4, <1>5 DEF PageTotal

\* Up to the text of a page, which is reserved last, a step moves the pixels by what the
\* raster of the page grows, and the bytes and characters when its image is reserved.
LEMMA ReservingKeeps ==
    ASSUME DocInv, stage # "refused", pages' = pages, page' \in Sizes, budget' \in Budgets,
           count' \in 1..MaxPages, Len(pages) < count',
           stage' \in {"rasterize", "render", "encode", "encoded", "ocr", "recognising"},
           stage' = "rasterize" => page'.raster = 0,
           budget'.text = budget.text, budget'.textPages = budget.textPages,
           budget'.pixels = PageTotal("raster") + page'.raster, budget'.pixels <= MaxPixels,
           budget'.bytes = PageTotal("image") + (IF stage' \in {"ocr", "recognising"}
                                                 THEN page'.image ELSE 0),
           budget'.bytes <= MaxBytes,
           budget'.characters = DocumentImages + (IF stage' \in {"ocr", "recognising"}
                                                  THEN Encoded(page'.image) ELSE 0),
           budget'.characters <= MaxCharacters,
           IF stage' \in {"rasterize", "render", "encode"} THEN page'.image = 0 ELSE page'.image > 0,
           GuardInv'
    PROVE  DocInv'
<1>1. PageInv'
  <2>1. MaxPages \in Nat /\ Len(pages) \in Nat BY SizesAreSizes DEF DocInv
  <2> QED BY <2>1 DEF PageInv
<1>2. BudgetInv'
  <2> DEFINE is == IF stage' \in {"ocr", "recognising"} THEN page'.image ELSE 0
  <2>1. /\ budget.text = DocumentText /\ budget.text <= MaxText
        /\ budget.textPages = Cardinality(TextPages) /\ PageTotal("text") <= budget.text
    BY DEF DocInv, BudgetInv
  <2>2. is > 0 <=> stage' \in {"ocr", "recognising"} OBVIOUS
  <2>3. budget'.characters = DocumentImages + (IF is > 0 THEN Encoded(is) ELSE 0)
    BY <2>2
  <2> QED BY <2>1, <2>3, SameTotals DEF BudgetInv
<1> QED BY <1>1, <1>2 DEF DocInv

\* What every step that reads starts from.
LEMMA ReadingState ==
    ASSUME DocInv, stage # "refused"
    PROVE  /\ PageInv /\ BudgetInv /\ GuardInv /\ pages \in Seq(Sizes) /\ Len(pages) \in Nat
           /\ page \in Sizes /\ page.text \in Nat /\ page.image \in Nat /\ page.raster \in Nat
           /\ budget \in Budgets /\ budget.pixels \in Nat /\ budget.bytes \in Nat
           /\ budget.characters \in Nat /\ budget.text \in Nat /\ budget.textPages \in Nat
           /\ MaxPages \in Nat \ {0} /\ MaxPixels \in Nat /\ MaxBytes \in Nat
           /\ MaxCharacters \in Nat /\ MaxText \in Nat
           /\ Texts \subseteq Nat /\ Images \subseteq Nat \ {0} /\ Rasters \subseteq Nat \ {0}
<1>1. /\ PageInv /\ BudgetInv /\ GuardInv /\ pages \in Seq(Sizes) /\ page \in Sizes
      /\ budget \in Budgets
  BY DEF DocInv
<1>2. Len(pages) \in Nat BY <1>1
<1>3. page.text \in Nat /\ page.image \in Nat /\ page.raster \in Nat BY <1>1 DEF Sizes
<1>4. /\ budget.pixels \in Nat /\ budget.bytes \in Nat /\ budget.characters \in Nat
      /\ budget.text \in Nat /\ budget.textPages \in Nat
  BY <1>1 DEF Budgets
<1>5. /\ MaxPages \in Nat \ {0} /\ MaxPixels \in Nat /\ MaxBytes \in Nat
      /\ MaxCharacters \in Nat /\ MaxText \in Nat
      /\ Texts \subseteq Nat /\ Images \subseteq Nat \ {0} /\ Rasters \subseteq Nat \ {0}
  BY SizesAreSizes
<1> QED BY <1>1, <1>2, <1>3, <1>4, <1>5

\* The text of the page still fits while the budget of the text stays as it is.
LEMMA TextStillFits ==
    ASSUME budget'.text = budget.text, budget'.textPages = budget.textPages,
           TextFits(page.text), page'.text = page.text
    PROVE  TextFits(page.text)'
BY DEF TextFits, TextOverhead

LEMMA OpenPdfKeeps == ASSUME DocInv, OpenPdf PROVE DocInv'
<1>1. /\ stage = "closed" /\ stage' = "page" /\ count' \in 1..MaxPages
      /\ pages' = pages /\ budget' = budget /\ page' = page
  BY DEF OpenPdf, Reading
<1>2. PageInv /\ BudgetInv /\ MaxPages \in Nat \ {0} /\ Len(pages) \in Nat
  BY <1>1, ReadingState
<1>3. pages = <<>> /\ page = NoPage BY <1>1, <1>2 DEF PageInv
<1>4. PageInv' BY <1>1, <1>2, <1>3 DEF PageInv
<1>5. BudgetInv' BY <1>1, <1>2, SameTotals DEF BudgetInv
<1>6. GuardInv' BY <1>1 DEF GuardInv
<1> QED BY <1>1, <1>4, <1>5, <1>6 DEF DocInv

LEMMA OpenImageKeeps == ASSUME DocInv, OpenImage PROVE DocInv'
<1>1. CASE Refuse BY <1>1, RefuseKeeps
<1>2. ASSUME NEW raster \in Rasters, Fits(budget.pixels, raster, MaxPixels),
             budget' = [budget EXCEPT !.pixels = @ + raster], page' = Page(0, 0, raster),
             count' = 1, stage = "closed", stage' = "encode", pages' = pages
      PROVE  DocInv'
  <2>1. /\ BudgetInv /\ PageInv /\ budget \in Budgets /\ budget.pixels \in Nat
        /\ MaxPages \in Nat \ {0} /\ MaxPixels \in Nat /\ raster \in Nat
    BY <1>2, ReadingState
  <2>2. /\ budget' \in Budgets /\ budget'.pixels = budget.pixels + raster
        /\ budget'.text = budget.text /\ budget'.textPages = budget.textPages
        /\ budget'.bytes = budget.bytes /\ budget'.characters = budget.characters
    BY <1>2, <2>1 DEF Budgets
  <2>3. /\ page' \in Sizes /\ page'.text = 0 /\ page'.image = 0 /\ page'.raster = raster
        /\ page.image = 0 /\ page.raster = 0 /\ pages = <<>> /\ Len(pages) = 0
    BY <1>2, <2>1 DEF Page, Sizes, PageInv, NoPage
  <2>4. /\ budget.bytes \in Nat /\ budget.bytes <= MaxBytes
        /\ budget.characters = DocumentImages + 0 /\ budget.characters <= MaxCharacters
    BY <1>2, <2>1 DEF BudgetInv, Budgets
  <2>5. budget'.pixels <= MaxPixels BY <1>2, <2>1, <2>2 DEF Fits
  <2>6. GuardInv' BY <1>2, <2>3 DEF GuardInv, TextFits
  <2>7. 1 \in 1..MaxPages BY <2>1
  <2>8. /\ budget'.pixels = PageTotal("raster") + page'.raster
        /\ budget'.bytes = PageTotal("image") + 0
    <3>1. PageTotal("raster") \in Int /\ PageTotal("image") \in Int
      BY <1>2, TotalsAreIntegers
    <3>2. /\ budget.pixels = PageTotal("raster") + page.raster
          /\ budget.bytes = PageTotal("image") + 0
      BY <1>2, <2>1 DEF BudgetInv
    <3> QED BY <2>1, <2>2, <2>3, <3>1, <3>2
  <2> QED BY <1>2, <2>2, <2>3, <2>4, <2>5, <2>6, <2>7, <2>8, ReservingKeeps
<1> QED BY <1>1, <1>2 DEF OpenImage, Reading

LEMMA NativeTextKeeps == ASSUME DocInv, NativeText PROVE DocInv'
<1>1. CASE Refuse BY <1>1, RefuseKeeps
<1>2. /\ stage = "page" /\ Len(pages) < count
      /\ PageInv /\ BudgetInv /\ budget \in Budgets /\ pages \in Seq(Sizes)
      /\ MaxPages \in Nat \ {0} /\ Texts \subseteq Nat
      /\ MaxText \in Nat /\ budget.text \in Nat
  BY ReadingState DEF NativeText, Reading
<1>3. page = NoPage /\ page.image = 0 /\ page.raster = 0 /\ count \in 1..MaxPages
  BY <1>2 DEF PageInv, NoPage, Page
<1>4. ASSUME NEW text \in Texts, Finish(text, 0, 0) PROVE DocInv'
  BY <1>2, <1>3, <1>4, FinishKeeps
<1>5. ASSUME NEW visited \in Texts, NEW text \in Texts, text <= visited,
             ~ (visited > TextLimit), page' = Page(text, 0, 0), stage' = "rasterize",
             UNCHANGED <<count, pages, budget>>
      PROVE  DocInv'
  <2>1. page' \in Sizes /\ page'.text = text /\ page'.image = 0 /\ page'.raster = 0
    BY <1>2, <1>5 DEF Page, Sizes
  <2>2. text <= TextLimit
    <3>1. TextLimit \in Int
      <4>1. PagePrefix \in Nat BY SizesAreSizes
      <4> QED BY <1>2, <4>1 DEF TextLimit, TextOverhead, AtLeast0
    <3> QED BY <1>2, <1>5, <3>1
  <2>3. TextFits(text) BY <1>2, <2>2, TextLimitIsTight
  <2>4. GuardInv'
    <3>1. TextFits(page.text)' BY <1>5, <2>1, <2>3 DEF TextFits, TextOverhead
    <3> QED BY <1>5, <3>1 DEF GuardInv
  <2>5. /\ budget.characters = DocumentImages + 0 /\ budget.characters <= MaxCharacters
        /\ budget.bytes <= MaxBytes /\ budget.pixels <= MaxPixels
        /\ budget.pixels \in Nat /\ budget.bytes \in Nat
    BY <1>2, <1>3 DEF BudgetInv, Budgets
  <2>6. /\ budget'.pixels = PageTotal("raster") + page'.raster
        /\ budget'.bytes = PageTotal("image") + 0
    BY <1>2, <1>3, <1>5, <2>1 DEF BudgetInv
  <2> QED BY <1>2, <1>3, <1>5, <2>1, <2>4, <2>5, <2>6, ReservingKeeps
<1> QED BY <1>1, <1>4, <1>5 DEF NativeText

\* A page takes what its raster grows by.
LEMMA RasterKeeps ==
    ASSUME DocInv, stage \in {"rasterize", "render"}, NEW raster \in Nat, NEW total \in Nat,
           total = budget.pixels + (raster - page.raster), total <= MaxPixels,
           budget' = [budget EXCEPT !.pixels = total], page' = [page EXCEPT !.raster = raster],
           UNCHANGED <<count, pages>>, stage' \in {"render", "encode"}
    PROVE  DocInv'
<1>1. /\ PageInv /\ BudgetInv /\ GuardInv /\ page \in Sizes /\ budget \in Budgets
      /\ MaxPages \in Nat \ {0} /\ page.raster \in Nat /\ budget.pixels \in Nat
      /\ stage # "refused"
  BY ReadingState
<1>2. /\ page' \in Sizes /\ page'.raster = raster /\ page'.text = page.text
      /\ page'.image = 0 /\ count \in 1..MaxPages /\ Len(pages) < count
  BY <1>1 DEF Sizes, PageInv
<1>3. /\ budget' \in Budgets /\ budget'.pixels = total /\ budget'.text = budget.text
      /\ budget'.textPages = budget.textPages /\ budget'.bytes = budget.bytes
      /\ budget'.characters = budget.characters
  BY <1>1 DEF Budgets
<1>4. GuardInv'
  <2>1. TextFits(page.text) BY <1>1 DEF GuardInv
  <2>2. TextFits(page.text)' BY <1>2, <1>3, <2>1, TextStillFits
  <2> QED BY <2>2 DEF GuardInv
<1>5. budget'.pixels = PageTotal("raster") + page'.raster
  <2>1. PageTotal("raster") \in Int BY <1>1, TotalsAreIntegers
  <2>2. budget.pixels = PageTotal("raster") + page.raster BY <1>1 DEF BudgetInv
  <2>3. total = PageTotal("raster") + raster BY <1>1, <2>1, <2>2
  <2> QED BY <1>2, <1>3, <2>3
<1>6. /\ budget'.bytes = PageTotal("image") + 0 /\ budget'.bytes <= MaxBytes
      /\ budget'.characters = DocumentImages + 0 /\ budget'.characters <= MaxCharacters
  BY <1>1, <1>3 DEF BudgetInv
<1> QED BY <1>1, <1>2, <1>3, <1>4, <1>5, <1>6, ReservingKeeps

LEMMA ReservePixelsKeeps == ASSUME DocInv, ReservePixels PROVE DocInv'
<1>1. CASE Refuse BY <1>1, RefuseKeeps
<1>2. ASSUME NEW declared \in Rasters, Fits(budget.pixels, declared, MaxPixels),
             budget' = [budget EXCEPT !.pixels = @ + declared],
             page' = [page EXCEPT !.raster = declared], stage = "rasterize",
             stage' = "render", UNCHANGED <<count, pages>>
      PROVE  DocInv'
  <2>1. declared \in Nat /\ budget.pixels \in Nat /\ MaxPixels \in Nat /\ page.raster = 0
    BY <1>2, ReadingState DEF PageInv
  <2> DEFINE total == budget.pixels + declared
  <2>2. /\ total \in Nat /\ total = budget.pixels + (declared - page.raster)
        /\ total <= MaxPixels
    BY <1>2, <2>1 DEF Fits
  <2>3. budget' = [budget EXCEPT !.pixels = total] BY <1>2
  <2> HIDE DEF total
  <2> QED BY <1>2, <2>1, <2>2, <2>3, RasterKeeps
<1> QED BY <1>1, <1>2 DEF ReservePixels, Reading

\* The renderer's page and its bitmap are paid for if they are larger than what is paid.
LEMMA RenderKeeps == ASSUME DocInv, Render PROVE DocInv'
<1>1. CASE Refuse BY <1>1, RefuseKeeps
<1>2. ASSUME NEW rendered \in Rasters, NEW actual \in Rasters,
             RasterTotal(page.raster, rendered, actual) <= MaxPixels,
             budget' = [budget EXCEPT
                          !.pixels = RasterTotal(page.raster, rendered, actual)],
             page' = [page EXCEPT !.raster = Max({@, rendered, actual})], stage = "render",
             stage' = "encode", UNCHANGED <<count, pages>>
      PROVE  DocInv'
  <2>1. /\ rendered \in Nat /\ actual \in Nat /\ budget.pixels \in Nat /\ page.raster \in Nat
    BY <1>2, ReadingState
  <2> DEFINE total == RasterTotal(page.raster, rendered, actual)
             raster == Max({page.raster, rendered, actual})
  <2>2. /\ raster \in {page.raster, rendered, actual}
        /\ raster >= page.raster /\ raster >= rendered /\ raster >= actual
    <3>1. page.raster \in Int /\ rendered \in Int /\ actual \in Int BY <2>1
    <3> QED BY <3>1, MaxOfThree, Zenon
  <2>3. Max({page.raster, rendered})
          = IF page.raster >= rendered THEN page.raster ELSE rendered
    BY <2>1, MaxOfTwo
  <2>4. page' = [page EXCEPT !.raster = raster] BY <1>2
  <2>5. budget' = [budget EXCEPT !.pixels = total] /\ total <= MaxPixels BY <1>2
  <2> HIDE DEF raster
  <2>6. total \in Nat /\ total = budget.pixels + (raster - page.raster)
    BY <2>1, <2>2, <2>3 DEF RasterTotal, AtLeast0
  <2>7. raster \in Nat BY <2>1, <2>2
  <2> HIDE DEF total
  <2> QED BY <1>2, <2>4, <2>5, <2>6, <2>7, RasterKeeps
<1> QED BY <1>1, <1>2 DEF Render, Reading

LEMMA EncodeKeeps == ASSUME DocInv, Encode PROVE DocInv'
<1>1. CASE Refuse BY <1>1, RefuseKeeps
<1>2. ASSUME NEW image \in Images, image <= WriteLimit,
             page' = [page EXCEPT !.image = image], stage = "encode", stage' = "encoded",
             UNCHANGED <<count, pages, budget>>
      PROVE  DocInv'
  <2>1. /\ PageInv /\ BudgetInv /\ GuardInv /\ page \in Sizes /\ budget \in Budgets
        /\ MaxPages \in Nat \ {0} /\ image \in Nat \ {0}
    BY <1>2, ReadingState
  <2>2. /\ page' \in Sizes /\ page'.raster = page.raster /\ page'.text = page.text
        /\ page'.image = image /\ count \in 1..MaxPages /\ Len(pages) < count
    BY <1>2, <2>1 DEF Sizes, PageInv
  <2>3. GuardInv'
    <3>1. TextFits(page.text) BY <1>2, <2>1 DEF GuardInv
    <3>2. TextFits(page.text)' BY <1>2, <2>2, <3>1, TextStillFits
    <3>3. budget.bytes <= MaxBytes BY <2>1 DEF BudgetInv
    <3>4. ImageFits(image) BY <1>2, <2>1, <3>3, WriteLimitIsTight
    <3>5. ImageFits(page.image)' BY <1>2, <2>2, <3>4 DEF ImageFits
    <3> QED BY <1>2, <3>2, <3>5 DEF GuardInv
  <2>4. /\ budget.bytes = PageTotal("image") + 0 /\ budget.bytes <= MaxBytes
        /\ budget.characters = DocumentImages + 0 /\ budget.characters <= MaxCharacters
        /\ budget.pixels = PageTotal("raster") + page.raster /\ budget.pixels <= MaxPixels
    BY <1>2, <2>1 DEF BudgetInv
  <2>5. image > 0 BY <2>1
  <2> QED BY <1>2, <2>1, <2>2, <2>3, <2>4, <2>5, ReservingKeeps
<1> QED BY <1>1, <1>2 DEF Encode, Reading

LEMMA ReserveImageKeeps == ASSUME DocInv, ReserveImage PROVE DocInv'
<1>1. CASE Refuse BY <1>1, RefuseKeeps
<1>2. ASSUME ImageFits(page.image), stage = "encoded", stage' = "ocr",
             budget' = [budget EXCEPT !.bytes = @ + page.image,
                                      !.characters = @ + UriLength(page.image)],
             UNCHANGED <<count, pages, page>>
      PROVE  DocInv'
  <2>1. /\ PageInv /\ BudgetInv /\ page \in Sizes /\ budget \in Budgets
        /\ MaxPages \in Nat \ {0} /\ page.image \in Nat /\ MaxBytes \in Nat
        /\ MaxCharacters \in Nat /\ budget.bytes \in Nat /\ budget.characters \in Nat
    BY <1>2, ReadingState
  <2>2. page.image > 0 /\ count \in 1..MaxPages /\ Len(pages) < count
    BY <1>2, <2>1 DEF PageInv
  <2>3. Encoded(page.image) = UriLength(page.image) /\ UriLength(page.image) \in Nat
    BY <2>1, EncodedLength
  <2> DEFINE bytes == budget.bytes + page.image
             characters == budget.characters + UriLength(page.image)
  <2>4. bytes \in Nat /\ characters \in Nat BY <2>1, <2>3
  <2>5. bytes <= MaxBytes /\ characters <= MaxCharacters
    BY <1>2, <2>1, <2>3 DEF ImageFits, Fits
  <2>6. budget' = [budget EXCEPT !.bytes = bytes, !.characters = characters] BY <1>2
  <2>7. /\ bytes = PageTotal("image") + page.image
        /\ characters = DocumentImages + Encoded(page.image)
        /\ budget.pixels = PageTotal("raster") + page.raster /\ budget.pixels <= MaxPixels
    <3>1. PageTotal("image") \in Int /\ DocumentImages \in Int
      BY <1>2, TotalsAreIntegers
    <3>2. budget.bytes = PageTotal("image") + 0 /\ budget.characters = DocumentImages + 0
      BY <1>2, <2>1 DEF BudgetInv
    <3>3. budget.pixels = PageTotal("raster") + page.raster /\ budget.pixels <= MaxPixels
      BY <2>1 DEF BudgetInv
    <3> QED BY <2>1, <2>3, <3>1, <3>2, <3>3
  <2> HIDE DEF bytes, characters
  <2>8. /\ budget' \in Budgets /\ budget'.pixels = budget.pixels
        /\ budget'.bytes = bytes /\ budget'.characters = characters
        /\ budget'.text = budget.text /\ budget'.textPages = budget.textPages
    BY <2>1, <2>4, <2>6 DEF Budgets
  <2>9. GuardInv' BY <1>2 DEF GuardInv
  <2> QED BY <1>2, <2>1, <2>2, <2>5, <2>7, <2>8, <2>9, ReservingKeeps
<1> QED BY <1>1, <1>2 DEF ReserveImage, Reading

LEMMA RecogniseKeeps == ASSUME DocInv, Recognise PROVE DocInv'
<1>1. stage = "ocr" /\ stage' = "recognising" /\ UNCHANGED <<count, pages, budget, page>>
  BY DEF Recognise
<1>2. PageInv /\ BudgetInv BY <1>1 DEF DocInv
<1>3. PageInv' BY <1>1, <1>2 DEF PageInv
<1>4. BudgetInv' BY <1>1, <1>2, SameTotals DEF BudgetInv
<1>5. GuardInv' BY <1>1 DEF GuardInv
<1> QED BY <1>1, <1>3, <1>4, <1>5 DEF DocInv

LEMMA RecognisedKeeps == ASSUME DocInv, Recognised PROVE DocInv'
<1>1. stage \in {"ocr", "recognising"} BY DEF Recognised, Reading
<1>2. /\ PageInv /\ page.text \in Nat /\ Texts \subseteq Nat /\ 0 \in Texts
  BY <1>1, ReadingState, SizesAreSizes
<1>3. PICK text \in IF stage = "ocr" THEN {0} ELSE Texts :
          Finish(IF text = 0 THEN page.text ELSE text, page.image, page.raster)
  BY DEF Recognised
<1>4. (IF text = 0 THEN page.text ELSE text) \in Nat BY <1>2
<1>5. Len(pages) < count BY <1>1, <1>2 DEF PageInv
<1> QED BY <1>1, <1>3, <1>4, <1>5, FinishKeeps

LEMMA ReadingEndsKeeps == ASSUME DocInv, ReadingEnds PROVE DocInv'
<1>1. CASE Refuse BY <1>1, RefuseKeeps
<1>2. ASSUME stage = "page", Len(pages) = count, stage' = "accepted",
             \E i \in DOMAIN pages : HasContent(pages[i]),
             UNCHANGED <<count, pages, budget, page>>
      PROVE  DocInv'
  <2>1. PageInv /\ BudgetInv BY <1>2 DEF DocInv
  <2>2. PageInv' BY <1>2, <2>1 DEF PageInv, HasContent
  <2>3. BudgetInv' BY <1>2, <2>1, SameTotals DEF BudgetInv
  <2>4. GuardInv' BY <1>2 DEF GuardInv
  <2> QED BY <1>2, <2>2, <2>3, <2>4 DEF DocInv
<1> QED BY <1>1, <1>2 DEF ReadingEnds, Reading

-----------------------------------------------------------------------------
(* The theorems of Ingestion *)

LEMMA ReadKeeps == ASSUME DocInv, Read PROVE DocInv'
<1>1. CASE OpenRefused BY <1>1, RefuseKeeps DEF OpenRefused
<1>2. CASE OpenPdf BY <1>2, OpenPdfKeeps
<1>3. CASE OpenImage BY <1>3, OpenImageKeeps
<1>4. CASE NativeText BY <1>4, NativeTextKeeps
<1>5. CASE ReservePixels BY <1>5, ReservePixelsKeeps
<1>6. CASE Render BY <1>6, RenderKeeps
<1>7. CASE Encode BY <1>7, EncodeKeeps
<1>8. CASE ReserveImage BY <1>8, ReserveImageKeeps
<1>9. CASE Recognise BY <1>9, RecogniseKeeps
<1>10. CASE Recognised BY <1>10, RecognisedKeeps
<1>11. CASE ReadingEnds BY <1>11, ReadingEndsKeeps
<1> QED BY <1>1, <1>2, <1>3, <1>4, <1>5, <1>6, <1>7, <1>8, <1>9, <1>10, <1>11 DEF Read

LEMMA DocumentStays == ASSUME DocInv, UNCHANGED docVars PROVE DocInv'
<1>1. /\ stage' = stage /\ count' = count /\ pages' = pages /\ budget' = budget
      /\ page' = page
  BY DEF docVars
<1>2. ASSUME stage # "refused" PROVE PageInv' /\ BudgetInv' /\ GuardInv'
  <2>1. PageInv /\ BudgetInv /\ GuardInv BY <1>2 DEF DocInv
  <2>2. PageInv' BY <1>1, <2>1 DEF PageInv
  <2>3. BudgetInv' BY <1>1, <2>1, SameTotals DEF BudgetInv
  <2>4. GuardInv' BY <1>1, <2>1 DEF GuardInv, TextFits, TextOverhead, ImageFits
  <2> QED BY <2>2, <2>3, <2>4
<1> QED BY <1>1, <1>2 DEF DocInv

\* Reading goes on in a worker that has sent nothing, and starts at most an OCR program.
LEMMA ReadingStaysInside ==
    ASSUME Read PROVE worker = "working" /\ UNCHANGED <<worker, answer>> /\ [StartOcr]_vars
<1>1. CASE Recognise BY <1>1 DEF Recognise, StartOcr, pipeVars
<1>2. CASE ~ Recognise
  BY <1>2 DEF Read, OpenRefused, OpenPdf, OpenImage, NativeText, ReservePixels, Render,
     Encode, ReserveImage, Recognised, ReadingEnds, Reading, vars, workerVars, pipeVars
<1> QED BY <1>1, <1>2

LEMMA SentKeeps == ASSUME IngestInv, [IngestNext]_allVars PROVE SentInv'
<1> USE DEF IngestInv, SentInv
<1>1. CASE Server /\ UNCHANGED docVars
  BY <1>1 DEF Server, PollReady, PollTimesOut, Receive, ReceiveFails, Joined,
     JoinTimesOut, StopDead, StopAlive, Stopped, TerminateTimesOut, KillTimesOut,
     Reap, workerVars, pipeVars, docVars
<1>2. CASE (LeadGroup \/ OcrEnds \/ SendRest \/ WorkerEnds) /\ UNCHANGED docVars
  BY <1>2 DEF LeadGroup, OcrEnds, SendRest, WorkerEnds, pipeVars, docVars
<1>3. CASE Read BY <1>3, ReadingStaysInside
<1>4. CASE Send BY <1>4 DEF Send, SendAtOnce, SendHeader, docVars
<1>5. CASE UNCHANGED allVars BY <1>5 DEF allVars, vars, workerVars, pipeVars, docVars
<1> QED BY <1>1, <1>2, <1>3, <1>4, <1>5 DEF IngestNext

\* The invariant of the budgets: each is what the pages read so far and the page under
\* way have used, and within its limit; nothing is sent before the document is accepted.
THEOREM IngestInvariant == IngestSpec => []IngestInv
<1>1. IngestInit => IngestInv BY InitIngest
<1>2. IngestInv /\ [IngestNext]_allVars => IngestInv'
  <2> SUFFICES ASSUME IngestInv, [IngestNext]_allVars PROVE IngestInv'
    OBVIOUS
  <2>1. DocInv BY DEF IngestInv
  <2>2. CASE Read BY <2>1, <2>2, ReadKeeps, SentKeeps DEF IngestInv
  <2>3. CASE UNCHANGED docVars BY <2>1, <2>3, DocumentStays, SentKeeps DEF IngestInv
  <2> QED BY <2>2, <2>3 DEF IngestNext, Send, allVars
<1> QED BY <1>1, <1>2, PTL DEF IngestSpec

\* Between two pages every budget is what the pages have used, and what a guard of
\* extract_document has let through is never refused when it is reserved.
THEOREM BudgetsAreKept == IngestSpec => []BudgetsAreExact
<1>1. IngestInv => BudgetsAreExact
  <2> SUFFICES ASSUME IngestInv PROVE BudgetsAreExact OBVIOUS
  <2>1. CASE stage = "refused" BY <2>1 DEF BudgetsAreExact
  <2>2. CASE stage # "refused"
    <3>1. PageInv /\ BudgetInv /\ GuardInv BY <2>2 DEF IngestInv, DocInv
    <3>2. ASSUME stage \in {"page", "accepted"}
          PROVE  /\ budget.text = DocumentText /\ budget.characters = DocumentImages
                 /\ budget.bytes = PageTotal("image") /\ budget.pixels = PageTotal("raster")
      <4>1. page.raster = 0 BY <3>1, <3>2 DEF PageInv, NoPage, Page
      <4>2. /\ budget.text = DocumentText /\ budget.characters = DocumentImages + 0
            /\ budget.bytes = PageTotal("image") + 0
            /\ budget.pixels = PageTotal("raster") + 0
        BY <3>1, <3>2, <4>1 DEF BudgetInv
      <4>3. /\ PageTotal("image") \in Int /\ PageTotal("raster") \in Int
            /\ DocumentImages \in Int
        BY <2>2, TotalsAreIntegers DEF IngestInv
      <4> QED BY <4>2, <4>3
    <3> QED BY <3>1, <3>2 DEF BudgetsAreExact, GuardInv
  <2> QED BY <2>1, <2>2
<1> QED BY <1>1, IngestInvariant, PTL

LEMMA ShareOfTheFrame ==
    ASSUME NEW n \in Nat, NEW m \in Nat, n <= m, NEW overhead \in Nat
    PROVE  overhead * n <= m * overhead
OBVIOUS

\* A document the worker accepts is lost to no limit further on: the message of the
\* worker, the second check in the server, the limits of the gateway.
THEOREM AcceptedDocumentsAreTaken == IngestSpec => []AcceptedDocumentsPass
<1>1. IngestInv => AcceptedDocumentsPass
  <2> SUFFICES ASSUME IngestInv, stage = "accepted" PROVE MessageFits /\ Decodes /\ GatewayTakes
    BY DEF AcceptedDocumentsPass, IngestInv, SentInv
  <2>1. PageInv /\ BudgetInv /\ DocInv BY DEF IngestInv, DocInv
  <2>2. PageTotal("text") \in Int /\ DocumentImages \in Int BY <2>1, TotalsAreIntegers
  <2>3. /\ DocumentText = budget.text /\ budget.text \in Nat /\ budget.text <= MaxText
        /\ budget.characters = DocumentImages + 0 /\ budget.characters <= MaxCharacters
        /\ PageTotal("text") <= budget.text
    BY <2>1, ReadingState DEF BudgetInv
  <2>4. /\ Len(pages) \in 1..MaxPages /\ Len(pages) \in Nat
        /\ \E i \in DOMAIN pages : HasContent(pages[i])
    BY <2>1 DEF PageInv
  <2>5. /\ MaxText \in Nat /\ MaxCharacters \in Nat /\ MaxPages \in Nat /\ MaxMessage \in Nat
        /\ PageOverhead \in Nat /\ GatewayText \in Nat /\ GatewayImages \in Nat
    BY SizesAreSizes
  <2>6. MessageFits
    <3> DEFINE frame == PageOverhead * Len(pages)
               frames == MaxPages * PageOverhead
    <3>1. frame <= frames BY <2>4, <2>5, ShareOfTheFrame
    <3>2. frame \in Int /\ frames \in Int BY <2>4, <2>5
    <3>3. MaxCharacters + 6 * MaxText + frames <= MaxMessage BY MessageHasRoom
    <3> HIDE DEF frame, frames
    <3>4. DocumentImages + 6 * PageTotal("text") + frame <= MaxMessage
      BY <2>2, <2>3, <2>5, <3>1, <3>2, <3>3
    <3> QED BY <3>4 DEF MessageFits, frame
  <2>7. DocumentImages <= MaxCharacters BY <2>2, <2>3
  <2>8. Decodes BY <2>3, <2>4, <2>7 DEF Decodes
  <2>9. GatewayTakes
    BY <2>2, <2>3, <2>5, <2>7, LimitsAreBelowTheGateways DEF GatewayTakes
  <2> QED BY <2>6, <2>8, <2>9
<1> QED BY <1>1, IngestInvariant, PTL

\* What a worker does that reads a document is what IngestWorker lets a worker do: a step
\* of reading is no step of the call, or starts the OCR program.
THEOREM IngestionIsAWorker == IngestSpec => Spec
<1>1. IngestInit => Init BY DEF IngestInit
<1>2. [IngestNext]_allVars => [Next]_vars
  <2> SUFFICES ASSUME [IngestNext]_allVars PROVE [Next]_vars OBVIOUS
  <2>1. CASE Server BY <2>1 DEF Next
  <2>2. CASE LeadGroup \/ OcrEnds \/ SendRest \/ WorkerEnds BY <2>2 DEF Next, Worker
  <2>3. CASE Read BY <2>3, ReadingStaysInside DEF Next, Worker
  <2>4. CASE Send BY <2>4 DEF Send, Next, Worker
  <2>5. CASE UNCHANGED allVars BY <2>5 DEF allVars
  <2> QED BY <2>1, <2>2, <2>3, <2>4, <2>5 DEF IngestNext
<1> QED BY <1>1, <1>2, PTL DEF IngestSpec, Spec

\* What the server knows of its worker it knows of the worker that reads, and it signals
\* that worker or nobody.
COROLLARY ReadingKeepsTheCall ==
    IngestSpec => /\ [](DocumentIsFromACleanExit /\ WorkerIsGone /\ OcrIsLeftByTheDead)
                  /\ SignalsReachTheWorker
<1>1. CallInv => DocumentIsFromACleanExit /\ WorkerIsGone /\ OcrIsLeftByTheDead
  BY DEF CallInv
<1> QED BY <1>1, CallInvariant, SignalsAreSafe, IngestionIsAWorker, PTL
=============================================================================
