----------------------------- MODULE Ingestion -----------------------------
(***************************************************************************)
(* What the worker of IngestWorker does while it is "working": reading the *)
(* document page by page within the budgets of waysplit/ingest.py, and     *)
(* what becomes of the document in the server, which checks it once more,  *)
(* and in the model gateway, which has limits of its own.                  *)
(*                                                                         *)
(* Texts, images and rasters are their sizes: characters, bytes, pixels.   *)
(* The parsers, the renderer, the encoder and the OCR program are external *)
(* and return any size.                                                    *)
(***************************************************************************)
EXTENDS IngestWorker, Naturals, Sequences, FiniteSetsExt

CONSTANTS
    Texts, Images, Rasters,  \* sizes of texts (0 with them), of encoded images, of rasters
    MaxPages,
    MaxPagePixels,           \* _MAX_RENDER_PIXELS
    MaxPixels, MaxBytes, MaxCharacters, MaxText,  \* IngestionLimits
    Useful,                  \* _MIN_USEFUL_PAGE_TEXT
    UriPrefix, PagePrefix,   \* lengths of "data:...;base64," and of "--- PAGE n ---\n"
    PageOverhead,            \* what a page and its warning add to the message at most
    MaxMessage,              \* DEFAULT_MAX_WORKER_MESSAGE_BYTES
    GatewayText, GatewayImages  \* _MAX_PROMPT_CHARACTERS, _MAX_IMAGE_CHARACTERS

ASSUME SizesAreSizes ==
    /\ Texts \subseteq Nat /\ 0 \in Texts
    /\ Images \subseteq Nat \ {0} /\ Rasters \subseteq Nat \ {0}
    /\ {MaxPagePixels, MaxPixels, MaxBytes, MaxCharacters, MaxText, Useful, UriPrefix,
        PagePrefix, PageOverhead, MaxMessage, GatewayText, GatewayImages} \subseteq Nat
    /\ MaxPages \in Nat \ {0}

\* "They deliberately sit below the model gateway's request limits": 120,000 and
\* 36 MiB against 120,000 and 40,000,000 characters.
ASSUME LimitsAreBelowTheGateways == MaxText <= GatewayText /\ MaxCharacters <= GatewayImages

\* A character is at most six bytes of JSON: 36 MiB, 6 * 120,000 bytes and some 200
\* for each of up to 100 pages are less than 40 MiB.
ASSUME MessageHasRoom == MaxCharacters + 6 * MaxText + MaxPages * PageOverhead <= MaxMessage

VARIABLES
    stage,   \* where extract_document is
    count,   \* pages of the document; 0 before it is open
    pages,   \* the pages that have been read
    budget,  \* _IngestionBudget
    page     \* what is known of the page that is being read

docVars == <<stage, count, pages, budget, page>>
allVars == <<vars, docVars>>

Page(text, image, raster) == [text |-> text, image |-> image, raster |-> raster]

NoPage == Page(0, 0, 0)

IngestInit ==
    /\ Init
    /\ stage = "closed"
    /\ count = 0
    /\ pages = <<>>
    /\ budget = [pixels |-> 0, bytes |-> 0, characters |-> 0, text |-> 0, textPages |-> 0]
    /\ page = NoPage

-----------------------------------------------------------------------------
(* The arithmetic of the budgets *)

\* _checked_total does not raise.
Fits(current, additional, maximum) ==
    additional <= maximum /\ current <= maximum - additional

\* _data_uri_length: four characters for every three bytes begun.
UriLength(bytes) == UriPrefix + 4 * ((bytes + 2) \div 3)

ImageFits(bytes) ==
    /\ Fits(budget.bytes, bytes, MaxBytes)
    /\ Fits(budget.characters, UriLength(bytes), MaxCharacters)

AtLeast0(a, b) == IF a > b THEN a - b ELSE 0

\* Fault: a group that is begun counts for the bytes that are left.
WriteLimitRoundedUp ==
    LET groups == (AtLeast0(MaxCharacters - budget.characters, UriPrefix) + 3) \div 4 IN
    Min({MaxBytes - budget.bytes, 3 * groups})

\* next_image_write_limit.
WriteLimit ==
    LET groups == AtLeast0(MaxCharacters - budget.characters, UriPrefix) \div 4 IN
    Min({MaxBytes - budget.bytes, 3 * groups})

\* Fault: the blank lines between pages are not counted.
TextOverheadOfFirst == PagePrefix

\* The heading of a page, and the blank line before it.
TextOverhead == PagePrefix + (IF budget.textPages > 0 THEN 2 ELSE 0)

\* next_text_payload_limit.
TextLimit == AtLeast0(MaxText - budget.text, TextOverhead)

TextFits(text) == text = 0 \/ Fits(budget.text, TextOverhead + text, MaxText)

WithText(b, text) ==
    IF text = 0 THEN b
    ELSE [b EXCEPT !.text = @ + TextOverhead + text, !.textPages = @ + 1]

\* declared pixels are reserved; the sizes of the renderer's page and of its bitmap
\* add what they have in excess.
RasterTotal(declared, rendered, actual) ==
    budget.pixels + AtLeast0(rendered, declared)
                  + AtLeast0(actual, Max({declared, rendered}))

-----------------------------------------------------------------------------
(* extract_document, in the worker *)

Reading(s) == worker = "working" /\ ocr = "none" /\ NotSignalled /\ stage = s

\* DocumentError, for which nothing is kept.
Refuse == stage' = "refused" /\ UNCHANGED <<count, pages, budget, page>>

\* A file that is encrypted, damaged or of an unknown type, or has too many pages.
OpenRefused == Reading("closed") /\ Refuse /\ UNCHANGED vars

OpenPdf ==
    /\ Reading("closed")
    /\ count' \in 1..MaxPages
    /\ stage' = "page"
    /\ UNCHANGED <<pages, budget, page>>
    /\ UNCHANGED vars

\* probe.width * probe.height, of which Pillow takes as many as for a page.
OpenImage ==
    /\ Reading("closed")
    /\ \E raster \in Rasters :
          IF raster <= MaxPagePixels /\ Fits(budget.pixels, raster, MaxPixels)
          THEN /\ budget' = [budget EXCEPT !.pixels = @ + raster]
               /\ page' = Page(0, 0, raster)
               /\ count' = 1
               /\ stage' = "encode"
               /\ UNCHANGED pages
          ELSE Refuse
    /\ UNCHANGED vars

\* The page is done, and its text is reserved.
Finish(text, image, raster) ==
    IF TextFits(text)
    THEN /\ budget' = WithText(budget, text)
         /\ pages' = Append(pages, Page(text, image, raster))
         /\ page' = NoPage
         /\ stage' = "page"
         /\ UNCHANGED count
    ELSE Refuse

\* _extract_native_page_text: the guard counts what is extracted, from which blanks
\* are then stripped.
NativeText ==
    /\ Reading("page") /\ Len(pages) < count
    /\ \E visited \in Texts, text \in Texts :
          /\ text <= visited
          /\ IF visited > TextLimit THEN Refuse
             ELSE IF text >= Useful THEN Finish(text, 0, 0)
             ELSE /\ page' = Page(text, 0, 0)
                  /\ stage' = "rasterize"
                  /\ UNCHANGED <<count, pages, budget>>
    /\ UNCHANGED vars

\* The pixels of the media box are reserved before anything is rendered.
ReservePixels ==
    /\ Reading("rasterize")
    /\ \E declared \in Rasters :
          IF declared <= MaxPagePixels /\ Fits(budget.pixels, declared, MaxPixels)
          THEN /\ budget' = [budget EXCEPT !.pixels = @ + declared]
               /\ page' = [page EXCEPT !.raster = declared]
               /\ stage' = "render"
               /\ UNCHANGED <<count, pages>>
          ELSE Refuse
    /\ UNCHANGED vars

\* _render_pdf_page, up to the bitmap.
Render ==
    /\ Reading("render")
    /\ \E rendered \in Rasters, actual \in Rasters :
          LET total == RasterTotal(page.raster, rendered, actual) IN
          IF /\ rendered <= MaxPagePixels /\ actual <= MaxPagePixels
             /\ total <= MaxPixels
          THEN /\ budget' = [budget EXCEPT !.pixels = total]
               /\ page' = [page EXCEPT !.raster = Max({@, rendered, actual})]
               /\ stage' = "encode"
               /\ UNCHANGED <<count, pages>>
          ELSE Refuse
    /\ UNCHANGED vars

\* _BoundedBytesIO stops the encoder.
Encode ==
    /\ Reading("encode")
    /\ \E image \in Images :
          IF image <= WriteLimit
          THEN /\ page' = [page EXCEPT !.image = image]
               /\ stage' = "encoded"
               /\ UNCHANGED <<count, pages, budget>>
          ELSE Refuse
    /\ UNCHANGED vars

\* reserve_image.
ReserveImage ==
    /\ Reading("encoded")
    /\ IF ImageFits(page.image)
       THEN /\ budget' = [budget EXCEPT !.bytes = @ + page.image,
                                        !.characters = @ + UriLength(page.image)]
            /\ stage' = "ocr"
            /\ UNCHANGED <<count, pages, page>>
       ELSE Refuse
    /\ UNCHANGED vars

Recognise ==
    /\ stage = "ocr" /\ StartOcr
    /\ stage' = "recognising"
    /\ UNCHANGED <<count, pages, budget, page>>

\* _run_ocr returns, with "" if the program failed or is not there: then the text
\* of the PDF is taken.
Recognised ==
    /\ \/ Reading("recognising")
       \/ Reading("ocr")
    /\ \E text \in IF stage = "ocr" THEN {0} ELSE Texts :
          Finish(IF text = 0 THEN page.text ELSE text, page.image, page.raster)
    /\ UNCHANGED vars

HasContent(p) == p.text > 0 \/ p.image > 0

ReadingEnds ==
    /\ Reading("page") /\ Len(pages) = count
    /\ IF \E i \in DOMAIN pages : HasContent(pages[i])
       THEN stage' = "accepted" /\ UNCHANGED <<count, pages, budget, page>>
       ELSE Refuse
    /\ UNCHANGED vars

Read ==
    \/ OpenRefused \/ OpenPdf \/ OpenImage
    \/ NativeText \/ ReservePixels \/ Render
    \/ Encode \/ ReserveImage \/ Recognise \/ Recognised
    \/ ReadingEnds

-----------------------------------------------------------------------------
(* The document *)

TextPages == {i \in DOMAIN pages : pages[i].text > 0}

\* DocumentContent.text: pages with text, each with its heading, joined by blank lines.
DocumentText ==
    SumFunctionOnSet([i \in DOMAIN pages |-> PagePrefix + pages[i].text], TextPages)
        + 2 * Max({0, Cardinality(TextPages) - 1})

\* _data_uri: base64 writes three bytes as four characters, in whole groups.
Encoded(bytes) ==
    UriPrefix + Min({n \in 0..(2 * bytes + 4) : n % 4 = 0 /\ 3 * n >= 4 * bytes})

\* The data URIs of the images.
DocumentImages ==
    SumFunctionOnSet([i \in DOMAIN pages |-> Encoded(pages[i].image)],
                     {i \in DOMAIN pages : pages[i].image > 0})

\* What the pages have of one of their sizes.
PageTotal(size) == SumFunctionOnSet([i \in DOMAIN pages |-> pages[i][size]], DOMAIN pages)

\* _send_worker_response: at most six bytes a character, and the frame of the JSON.
MessageFits ==
    DocumentImages + 6 * PageTotal("text") + PageOverhead * Len(pages) <= MaxMessage

\* Whatever happens in the worker, a refusal may be all it sends.
Send ==
    /\ \/ SendAtOnce("refusal")
       \/ /\ stage = "accepted" /\ MessageFits
          /\ SendAtOnce("document") \/ SendHeader
    /\ UNCHANGED docVars

\* _decode_document.
Decodes ==
    /\ Len(pages) \in 1..MaxPages
    /\ DocumentText <= MaxText
    /\ DocumentImages <= MaxCharacters
    /\ \E i \in DOMAIN pages : HasContent(pages[i])

\* The answer that has arrived decodes, or the call ends without a document.
Decoded ==
    parent = "joining" /\ parent' = "done" =>
        (result' = "document" <=> cause = "answer" /\ answer = "document" /\ Decodes)

\* The first checks of extract_bill.
GatewayTakes == DocumentText <= GatewayText /\ DocumentImages <= GatewayImages

-----------------------------------------------------------------------------
IngestNext ==
    \/ Server /\ Decoded /\ UNCHANGED docVars
    \/ (LeadGroup \/ OcrEnds \/ SendRest \/ WorkerEnds) /\ UNCHANGED docVars
    \/ Read
    \/ Send

IngestFairness ==
    /\ WF_allVars(Server /\ Decoded /\ UNCHANGED docVars)
    /\ WF_allVars(parent = "receiving" /\ SendRest /\ UNCHANGED docVars)

IngestSpec == IngestInit /\ [][IngestNext]_allVars /\ IngestFairness

-----------------------------------------------------------------------------
(* Properties *)

\* Between two pages every budget is what the pages have used, to the character,
\* the byte and the pixel; and what a guard has let through - the text of a PDF,
\* the bytes of an image - is never refused when it is reserved.
BudgetsAreExact ==
    /\ stage \in {"page", "accepted"} =>
         /\ budget.text = DocumentText
         /\ budget.characters = DocumentImages
         /\ budget.bytes = PageTotal("image")
         /\ budget.pixels = PageTotal("raster")
    /\ stage = "encoded" => ImageFits(page.image)
    /\ stage = "rasterize" => TextFits(page.text)

\* A document the worker accepts is never lost to a limit further on: its message is
\* short enough, the server decodes what the worker sends, and the gateway takes it.
AcceptedDocumentsPass ==
    /\ stage = "accepted" => MessageFits
    /\ answer = "document" => Decodes /\ GatewayTakes
=============================================================================
