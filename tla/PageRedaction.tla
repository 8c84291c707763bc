---------------------------- MODULE PageRedaction ----------------------------
(***************************************************************************)
(* One page from the matches of the detector to the chunks that are        *)
(* indexed: findings (security/pii/indian_pii.py), their review and the    *)
(* masking of text and image (services/redaction.py,                       *)
(* services/retrieval/image_redaction.py), the windows its masked text is  *)
(* cut into (services/retrieval/chunking.py), and the snippets the         *)
(* evidence catalog shows of them (services/evidence.py).                  *)
(*                                                                         *)
(* Of the characters it matters where they come from (see PiiText), and    *)
(* whether a chunk may end after them: in line ends and spaces, which      *)
(* stand for the four kinds of places the chunker prefers.                 *)
(***************************************************************************)
EXTENDS PiiText, PageImage

CONSTANTS
    Target,         \* target_chars
    BackTo,         \* 35% of it, how far back a better place is looked for
    OverlapChars,   \* overlap_chars
    MaxAccepted,    \* bound of the findings that are accepted
    MaxBlanks,      \* bound of the line ends and spaces left on the page
    MaxToken,       \* the longest text that looks like a redaction placeholder
    MaxBoxes        \* bound of the findings on the image of the page

ASSUME SizesAssumption ==
    /\ {Target, BackTo, OverlapChars} \subseteq Nat \ {0}
    /\ {MaxToken, MaxBoxes} \subseteq Nat
    /\ OverlapChars + BackTo + MaxToken <= Target

VARIABLES
    stage,
    findings,       \* the findings of the page, then the accepted ones
    matches,
    text,           \* the page's masked_text
    kinds,          \* for each of its characters, what it is to the chunker
    start,          \* of the next chunk, in the stripped text
    chunks,
    derivative      \* the masked image

vars == <<stage, findings, matches, text, kinds, start, chunks, derivative>>

Init ==
    /\ stage = "detect"
    /\ findings = {} /\ matches = {}
    /\ text = <<>> /\ kinds = <<>>
    /\ start = 0 /\ chunks = <<>>
    /\ derivative = NoImage("NOT_APPLICABLE")

\* IndianPiiDetector.detect, for up to three matches.
Detect ==
    /\ stage = "detect"
    /\ \E f, g, h \in Matches :
         /\ matches' = {f, g, h}
         /\ findings' = Deduplicated({f, g, h})
    /\ stage' = "review"
    /\ UNCHANGED <<text, kinds, start, chunks, derivative>>

\* The decisions on the findings, and the approval.
ApproveText ==
    /\ stage = "review"
    /\ findings' \in {accepted \in SUBSET findings : Cardinality(accepted) <= MaxAccepted}
    /\ text' = Masked(findings')
    /\ matches' = {}
    /\ stage' = "masked"
    /\ UNCHANGED <<kinds, start, chunks, derivative>>

\* generate_masked_page_image_derivative, for findings with these boxes on this
\* image; one that is not on the page, or something else in the way, is enough
\* for none.
ApproveImage ==
    /\ stage = "detect"
    /\ \E n \in 0..MaxBoxes : \E boxes \in [1..n -> IF n > 1 THEN LocatedBoxes ELSE Boxes] :
         \E padding \in 0..1, image \in Images, obstacle \in Obstacles :
           /\ obstacle # "none" => n = 0
           /\ derivative' = Derivative(boxes, padding, image, obstacle)
    /\ stage' = "image"
    /\ UNCHANGED <<findings, matches, text, kinds, start, chunks>>
-----------------------------------------------------------------------------
(* DeterministicMaskedChunker.chunk_page *)

Blank(kind) == kind \in {"line", "space"}
Blanks(ks) == {p \in DOMAIN ks : Blank(ks[p])}

\* A page with up to MaxBlanks places to cut at, or of nothing but blanks and
\* placeholders, and perhaps a text that looks like a redaction placeholder to
\* the chunker, [REDACTED_...]; none of those the masking puts in does,
\* [..._REDACTED].
Kinds ==
    LET raw == {p \in DOMAIN text : text[p][2] = 0}
        Few == {blanks \in SUBSET raw : Cardinality(blanks) <= MaxBlanks \/ blanks = raw}
        Tokens == {{}} \union {p..q : p, q \in raw}
        Layouts == {b \in [blanks : Few, lines : Few, token : Tokens] :
                      /\ b.lines \subseteq b.blanks /\ b.token \subseteq raw \ b.blanks
                      /\ Cardinality(b.token) <= MaxToken}
    IN  {[p \in DOMAIN text |->
            IF p \in b.lines THEN "line"
            ELSE IF p \in b.blanks THEN "space" ELSE IF p \in b.token THEN "token" ELSE "plain"] :
         b \in Layouts}

\* What comes before and after is stripped.
Leading(ks) == CHOOSE n \in 0..Len(ks) :
    (\A p \in 1..n : Blank(ks[p])) /\ (n < Len(ks) => ~Blank(ks[n + 1]))
Trailing(ks) == CHOOSE n \in 0..Len(ks) :
    (\A p \in (Len(ks) - n + 1)..Len(ks) : Blank(ks[p])) /\ (n < Len(ks) => ~Blank(ks[Len(ks) - n]))
Strip(characters, ks) ==
    IF Leading(ks) = Len(ks) THEN <<>>
    ELSE SubSeq(characters, Leading(ks) + 1, Len(ks) - Trailing(ks))
Clean == Strip(text, kinds)
CleanKinds == Strip(kinds, kinds)

\* Spans are [start, end) in the stripped text.
\* There is one at the most.
ProtectedSpans ==
    LET ks == CleanKinds
        tokens == {p \in DOMAIN ks : ks[p] = "token"}
    IN  {<<p - 1, q>> : p \in {p \in tokens : p - 1 \notin tokens},
                        q \in {q \in tokens : q + 1 \notin tokens}}

\* Fault: the text is cut where it is long enough.
BeforeSpanAnywhere(point) == point

\* In a protected span the point moves to where the span begins, or ends.
BeforeSpan(point) ==
    LET spans == {s \in ProtectedSpans : s[1] < point /\ point < s[2]} IN
    IF spans = {} THEN point ELSE (CHOOSE s \in spans : TRUE)[1]
AfterSpan(point) ==
    LET spans == {s \in ProtectedSpans : s[1] < point /\ point < s[2]} IN
    IF spans = {} THEN point ELSE (CHOOSE s \in spans : TRUE)[2]

\* The last place of this kind before the point, in the search window; none is 0.
LastBefore(point, kind) ==
    LET ks == CleanKinds
        places == {p \in DOMAIN ks : point - BackTo < p /\ p <= point /\ ks[p] = kind}
    IN  IF places = {} THEN 0 ELSE CHOOSE p \in places : \A q \in places : q <= p

\* _adjust_split_point; what it prefers is blank and in no protected span.
AdjustSplitPoint(idealEnd) ==
    LET point == BeforeSpan(idealEnd)
        line == LastBefore(point, "line")
        space == LastBefore(point, "space")
    IN  IF point <= 0 \/ point >= Len(Clean) THEN Len(Clean)
        ELSE IF line # 0 THEN line ELSE IF space # 0 THEN space ELSE point

\* The end of the chunk that begins here; the guard against a loop of zero steps.
ChunkEnd(from) ==
    LET end == AdjustSplitPoint(from + Target) IN
    IF Len(Clean) - from <= Target THEN Len(Clean)
    ELSE IF end > from THEN end ELSE LesserOf(from + Target, Len(Clean))

\* Faults: the overlap is most of the window; there is none; a character is
\* skipped.
NextStartBack(from, end) == AfterSpan(GreaterOf(from + 1, end - (Target - OverlapChars)))
NextStartApart(from, end) == AfterSpan(GreaterOf(from + 1, end))
NextStartAfter(from, end) == end + 1

NextStart(from, end) == AfterSpan(GreaterOf(from + 1, end - OverlapChars))

ChunkPage ==
    /\ stage = "masked"
    /\ \E ks \in Kinds : kinds' = ks
    /\ stage' = "chunking"
    /\ UNCHANGED <<findings, matches, text, start, chunks, derivative>>

\* A window that has only blanks is no chunk.
ChunkContent(chunk) ==
    Strip(SubSeq(Clean, chunk.start + 1, chunk.end), SubSeq(CleanKinds, chunk.start + 1, chunk.end))

NextWindow ==
    LET end == ChunkEnd(start)
        chunk == [start |-> start, end |-> end]
    IN
    /\ stage = "chunking"
    /\ start < Len(Clean)
    /\ chunks' = IF ChunkContent(chunk) = <<>> THEN chunks ELSE Append(chunks, chunk)
    /\ IF end >= Len(Clean) THEN stage' = "chunked" /\ UNCHANGED start
                            ELSE stage' = stage /\ start' = NextStart(start, end)
    /\ UNCHANGED <<findings, matches, text, kinds, derivative>>

NoMoreWindows ==
    /\ stage = "chunking"
    /\ start >= Len(Clean)
    /\ stage' = "chunked"
    /\ UNCHANGED <<findings, matches, text, kinds, start, chunks, derivative>>

Next == Detect \/ ApproveText \/ ApproveImage \/ ChunkPage \/ NextWindow \/ NoMoreWindows

\* chunk_page is a loop, and is not interrupted.
Spec == Init /\ [][Next]_vars /\ WF_vars(NextWindow \/ NoMoreWindows)
-----------------------------------------------------------------------------
(* evidence.py: the snippet is cut out of the page's text as it is stored. *)

\* Fault: the end is taken for the last character that is not shown.
CatalogSnippetShort(chunk) ==
    Strip(SubSeq(text, chunk.start + 1, chunk.end - 1), SubSeq(kinds, chunk.start + 1, chunk.end - 1))

CatalogSnippet(chunk) ==
    LET end == LesserOf(chunk.end, Len(text)) IN
    Strip(SubSeq(text, chunk.start + 1, end), SubSeq(kinds, chunk.start + 1, end))
-----------------------------------------------------------------------------
(* Properties *)

Stages == {"detect", "review", "masked", "chunking", "chunked", "image"}
Characters == (0..(Length - 1)) \X (0..Placeholder)

TypeOK ==
    /\ stage \in Stages
    /\ findings \subseteq Matches /\ matches \subseteq Matches
    /\ text \in Seq(Characters)
    /\ kinds \in Seq({"plain", "line", "space", "token"})
    /\ start \in 0..Len(text)
    /\ chunks \in Seq([start : 0..Len(text), end : 0..Len(text)])
    /\ derivative.status \in (Obstacles \ {"none"}) \union {"APPROVED", "BLOCKED_UNLOCATED_PII"}

\* No match is left without a finding that overlaps it, findings do not overlap,
\* and the snippets a reviewer sees of them show no finding (_deduplicate_findings
\* and generate_safe_contexts_for_page, whatever patterns matched where).
FindingsAreSafe ==
    stage = "review" =>
        /\ FindingsCover(matches)
        /\ \A f \in findings : ContextIsSafe(findings, f)

\* The text of an approved page has the accepted findings replaced and nothing
\* else, whatever the lengths of findings and placeholders do to the offsets
\* (approve_redactions).
TextIsExactlyMasked == stage = "masked" => ExactlyMasked(text, findings)

\* Chunks leave out nothing but blanks.
ChunksCoverThePage ==
    stage = "chunked" =>
        \A p \in DOMAIN CleanKinds \ Blanks(CleanKinds) :
            \E n \in DOMAIN chunks : chunks[n].start < p /\ p <= chunks[n].end

\* Every chunk has text the chunks before it do not have: windows advance, also
\* where a protected span or a better place to cut draws them back.
EachChunkAddsText ==
    \A m, n \in DOMAIN chunks :
        m < n => chunks[m].start < chunks[n].start /\ chunks[m].end < chunks[n].end

\* The snippet the evidence catalog shows of a chunk is the text of the chunk,
\* if the page's text does not begin with blanks: the offsets are of the
\* stripped text.
CatalogShowsTheChunks ==
    stage = "chunked" /\ Leading(kinds) = 0 =>
        \A n \in DOMAIN chunks : CatalogSnippet(chunks[n]) = ChunkContent(chunks[n])

\* The chunks of a page are the page: they cover it, each adds to it, and the
\* catalog shows what they are (chunk_page and the evidence catalog).
ChunksAreFaithful == ChunksCoverThePage /\ EachChunkAddsText /\ CatalogShowsTheChunks

\* "Never splits redaction placeholders ([REDACTED_*])" (chunking.py:35), of
\* texts of that form.
TokensAreWhole ==
    \A s \in ProtectedSpans : \A n \in DOMAIN chunks :
        ~(s[1] < chunks[n].start /\ chunks[n].start < s[2]) /\ ~(s[1] < chunks[n].end /\ chunks[n].end < s[2])

\* The placeholders the masking puts in are not of that form, and are cut; each
\* is whole in one of the chunks, as it is no longer than the overlap.
PlaceholdersAreWholeSomewhere ==
    stage = "chunked" => \A p \in {p \in DOMAIN Clean : Clean[p][2] = 1} :
        \E n \in DOMAIN chunks : chunks[n].start < p /\ p + Placeholder - 1 <= chunks[n].end

\* No placeholder is lost to the windows: one the chunker knows is never cut,
\* one it does not know is whole where the windows overlap.
TokensSurviveChunking == TokensAreWhole /\ PlaceholdersAreWholeSomewhere

\* What is painted over is every pixel that shows a part of a finding's box:
\* image_redaction.py:66, "Generates an opaque, privacy-safe masked page image
\* derivative", and the test of it (test_visual_evidence_privacy.py:139) "verify
\* redacted pixels are black".  Of an uploaded image that is turned it is not so.
FindingsAreBlack ==
    derivative.status = "APPROVED" => \A n \in DOMAIN derivative.boxes :
        Shows(derivative.boxes[n], derivative.image) \subseteq derivative.black

\* An image that is painted as it is stored shows nothing of the findings; and of
\* every image "merges overlapping or touching bounding boxes into
\* non-overlapping rectangles" (image_redaction.py:19), in as many passes as that
\* takes.
ImageIsSafe ==
    /\ derivative.status = "APPROVED" /\ derivative.image.orientation = AsStored =>
         FindingsAreBlack
    /\ \A m, n \in DOMAIN derivative.merged :
         m # n => ~Touch(derivative.merged[m], derivative.merged[n])

\* The tables of the checksum are right in all rows.
VerhoeffDetects == stage = "detect" => ChecksumDetects
=============================================================================
