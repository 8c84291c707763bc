------------------------------- MODULE PiiText -------------------------------
(***************************************************************************)
(* What is done to the text of a page because of the personal data in it   *)
(* (security/pii/indian_pii.py, security/pii/verhoeff.py, and the masking  *)
(* in services/redaction.py): which of the matches of the patterns become  *)
(* findings, how findings are replaced, and the snippets a reviewer sees.  *)
(*                                                                         *)
(* Offsets count from 0 and an end is not included, as in the code.  A     *)
(* character is <<i, 0>>, the i-th of the page, or <<i, k>>, the k-th of   *)
(* the placeholder of the finding that starts at i.  All placeholders have *)
(* the same length here.                                                   *)
(***************************************************************************)
EXTENDS Naturals, Sequences, FiniteSets

CONSTANTS
    Length,         \* the number of characters of the page
    Placeholder,    \* the number of characters of a placeholder
    Confidences,    \* what the patterns are trusted with, in percent
    Context         \* how far a snippet reaches to either side

ASSUME PageAssumption ==
    Confidences \subseteq Nat /\ {Length, Placeholder, Context} \subseteq Nat \ {0}

\* What the patterns match, wherever and however they overlap.
Matches ==
    {f \in [start : 0..(Length - 1), end : 1..Length, confidence : Confidences] :
        f.start < f.end}

\* max(starts) < min(ends)
Overlap(f, g) == f.start < g.end /\ g.start < f.end

\* Fault: the match that begins first wins.
BetterEarlier(f, g) == f.start < g.start

\* Higher confidence first, longer span second, earlier start third.
Better(f, g) ==
    LET span(x) == x.end - x.start IN
    \/ f.confidence > g.confidence
    \/ f.confidence = g.confidence /\ span(f) > span(g)
    \/ f.confidence = g.confidence /\ span(f) = span(g) /\ f.start < g.start

\* _deduplicate_findings: the best match first, then what does not overlap one
\* that was selected before.
Deduplicated(matches) ==
    LET select[candidates \in SUBSET matches] ==
            IF candidates = {} THEN {}
            ELSE LET last == CHOOSE f \in candidates :
                                \A g \in candidates \ {f} : ~Better(f, g)
                     before == select[candidates \ {last}]
                 IN  IF \E f \in before : Overlap(last, f) THEN before ELSE before \union {last}
    IN  select[matches]

PageCharacters == [i \in 1..Length |-> <<i - 1, 0>>]
PlaceholderOf(f) == [k \in 1..Placeholder |-> <<f.start, k>>]

\* text[: start] + placeholder + text[end :]
Replace(text, f) ==
    SubSeq(text, 1, f.start) \o PlaceholderOf(f) \o SubSeq(text, f.end + 1, Len(text))

\* Fault: the other way round.
ReplacedLastAscending(findings) == CHOOSE f \in findings : \A g \in findings : f.start >= g.start

\* In reverse character order the one that begins first is the last.
ReplacedLast(findings) == CHOOSE f \in findings : \A g \in findings : f.start <= g.start

Masked(findings) ==
    LET masked[rest \in SUBSET findings] ==
            IF rest = {} THEN PageCharacters
            ELSE LET last == ReplacedLast(rest) IN Replace(masked[rest \ {last}], last)
    IN  masked[findings]

\* The sum of what the findings before this one have added; it may be negative,
\* so both sides are counted.
Grown(findings, f) == Placeholder * Cardinality({g \in findings : g.start < f.start})
Shrunk(findings, f) ==
    Cardinality({i \in 0..(Length - 1) :
        \E g \in findings : g.start < f.start /\ g.start <= i /\ i < g.end})

\* Fault: the snippet is cut where the finding was on the page.
NewStartUnshifted(findings, f) == f.start

NewStart(findings, f) == f.start + Grown(findings, f) - Shrunk(findings, f)

\* generate_safe_contexts_for_page
SafeContext(findings, f) ==
    LET text == Masked(findings)
        from == NewStart(findings, f)
        till == from + Placeholder + Context
    IN  SubSeq(text, IF from > Context THEN from - Context + 1 ELSE 1,
                     IF till < Len(text) THEN till ELSE Len(text))
-----------------------------------------------------------------------------
(* The checksum of an Aadhaar number, whose digits are taken from the last   *)
(* to the first.                                                             *)

Digits == 0..9

DTable ==
    << <<0,1,2,3,4,5,6,7,8,9>>, <<1,2,3,4,0,6,7,8,9,5>>, <<2,3,4,0,1,7,8,9,5,6>>,
       <<3,4,0,1,2,8,9,5,6,7>>, <<4,0,1,2,3,9,5,6,7,8>>, <<5,9,8,7,6,0,4,3,2,1>>,
       <<6,5,9,8,7,1,0,4,3,2>>, <<7,6,5,9,8,2,1,0,4,3>>, <<8,7,6,5,9,3,2,1,0,4>>,
       <<9,8,7,6,5,4,3,2,1,0>> >>

\* Fault: two digits of a row are swapped, and one of the next is wrong.
PTableMistyped ==
    << <<0,1,2,3,4,5,6,7,8,9>>, <<1,5,7,6,2,8,3,0,9,4>>, <<5,8,0,3,7,9,6,1,4,2>>,
       <<8,9,1,6,0,4,3,5,2,7>>, <<9,4,5,3,1,2,6,8,0,7>>, <<4,2,8,6,5,7,3,9,0,0>>,
       <<2,7,9,3,8,0,6,4,1,5>>, <<7,0,4,6,9,1,3,2,5,8>> >>

PTable ==
    << <<0,1,2,3,4,5,6,7,8,9>>, <<1,5,7,6,2,8,3,0,9,4>>, <<5,8,0,3,7,9,6,1,4,2>>,
       <<8,9,1,6,0,4,3,5,2,7>>, <<9,4,5,3,1,2,6,8,7,0>>, <<4,2,8,6,5,7,3,9,0,1>>,
       <<2,7,9,3,8,0,6,4,1,5>>, <<7,0,4,6,9,1,3,2,5,8>> >>

InvTable == <<0,4,3,2,1,5,6,7,8,9>>

\* checksum = D_TABLE[checksum][P_TABLE[i % 8][digit]]
Folded(checksum, i, digit) == DTable[checksum + 1][PTable[(i % 8) + 1][digit + 1] + 1]

\* The checksum of these digits, the first of which is the last of the number
\* and is taken for the i-th.
Checksum(digits, first) ==
    LET after[n \in 0..Len(digits)] ==
            IF n = 0 THEN 0 ELSE Folded(after[n - 1], first + n - 1, digits[n])
    IN  after[Len(digits)]

ValidateVerhoeff(digits) == Len(digits) >= 2 /\ Checksum(digits, 0) = 0
CheckDigit(digits) == InvTable[Checksum(digits, 1) + 1]
-----------------------------------------------------------------------------
(* What each of them owes. *)

\* Findings do not overlap, and a match that is not one overlaps a finding that
\* is trusted as much and, if no more than that, is as long: no match is left
\* untouched.
FindingsCover(matches) ==
    LET findings == Deduplicated(matches) IN
    /\ \A f, g \in findings : f # g => ~Overlap(f, g)
    /\ \A f \in matches \ findings : \E g \in findings :
         /\ Overlap(f, g)
         /\ g.confidence >= f.confidence
         /\ g.confidence = f.confidence => g.end - g.start >= f.end - f.start

Hidden(findings) == {i \in 0..(Length - 1) : \E f \in findings : f.start <= i /\ i < f.end}

\* Of the page what is in no finding is left, and of every finding its
\* placeholder, all in the order of the page.
ExactlyMasked(text, findings) ==
    /\ {text[p] : p \in DOMAIN text} =
         {<<i, 0>> : i \in (0..(Length - 1)) \ Hidden(findings)}
            \union {<<f.start, k>> : f \in findings, k \in 1..Placeholder}
    /\ \A p, q \in DOMAIN text : p < q =>
         text[p][1] < text[q][1] \/ (text[p][1] = text[q][1] /\ text[p][2] < text[q][2])

\* The snippet of a finding has its placeholder, and nothing of any finding.
ContextIsSafe(findings, f) ==
    LET snippet == SafeContext(findings, f)
        shown == {snippet[p] : p \in DOMAIN snippet}
    IN  /\ {<<f.start, k>> : k \in 1..Placeholder} \subseteq shown
        /\ \A i \in Hidden(findings) : <<i, 0>> \notin shown

\* A wrong digit, and two neighbours that have changed places, change the
\* checksum, at any place of a number and whatever comes before; what follows
\* keeps the difference.  The digit computed for a number makes it valid.
ChecksumDetects ==
    /\ \A i \in 0..7, c \in Digits, d, e \in Digits : d # e =>
         /\ Folded(c, i, d) # Folded(c, i, e)
         /\ Folded(d, i, c) # Folded(e, i, c)
         /\ Folded(Folded(c, i, d), i + 1, e) # Folded(Folded(c, i, e), i + 1, d)
    /\ \A digits \in [1..2 -> Digits] : ValidateVerhoeff(<<CheckDigit(digits)>> \o digits)
=============================================================================
