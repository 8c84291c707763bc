------------------------ MODULE PageRedactionProofs ------------------------
(***************************************************************************)
(* What holds of PageRedaction for pages, placeholders, windows and sets   *)
(* of matches of any size.                                                 *)
(*                                                                         *)
(* What the recursive functions of the modules compute is shown along the  *)
(* sizes of finite sets: of those for which something fails one is a       *)
(* smallest.                                                               *)
(***************************************************************************)
EXTENDS PageRedaction, FiniteSetTheorems, SequenceTheorems, WellFoundedInduction, TLAPS

-----------------------------------------------------------------------------
(***************************************************************************)
(* Smallest numbers, and sets built up from smaller ones.                  *)
(***************************************************************************)

LEMMA LeastNumber ==
    ASSUME NEW T, T \subseteq Nat, T # {} PROVE \E n \in T : \A m \in T : n <= m
<1>1. IsWellFoundedOn({x \in Nat \X Nat : x[1] < x[2]}, Nat)
    BY NatLessThanWellFounded DEF OpToRel
<1>2. PICK n \in T : \A m \in T : ~(<<m, n>> \in {x \in Nat \X Nat : x[1] < x[2]})
    BY <1>1, WFMin
<1>3. \A m \in T : m \in Nat /\ n \in Nat
    OBVIOUS
<1>4. \A m \in T : ~(m < n)
    BY <1>2, <1>3
<1> QED BY <1>3, <1>4

\* What is so for a set when it is so for every set that lacks one of its
\* elements is so for all sets.
LEMMA SubsetsGrow ==
    ASSUME NEW S, IsFiniteSet(S), NEW Good,
           \A T \in SUBSET S : (\A x \in T : T \ {x} \in Good) => T \in Good
    PROVE  SUBSET S \subseteq Good
<1> SUFFICES ASSUME (SUBSET S) \ Good # {} PROVE FALSE
    OBVIOUS
<1> DEFINE sizes == {Cardinality(T) : T \in (SUBSET S) \ Good}
<1>1. \A T \in SUBSET S : IsFiniteSet(T) /\ Cardinality(T) \in Nat
    BY FS_Subset, FS_CardinalityType
<1>2. sizes \subseteq Nat /\ sizes # {}
    BY <1>1
<1>3. PICK n \in sizes : \A m \in sizes : n <= m
    BY <1>2, LeastNumber
<1>4. PICK T \in (SUBSET S) \ Good : n = Cardinality(T)
    BY <1>3
<1>5. ASSUME NEW x \in T, T \ {x} \notin Good PROVE FALSE
  <2>1. T \ {x} \in (SUBSET S) \ Good
      BY <1>4, <1>5
  <2>2. Cardinality(T \ {x}) = Cardinality(T) - 1
      BY <1>1, <1>4, FS_RemoveElement
  <2>3. Cardinality(T) <= Cardinality(T \ {x})
      BY <1>3, <1>4, <2>1
  <2>4. Cardinality(T) \in Nat
      BY <1>1, <1>4
  <2> QED BY <2>2, <2>3, <2>4
<1> QED BY <1>4, <1>5

\* A function on the subsets of a finite set may be defined by taking one
\* element away.
Takes(S, pick) == \A T \in SUBSET S : T # {} => pick[T] \in T
StaysIn(S, D, step) == \A d \in D : \A T \in SUBSET S : step[<<d, T>>] \in D
FoldedWith(S, D, base, pick, step, m) ==
    /\ m \in [SUBSET S -> D]
    /\ \A T \in SUBSET S : m[T] = IF T = {} THEN base ELSE step[<<m[T \ {pick[T]}], T>>]

LEMMA SubsetsFold ==
    ASSUME NEW S, IsFiniteSet(S), NEW D, NEW base \in D,
           NEW pick, Takes(S, pick), NEW step, StaysIn(S, D, step)
    PROVE  \E m : FoldedWith(S, D, base, pick, step, m)
<1> USE DEF Takes, StaysIn
<1> DEFINE upTo(n, m) == \A T \in SUBSET S : Cardinality(T) <= n =>
               m[T] = IF T = {} THEN base ELSE step[<<m[T \ {pick[T]}], T>>]
           bad == {n \in Nat : ~\E m \in [SUBSET S -> D] : upTo(n, m)}
<1>1. \A T \in SUBSET S : IsFiniteSet(T) /\ Cardinality(T) \in Nat
    BY FS_Subset, FS_CardinalityType
<1>2. \A T \in SUBSET S : Cardinality(T) <= 0 => T = {}
    BY <1>1, FS_EmptySet
<1>3. 0 \notin bad
  <2> DEFINE m == [T \in SUBSET S |-> base]
  <2>1. m \in [SUBSET S -> D] /\ upTo(0, m)
      BY <1>2
  <2> QED BY <2>1
<1>4. bad = {}
  <2> SUFFICES ASSUME bad # {} PROVE FALSE
      OBVIOUS
  <2>1. PICK n \in bad : \A k \in bad : n <= k
      BY LeastNumber
  <2>2. n \in Nat /\ n # 0
      BY <1>3, <2>1
  <2>3. n - 1 \in Nat /\ n - 1 \notin bad
    <3> HIDE DEF bad
    <3> QED BY <2>1, <2>2
  <2>4. PICK m \in [SUBSET S -> D] : upTo(n - 1, m)
      BY <2>3
  <2> DEFINE next == [T \in SUBSET S |->
                        IF T = {} THEN base ELSE step[<<m[T \ {pick[T]}], T>>]]
  <2>5. next \in [SUBSET S -> D]
      OBVIOUS
  <2>6. ASSUME NEW T \in SUBSET S, Cardinality(T) <= n, T # {}
        PROVE  next[T] = step[<<next[T \ {pick[T]}], T>>]
    <3> DEFINE R == T \ {pick[T]}
    <3>1. R \in SUBSET S /\ Cardinality(R) = Cardinality(T) - 1
        BY <1>1, <2>6, FS_RemoveElement
    <3>2. Cardinality(R) <= n - 1
        BY <1>1, <2>2, <2>6, <3>1
    <3>3. m[R] = IF R = {} THEN base ELSE step[<<m[R \ {pick[R]}], R>>]
        BY <2>4, <3>1, <3>2
    <3>4. next[R] = m[R]
        BY <3>1, <3>3
    <3> QED BY <2>6, <3>4
  <2>7. upTo(n, next)
      BY <2>6
  <2> QED BY <2>1, <2>5, <2>7
<1>5. Cardinality(S) \in Nat
    BY <1>1
<1>6. PICK m \in [SUBSET S -> D] : upTo(Cardinality(S), m)
    BY <1>4, <1>5
<1>7. \A T \in SUBSET S : Cardinality(T) <= Cardinality(S)
    BY FS_Subset
<1> QED BY <1>6, <1>7 DEF FoldedWith

-----------------------------------------------------------------------------
(***************************************************************************)
(* Which matches become findings.                                          *)
(***************************************************************************)

LEMMA MatchTypes ==
    \A x \in Matches :
        x.start \in Nat /\ x.end \in Nat /\ x.confidence \in Nat /\ x.start < x.end
        /\ x.end <= Length
<1>1. Length \in Nat /\ Confidences \subseteq Nat
    BY PageAssumption
<1> SUFFICES ASSUME NEW x \in Matches
             PROVE  x.start \in Nat /\ x.end \in Nat /\ x.confidence \in Nat
                    /\ x.start < x.end /\ x.end <= Length
    OBVIOUS
<1>2. x \in [start : 0..(Length - 1), end : 1..Length, confidence : Confidences] /\ x.start < x.end
    BY DEF Matches
<1>3. x.start \in 0..(Length - 1) /\ x.end \in 1..Length /\ x.confidence \in Confidences
    BY <1>2
<1>4. x.start < x.end
    BY <1>2
<1>5. x.start \in Nat /\ x.end \in Nat /\ x.end <= Length
    BY <1>1, <1>3
<1>6. x.confidence \in Nat
    BY <1>1, <1>3
<1> QED BY <1>4, <1>5, <1>6

LEMMA BetterIsAnOrder ==
    ASSUME NEW f \in Matches, NEW g \in Matches, NEW h \in Matches, Better(f, g)
    PROVE  ~Better(g, f) /\ (Better(g, h) => Better(f, h))
<1> QED BY MatchTypes DEF Better

\* The match that is looked at last.
Worst(candidates, f) == f \in candidates /\ \A g \in candidates \ {f} : ~Better(f, g)

LEMMA WorstExists ==
    ASSUME NEW S \in SUBSET Matches, IsFiniteSet(S)
    PROVE  \A T \in SUBSET S : T # {} => \E f \in T : Worst(T, f)
<1> DEFINE Good == {T \in SUBSET S : T # {} => \E f \in T : Worst(T, f)}
<1>1. ASSUME NEW T \in SUBSET S, \A x \in T : T \ {x} \in Good PROVE T \in Good
  <2>1. ASSUME NEW x \in T, T \ {x} # {} PROVE \E f \in T : Worst(T, f)
    <3>1. PICK w \in T \ {x} : Worst(T \ {x}, w)
        BY <1>1, <2>1
    <3>2. CASE Better(w, x)
      <4>1. ASSUME NEW g \in T \ {x}, Better(x, g) PROVE FALSE
        <5>1. Better(w, g) /\ ~Better(x, w)
            BY <3>2, <4>1, BetterIsAnOrder
        <5> QED BY <3>1, <4>1, <5>1 DEF Worst
      <4> QED BY <2>1, <4>1 DEF Worst
    <3>3. CASE ~Better(w, x)
        BY <3>1, <3>3 DEF Worst
    <3> QED BY <3>2, <3>3
  <2>2. ASSUME NEW x \in T, T \ {x} = {} PROVE Worst(T, x)
      BY <2>2 DEF Worst
  <2> QED BY <2>1, <2>2
<1>2. SUBSET S \subseteq Good
  <2> HIDE DEF Good
  <2> QED BY <1>1, SubsetsGrow
<1> QED BY <1>2

LastOf(candidates) == CHOOSE f \in candidates : \A g \in candidates \ {f} : ~Better(f, g)

\* A match is added unless it overlaps a better one that was.
Added(before, last) ==
    IF \E f \in before : Overlap(last, f) THEN before ELSE before \union {last}

Selects(matches_, select) ==
    select = [candidates \in SUBSET matches_ |->
                IF candidates = {} THEN {}
                ELSE Added(select[candidates \ {LastOf(candidates)}], LastOf(candidates))]

LEMMA DeduplicatedSelects ==
    ASSUME NEW S \in SUBSET Matches, IsFiniteSet(S)
    PROVE  \E select : Selects(S, select) /\ Deduplicated(S) = select[S]
<1> DEFINE pick == [T \in SUBSET S |-> LastOf(T)]
           step == [p \in (SUBSET S) \X (SUBSET S) |->
                      IF p[2] = {} THEN p[1] ELSE Added(p[1], LastOf(p[2]))]
<1>1. \A T \in SUBSET S : T # {} => LastOf(T) \in T
    BY WorstExists DEF LastOf, Worst
<1>2. \A T \in SUBSET S : T # {} => pick[T] \in T
    BY <1>1
<1>3. \A d \in SUBSET S : \A T \in SUBSET S : step[<<d, T>>] \in SUBSET S
    BY <1>1 DEF Added
<1>4. {} \in SUBSET S
    OBVIOUS
<1>5. PICK m \in [SUBSET S -> SUBSET S] : \A T \in SUBSET S :
        m[T] = IF T = {} THEN {} ELSE step[<<m[T \ {pick[T]}], T>>]
  <2>1. Takes(S, pick) /\ StaysIn(S, SUBSET S, step)
    <3> HIDE DEF pick, step
    <3> QED BY <1>2, <1>3 DEF Takes, StaysIn
  <2> HIDE DEF pick, step
  <2>2. \E m : FoldedWith(S, SUBSET S, {}, pick, step, m)
      BY <1>4, <2>1, SubsetsFold
  <2> QED BY <2>2 DEF FoldedWith
<1>6. ASSUME NEW T \in SUBSET S, T # {}
      PROVE  step[<<m[T \ {pick[T]}], T>>] = Added(m[T \ {LastOf(T)}], LastOf(T))
  <2>1. m[T \ {LastOf(T)}] \in SUBSET S
      OBVIOUS
  <2> QED BY <1>6, <2>1
<1>7. Selects(S, m)
    BY <1>5, <1>6 DEF Selects
<1>8. Deduplicated(S) = (CHOOSE select : Selects(S, select))[S]
    BY Zenon DEF Deduplicated, Selects, LastOf, Added
<1>9. Selects(S, CHOOSE select : Selects(S, select))
    BY <1>7
<1> QED BY <1>8, <1>9

\* The findings of a page do not overlap, and every match that is not one
\* overlaps a finding that is as good, whatever the patterns have matched and
\* however often (_deduplicate_findings).
THEOREM MatchesAreCovered ==
    ASSUME NEW S \in SUBSET Matches, IsFiniteSet(S)
    PROVE  Deduplicated(S) \subseteq S /\ FindingsCover(S)
<1>1. PICK select : Selects(S, select) /\ Deduplicated(S) = select[S]
    BY DeduplicatedSelects
<1> DEFINE Covered(T) ==
             /\ select[T] \subseteq T
             /\ \A f, g \in select[T] : f # g => ~Overlap(f, g)
             /\ \A f \in T \ select[T] : \E g \in select[T] :
                  /\ Overlap(f, g)
                  /\ g.confidence >= f.confidence
                  /\ g.confidence = f.confidence => g.end - g.start >= f.end - f.start
           Good == {T \in SUBSET S : Covered(T)}
<1>3. \A f, g \in Matches : Overlap(f, g) <=> Overlap(g, f)
    BY DEF Overlap
<1>4. ASSUME NEW T \in SUBSET S, \A x \in T : T \ {x} \in Good PROVE T \in Good
  <2>1. CASE T = {}
    <3>1. select[T] = {}
        BY <1>1, <2>1 DEF Selects
    <3> QED BY <2>1, <3>1
  <2>2. CASE T # {}
    <3> DEFINE last == LastOf(T)
               before == select[T \ {last}]
    <3>1. last \in T /\ \A g \in T \ {last} : ~Better(last, g)
        BY <2>2, WorstExists DEF LastOf, Worst
    <3>2. select[T] = Added(before, last)
        BY <1>1, <2>2 DEF Selects
    <3>3. Covered(T \ {last})
        BY <1>4, <3>1
    <3>4. ASSUME NEW g \in before
          PROVE  /\ g \in Matches /\ last \in Matches
                 /\ g.confidence >= last.confidence
                 /\ g.confidence = last.confidence
                        => g.end - g.start >= last.end - last.start
      <4>1. g \in Matches /\ last \in Matches /\ ~Better(last, g)
          BY <3>1, <3>3
      <4> HIDE DEF last, before
      <4> QED BY MatchTypes, <4>1 DEF Better
    <3>5. CASE \E f \in before : Overlap(last, f)
      <4>1. select[T] = before
          BY <3>2, <3>5 DEF Added
      <4>2. \E g \in before :
              /\ Overlap(last, g)
              /\ g.confidence >= last.confidence
              /\ g.confidence = last.confidence => g.end - g.start >= last.end - last.start
          BY <3>4, <3>5
      <4>3. ASSUME NEW f \in T \ select[T]
            PROVE  \E g \in select[T] :
                     /\ Overlap(f, g)
                     /\ g.confidence >= f.confidence
                     /\ g.confidence = f.confidence => g.end - g.start >= f.end - f.start
        <5>1. CASE f = last
            BY <4>1, <4>2, <5>1
        <5>2. CASE f # last
          <6> HIDE DEF last
          <6> QED BY <3>3, <4>1, <4>3, <5>2
        <5> QED BY <5>1, <5>2
      <4>4. select[T] \subseteq T /\ \A f, g \in select[T] : f # g => ~Overlap(f, g)
          BY <3>3, <4>1
      <4> QED BY <4>3, <4>4
    <3>6. CASE ~\E f \in before : Overlap(last, f)
      <4>1. select[T] = before \union {last}
          BY <3>2, <3>6 DEF Added
      <4>2. ASSUME NEW f \in before \union {last}, NEW g \in before \union {last}, f # g
            PROVE  ~Overlap(f, g)
        <5>1. CASE f \in before /\ g \in before
            BY <3>3, <4>2, <5>1
        <5>2. CASE f = last /\ g \in before
            BY <3>6, <5>2
        <5>3. CASE g = last /\ f \in before
          <6>1. ~Overlap(g, f)
              BY <3>6, <5>3
          <6>2. f \in Matches /\ g \in Matches
              BY <3>4, <5>3
          <6> QED BY <1>3, <6>1, <6>2
        <5> QED BY <4>2, <5>1, <5>2, <5>3
      <4>3. ASSUME NEW f \in T \ select[T]
            PROVE  \E g \in select[T] :
                     /\ Overlap(f, g)
                     /\ g.confidence >= f.confidence
                     /\ g.confidence = f.confidence => g.end - g.start >= f.end - f.start
        <5>1. f \in (T \ {last}) \ before
            BY <4>1, <4>3
        <5> HIDE DEF last
        <5> QED BY <3>3, <4>1, <5>1
      <4>4. select[T] \subseteq T
          BY <3>1, <3>3, <4>1
      <4> QED BY <4>1, <4>2, <4>3, <4>4
    <3> QED BY <3>5, <3>6
  <2> QED BY <2>1, <2>2
<1>5. SUBSET S \subseteq Good
  <2> HIDE DEF Good
  <2> QED BY <1>4, SubsetsGrow
<1>6. Covered(S)
    BY <1>5
<1> QED BY <1>1, <1>6 DEF FindingsCover

-----------------------------------------------------------------------------
(***************************************************************************)
(* What is left of the text.                                               *)
(***************************************************************************)

Disjoint(T) == \A f, g \in T : f # g => ~Overlap(f, g)

Lex(c, d) == c[1] < d[1] \/ (c[1] = d[1] /\ c[2] < d[2])

\* The placeholder of the finding is where the snippets look for it.
Placed(t, T, f) ==
    /\ NewStart(T, f) \in Nat
    /\ NewStart(T, f) + Placeholder <= Len(t)
    /\ \A k \in 1..Placeholder : t[NewStart(T, f) + k] = <<f.start, k>>

\* The text with these findings replaced: what is there, in which order, where,
\* and that nothing has changed before the first of them.
MaskedAs(t, T) ==
    /\ t \in Seq(Characters)
    /\ \A i \in 0..(Length - 1) : i \notin Hidden(T) => \E p \in 1..Len(t) : t[p] = <<i, 0>>
    /\ \A f \in T : \A k \in 1..Placeholder : \E p \in 1..Len(t) : t[p] = <<f.start, k>>
    /\ \A p \in 1..Len(t) :
         \/ t[p][2] = 0 /\ t[p][1] \notin Hidden(T)
         \/ t[p][2] # 0 /\ \E f \in T : t[p][1] = f.start
    /\ \A p, q \in 1..Len(t) : p < q => Lex(t[p], t[q])
    /\ \A n \in 0..Length : (\A f \in T : n <= f.start) =>
         /\ n <= Len(t)
         /\ \A p \in 1..n : t[p] = <<p - 1, 0>>
    /\ \A f \in T : Placed(t, T, f)

LEMMA Sizes == Length \in Nat /\ Length >= 1 /\ Placeholder \in Nat /\ Placeholder >= 1
               /\ Context \in Nat /\ Context >= 1
BY PageAssumption

LEMMA PageIsMasked == MaskedAs(PageCharacters, {})
<1> DEFINE t == PageCharacters
<1>1. t \in [1..Length -> Characters]
    BY Sizes DEF PageCharacters, Characters
<1>2. t \in Seq(Characters) /\ Len(t) = Length
    BY <1>1, Sizes, SeqDef
<1>3. \A p \in 1..Length : t[p] = <<p - 1, 0>>
    BY DEF PageCharacters
<1> HIDE DEF t
<1>4. \A p, q \in 1..Len(t) : p < q => Lex(t[p], t[q])
    BY <1>2, <1>3, Sizes DEF Lex
<1>5. \A i \in 0..(Length - 1) : \E p \in 1..Len(t) : t[p] = <<i, 0>>
  <2> SUFFICES ASSUME NEW i \in 0..(Length - 1) PROVE \E p \in 1..Len(t) : t[p] = <<i, 0>>
      OBVIOUS
  <2>1. i + 1 \in 1..Length /\ (i + 1) - 1 = i
      BY Sizes
  <2> QED BY <1>2, <1>3, <2>1
<1>6. \A p \in 1..Len(t) : t[p][2] = 0 /\ t[p][1] \notin Hidden({})
    BY <1>2, <1>3 DEF Hidden
<1>7. \A n \in 0..Length : n <= Len(t) /\ \A p \in 1..n : t[p] = <<p - 1, 0>>
    BY <1>2, <1>3, Sizes
<1> QED BY <1>2, <1>4, <1>5, <1>6, <1>7 DEF MaskedAs, t

Joined(S, a, b, s) ==
    /\ s \in Seq(S) /\ Len(s) = Len(a) + Len(b)
    /\ \A p \in 1..Len(a) : s[p] = a[p]
    /\ \A p \in 1..Len(b) : s[Len(a) + p] = b[p]

LEMMA TwoParts ==
    ASSUME NEW S, NEW a \in Seq(S), NEW b \in Seq(S) PROVE Joined(S, a, b, a \o b)
<1> DEFINE s == a \o b
<1>1. Len(a) \in Nat /\ Len(b) \in Nat
    BY LenProperties
<1>2. /\ s \in Seq(S) /\ Len(s) = Len(a) + Len(b)
      /\ \A i \in 1..(Len(a) + Len(b)) : s[i] = IF i <= Len(a) THEN a[i] ELSE b[i - Len(a)]
    BY ConcatProperties
<1> HIDE DEF s
<1>3. ASSUME NEW p \in 1..Len(a) PROVE s[p] = a[p]
    BY <1>1, <1>2
<1>4. ASSUME NEW p \in 1..Len(b) PROVE s[Len(a) + p] = b[p]
  <2> DEFINE i == Len(a) + p
  <2>1. i \in 1..(Len(a) + Len(b)) /\ ~(i <= Len(a)) /\ i - Len(a) = p
      BY <1>1
  <2> HIDE DEF i
  <2>2. s[i] = b[p]
      BY <1>2, <2>1
  <2> QED BY <2>2 DEF i
<1> QED BY <1>2, <1>3, <1>4 DEF s, Joined

LEMMA ThreeParts ==
    ASSUME NEW S, NEW a \in Seq(S), NEW b \in Seq(S), NEW c \in Seq(S)
    PROVE  \E ab : Joined(S, a, b, ab) /\ Joined(S, ab, c, (a \o b) \o c)
<1>1. Joined(S, a, b, a \o b)
    BY TwoParts
<1>2. a \o b \in Seq(S)
    BY <1>1 DEF Joined
<1>3. Joined(S, a \o b, c, (a \o b) \o c)
    BY <1>2, TwoParts
<1> QED BY <1>1, <1>3

LEMMA ReplaceParts ==
    ASSUME NEW t \in Seq(Characters), NEW f \in Matches, f.end <= Len(t)
    PROVE  LET new == Replace(t, f)
               moved == f.start + Placeholder - f.end IN
           /\ new \in Seq(Characters)
           /\ Len(new) = Len(t) + moved
           /\ \A p \in 1..f.start : new[p] = t[p]
           /\ \A k \in 1..Placeholder : new[f.start + k] = <<f.start, k>>
           /\ \A q \in (f.end + 1)..Len(t) : new[q + moved] = t[q]
<1>1. f.start \in Nat /\ f.end \in Nat /\ f.start < f.end /\ f.end <= Length
    BY MatchTypes
<1>2. Len(t) \in Nat /\ \A p \in 1..Len(t) : t[p] \in Characters
    BY ElementOfSeq, LenProperties
<1> DEFINE a == SubSeq(t, 1, f.start)
           b == PlaceholderOf(f)
           c == SubSeq(t, f.end + 1, Len(t))
<1>3. a \in Seq(Characters) /\ Len(a) = f.start /\ \A p \in 1..f.start : a[p] = t[p]
  <2>1. \A p \in 1..f.start : t[p] \in Characters
      BY <1>1, <1>2
  <2>2. 1 \in Int /\ f.start \in Int
      BY <1>1
  <2>3. /\ a \in Seq(Characters)
        /\ Len(a) = IF 1 <= f.start THEN f.start - 1 + 1 ELSE 0
        /\ \A p \in 1..(f.start - 1 + 1) : a[p] = t[1 + p - 1]
      BY <2>1, <2>2, SubSeqProperties
  <2> HIDE DEF a
  <2>4. \A p \in 1..f.start : a[p] = t[p]
    <3> SUFFICES ASSUME NEW p \in 1..f.start PROVE a[p] = t[p]
        OBVIOUS
    <3>1. p \in 1..(f.start - 1 + 1) /\ 1 + p - 1 = p
        BY <1>1
    <3> QED BY <2>3, <3>1
  <2> QED BY <1>1, <2>3, <2>4
<1>4. b \in Seq(Characters) /\ Len(b) = Placeholder /\ \A k \in 1..Placeholder : b[k] = <<f.start, k>>
  <2>1. b \in [1..Placeholder -> Characters]
      BY <1>1, Sizes DEF PlaceholderOf, Characters
  <2> QED BY <2>1, Sizes, SeqDef DEF PlaceholderOf
<1>5. c \in Seq(Characters) /\ Len(c) = Len(t) - f.end
      /\ \A p \in 1..(Len(t) - f.end) : c[p] = t[f.end + p]
  <2>1. \A p \in (f.end + 1)..Len(t) : t[p] \in Characters
      BY <1>1, <1>2
  <2>2. f.end + 1 \in Int /\ Len(t) \in Int
      BY <1>1, <1>2
  <2>3. /\ c \in Seq(Characters)
        /\ Len(c) = IF f.end + 1 <= Len(t) THEN Len(t) - (f.end + 1) + 1 ELSE 0
        /\ \A p \in 1..(Len(t) - (f.end + 1) + 1) : c[p] = t[(f.end + 1) + p - 1]
      BY <2>1, <2>2, SubSeqProperties
  <2> HIDE DEF c
  <2>4. \A p \in 1..(Len(t) - f.end) : c[p] = t[f.end + p]
    <3> SUFFICES ASSUME NEW p \in 1..(Len(t) - f.end) PROVE c[p] = t[f.end + p]
        OBVIOUS
    <3>1. p \in 1..(Len(t) - (f.end + 1) + 1) /\ (f.end + 1) + p - 1 = f.end + p
        BY <1>1, <1>2
    <3> QED BY <2>3, <3>1
  <2> QED BY <1>1, <1>2, <2>3, <2>4
<1> DEFINE new == Replace(t, f)
           moved == f.start + Placeholder - f.end
<1>6. new = (a \o b) \o c
    BY DEF Replace
<1> HIDE DEF a, b, c
<1>7. PICK ab : Joined(Characters, a, b, ab) /\ Joined(Characters, ab, c, new)
    BY <1>3, <1>4, <1>5, <1>6, ThreeParts
<1> HIDE DEF new
<1>8. /\ Len(a) = f.start /\ Len(b) = Placeholder /\ Len(c) = Len(t) - f.end
      /\ Len(ab) = f.start + Placeholder
    BY <1>3, <1>4, <1>5, <1>7 DEF Joined
<1>9. new \in Seq(Characters) /\ Len(new) = Len(t) + moved
  <2>1. new \in Seq(Characters) /\ Len(new) = Len(ab) + Len(c)
      BY <1>7 DEF Joined
  <2> DEFINE s == f.start
             e == f.end
             l == Len(t)
  <2>2. Len(ab) = s + Placeholder /\ Len(c) = l - e
      BY <1>8
  <2>3. s \in Int /\ e \in Int /\ l \in Int /\ Placeholder \in Int
      BY <1>1, <1>2, Sizes
  <2>4. Len(new) = (s + Placeholder) + (l - e)
      BY <2>1, <2>2
  <2> HIDE DEF s, e, l
  <2>5. (s + Placeholder) + (l - e) = l + (s + Placeholder - e)
      BY <2>3
  <2> QED BY <2>1, <2>4, <2>5 DEF s, e, l
<1>10. ASSUME NEW p \in 1..f.start PROVE new[p] = t[p]
  <2>1. p \in 1..Len(a) /\ p \in 1..Len(ab)
      BY <1>1, <1>8, Sizes
  <2>2. new[p] = ab[p] /\ ab[p] = a[p]
      BY <1>7, <2>1 DEF Joined
  <2> QED BY <1>3, <2>2
<1>11. ASSUME NEW k \in 1..Placeholder PROVE new[f.start + k] = <<f.start, k>>
  <2>1. k \in 1..Len(b) /\ f.start + k \in 1..Len(ab)
      BY <1>1, <1>8, Sizes
  <2>2. new[f.start + k] = ab[f.start + k] /\ ab[Len(a) + k] = b[k]
      BY <1>7, <2>1 DEF Joined
  <2> QED BY <1>4, <1>8, <2>2
<1>12. ASSUME NEW q \in (f.end + 1)..Len(t) PROVE new[q + moved] = t[q]
  <2> DEFINE p == q - f.end
  <2>1. p \in 1..(Len(t) - f.end) /\ f.end + p = q
      BY <1>1, <1>2
  <2>2. q + moved = Len(ab) + p
      BY <1>1, <1>2, <1>8, Sizes
  <2>3. p \in 1..Len(c)
      BY <1>8, <2>1
  <2> HIDE DEF p, moved
  <2>4. new[q + moved] = c[p]
      BY <1>7, <2>2, <2>3 DEF Joined
  <2> QED BY <1>5, <2>1, <2>4
<1> QED BY <1>9, <1>10, <1>11, <1>12 DEF new

\* What a finding that comes first changes for the others.
LEMMA FirstMoves ==
    ASSUME NEW T \in SUBSET Matches, IsFiniteSet(T), Disjoint(T), NEW f \in T,
           \A g \in T : f.start <= g.start
    PROVE  /\ NewStart(T, f) = f.start
           /\ \A g \in T \ {f} : /\ NewStart(T \ {f}, g) \in Int
                                 /\ NewStart(T, g) = NewStart(T \ {f}, g)
                                                        + (f.start + Placeholder - f.end)
<1> DEFINE R == T \ {f}
           Earlier(S, g) == {h \in S : h.start < g.start}
           Gone(S, g) == {i \in 0..(Length - 1) :
                            \E h \in S : h.start < g.start /\ h.start <= i /\ i < h.end}
<1>1. /\ \A g \in T : g.start \in Nat /\ g.end \in Nat /\ g.start < g.end /\ g.end <= Length
      /\ Length \in Nat /\ Placeholder \in Nat
    BY MatchTypes, Sizes
<1>2. \A S \in SUBSET T : \A g \in T :
        /\ IsFiniteSet(Earlier(S, g)) /\ Cardinality(Earlier(S, g)) \in Nat
        /\ IsFiniteSet(Gone(S, g)) /\ Cardinality(Gone(S, g)) \in Nat
        /\ NewStart(S, g) = g.start + Placeholder * Cardinality(Earlier(S, g))
                                    - Cardinality(Gone(S, g))
  <2> SUFFICES ASSUME NEW S \in SUBSET T, NEW g \in T
               PROVE  /\ IsFiniteSet(Earlier(S, g)) /\ Cardinality(Earlier(S, g)) \in Nat
                      /\ IsFiniteSet(Gone(S, g)) /\ Cardinality(Gone(S, g)) \in Nat
                      /\ NewStart(S, g) = g.start + Placeholder * Cardinality(Earlier(S, g))
                                                  - Cardinality(Gone(S, g))
      OBVIOUS
  <2>1. Earlier(S, g) \in SUBSET T /\ Gone(S, g) \in SUBSET (0..(Length - 1))
      OBVIOUS
  <2>2. 0 \in Int /\ Length - 1 \in Int
      BY <1>1
  <2>3. IsFiniteSet(0..(Length - 1))
      BY <2>2, FS_Interval
  <2>4. NewStart(S, g) = g.start + Placeholder * Cardinality(Earlier(S, g))
                                 - Cardinality(Gone(S, g))
      BY DEF NewStart, Grown, Shrunk
  <2> HIDE DEF Earlier, Gone
  <2> QED BY <2>1, <2>3, <2>4, FS_Subset, FS_CardinalityType
<1>3. NewStart(T, f) = f.start
  <2>1. Earlier(T, f) = {} /\ Gone(T, f) = {}
      BY <1>1
  <2>2. Cardinality(Earlier(T, f)) = 0 /\ Cardinality(Gone(T, f)) = 0
      BY <2>1, FS_EmptySet
  <2> HIDE DEF Earlier, Gone
  <2>3. NewStart(T, f) = f.start + Placeholder * 0 - 0
      BY <1>2, <2>2
  <2> QED BY <1>1, <2>3
<1>4. ASSUME NEW g \in R
      PROVE  /\ NewStart(R, g) \in Int
             /\ NewStart(T, g) = NewStart(R, g) + (f.start + Placeholder - f.end)
  <2>1. f.end <= g.start /\ \A h \in R : f.end <= h.start
    <3>1. \A h \in R : ~Overlap(f, h) /\ f.start <= h.start
        BY DEF Disjoint
    <3> QED BY <1>1, <3>1 DEF Overlap
  <2> DEFINE own == f.start..(f.end - 1)
  <2>2. Earlier(T, g) = Earlier(R, g) \union {f} /\ f \notin Earlier(R, g)
      BY <1>1, <2>1
  <2>3. Gone(T, g) = Gone(R, g) \union own /\ Gone(R, g) \intersect own = {}
    <3>1. \A i \in own : i \in 0..(Length - 1) /\ f.start <= i /\ i < f.end
        BY <1>1
    <3>2. \A i \in Gone(R, g) : ~(i \in own)
        BY <1>1, <2>1
    <3>3. ASSUME NEW i \in Gone(T, g) PROVE i \in Gone(R, g) \union own
      <4>1. PICK h \in T : h.start < g.start /\ h.start <= i /\ i < h.end
          OBVIOUS
      <4>2. CASE h = f
        <5>1. i \in Int /\ f.start <= i /\ i < f.end
            BY <4>1, <4>2
        <5> QED BY <1>1, <5>1
      <4>3. CASE h # f
          BY <4>1, <4>3
      <4> QED BY <4>2, <4>3
    <3>4. ASSUME NEW i \in own PROVE i \in Gone(T, g)
        BY <1>1, <2>1, <3>1
    <3>5. Gone(R, g) \subseteq Gone(T, g)
        OBVIOUS
    <3> HIDE DEF Gone, own
    <3> QED BY <3>2, <3>3, <3>4, <3>5
  <2>4. IsFiniteSet(own) /\ Cardinality(own) = f.end - f.start
    <3>1. f.start \in Int /\ f.end - 1 \in Int /\ ~(f.start > f.end - 1)
        BY <1>1
    <3>2. IsFiniteSet(own) /\ Cardinality(own) = f.end - 1 - f.start + 1
        BY <3>1, FS_Interval
    <3> HIDE DEF own
    <3> QED BY <1>1, <3>2
  <2>5. R \in SUBSET T /\ g \in T
      OBVIOUS
  <2> HIDE DEF Earlier, Gone, own
  <2>6. Cardinality(Earlier(T, g)) = Cardinality(Earlier(R, g)) + 1
      BY <1>2, <2>2, <2>5, FS_AddElement
  <2>7. Cardinality(Gone(T, g)) = Cardinality(Gone(R, g)) + (f.end - f.start)
    <3>1. IsFiniteSet(Gone(R, g)) /\ Cardinality(Gone(R, g)) \in Nat
        BY <1>2, <2>5
    <3>2. Cardinality(Gone(R, g) \union own) =
            Cardinality(Gone(R, g)) + Cardinality(own) - Cardinality(Gone(R, g) \intersect own)
        BY <2>4, <3>1, FS_Union
    <3>3. Cardinality(Gone(R, g) \intersect own) = 0
        BY <2>3, FS_EmptySet
    <3> QED BY <1>1, <2>3, <2>4, <3>1, <3>2, <3>3
  <2> DEFINE a == Cardinality(Earlier(R, g))
             b == Cardinality(Gone(R, g))
  <2>8. a \in Nat /\ b \in Nat
      BY <1>2, <2>5
  <2>9. NewStart(R, g) = g.start + Placeholder * a - b
      BY <1>2, <2>5
  <2>10. NewStart(T, g) = g.start + Placeholder * (a + 1) - (b + (f.end - f.start))
      BY <1>2, <2>6, <2>7
  <2> HIDE DEF a, b
  <2>11. Placeholder * (a + 1) = Placeholder * a + Placeholder /\ Placeholder * a \in Int
      BY <1>1, <2>8
  <2> QED BY <1>1, <2>8, <2>9, <2>10, <2>11
<1> QED BY <1>3, <1>4

\* The first of the findings is replaced when the others have been.
LEMMA ReplaceMasks ==
    ASSUME NEW T \in SUBSET Matches, IsFiniteSet(T), Disjoint(T), NEW f \in T,
           \A g \in T : f.start <= g.start,
           NEW t, MaskedAs(t, T \ {f})
    PROVE  MaskedAs(Replace(t, f), T)
<1> DEFINE R == T \ {f}
           new == Replace(t, f)
           moved == f.start + Placeholder - f.end
<1>1. f.start \in Nat /\ f.end \in Nat /\ f.start < f.end /\ f.end <= Length
    BY MatchTypes
<1>2. \A g \in R : g.start \in Nat /\ g.end \in Nat /\ f.end <= g.start /\ g.start < g.end
  <2> SUFFICES ASSUME NEW g \in R
               PROVE  g.start \in Nat /\ g.end \in Nat /\ f.end <= g.start /\ g.start < g.end
      OBVIOUS
  <2>1. g.start \in Nat /\ g.end \in Nat /\ g.start < g.end
      BY MatchTypes
  <2>2. ~Overlap(f, g)
      BY DEF Disjoint
  <2> QED BY <1>1, <2>1, <2>2 DEF Overlap
<1>3. f.end <= Len(t) /\ \A p \in 1..f.end : t[p] = <<p - 1, 0>>
  <2>1. f.end \in 0..Length
      BY <1>1, Sizes
  <2> QED BY <1>2, <2>1 DEF MaskedAs
<1>4. t \in Seq(Characters) /\ Len(t) \in Nat
    BY LenProperties DEF MaskedAs
<1>5. /\ new \in Seq(Characters)
      /\ Len(new) = Len(t) + moved
      /\ \A p \in 1..f.start : new[p] = t[p]
      /\ \A k \in 1..Placeholder : new[f.start + k] = <<f.start, k>>
      /\ \A q \in (f.end + 1)..Len(t) : new[q + moved] = t[q]
    BY <1>3, <1>4, ReplaceParts
<1> HIDE DEF new
<1>17. Len(new) \in Nat /\ Len(new) = Len(t) + moved
    BY <1>5, LenProperties
<1>18. \A q \in (f.end + 1)..Len(t) : q + moved \in 1..Len(new)
  <2> SUFFICES ASSUME NEW q \in (f.end + 1)..Len(t) PROVE q + moved \in 1..Len(new)
      OBVIOUS
  <2>1. Placeholder \in Nat /\ Placeholder >= 1 /\ Len(t) \in Nat
      BY <1>4, Sizes
  <2>2. f.start \in Nat /\ f.end \in Nat
      BY <1>1
  <2> QED BY <1>17, <2>1, <2>2
<1>19. f.start + Placeholder <= Len(new)
  <2>1. Placeholder \in Nat /\ Len(t) \in Nat /\ f.end <= Len(t)
      BY <1>3, <1>4, Sizes
  <2> QED BY <1>1, <1>17, <2>1
<1>6. \A p \in 1..f.start : new[p] = <<p - 1, 0>>
  <2> SUFFICES ASSUME NEW p \in 1..f.start PROVE new[p] = <<p - 1, 0>>
      OBVIOUS
  <2>1. p \in 1..f.end
      BY <1>1
  <2> QED BY <1>3, <1>5, <2>1
<1>7. \A p \in 1..Len(t) : t[p][1] \in 0..(Length - 1) /\ t[p][2] \in 0..Placeholder
  <2>1. \A p \in 1..Len(t) : t[p] \in Characters
      BY <1>4, ElementOfSeq
  <2> QED BY <2>1 DEF Characters
\* Every place of the new text is one of three.
<1>8. \A p \in 1..Len(new) :
        \/ p \in 1..f.start
        \/ p - f.start \in 1..Placeholder /\ f.start + (p - f.start) = p
        \/ p - moved \in (f.end + 1)..Len(t) /\ (p - moved) + moved = p
  <2> SUFFICES ASSUME NEW p \in 1..Len(new), ~(p \in 1..f.start),
                      ~(p - f.start \in 1..Placeholder)
               PROVE  p - moved \in (f.end + 1)..Len(t) /\ (p - moved) + moved = p
    <3>1. \A p \in 1..Len(new) : f.start + (p - f.start) = p
        BY <1>1, <1>17
    <3> HIDE DEF moved
    <3> QED BY <3>1
  <2>1. Placeholder \in Nat /\ Len(t) \in Nat /\ p \in Nat
      BY <1>4, <1>17, Sizes
  <2>2. p > f.start + Placeholder
      BY <1>1, <2>1
  <2>3. p <= Len(t) + f.start + Placeholder - f.end
      BY <1>1, <1>17, <2>1
  <2>4. p - moved = p - f.start - Placeholder + f.end
      BY <1>1, <2>1
  <2>5. p - f.start - Placeholder + f.end \in (f.end + 1)..Len(t)
    <3>1. \A a, b, c, d, l \in Nat : a + c < d /\ d <= l + a + c - b
                                     => d - a - c + b \in (b + 1)..l
        OBVIOUS
    <3> QED BY <1>1, <2>1, <2>2, <2>3, <3>1
  <2>6. (p - moved) + moved = p
      BY <1>1, <2>1
  <2> HIDE DEF moved
  <2> QED BY <2>4, <2>5, <2>6
<1>9. \A q \in (f.end + 1)..Len(t) : q \in 1..Len(t) /\ t[q][1] \in Nat /\ f.end <= t[q][1]
  <2> SUFFICES ASSUME NEW q \in (f.end + 1)..Len(t)
               PROVE  q \in 1..Len(t) /\ t[q][1] \in Nat /\ f.end <= t[q][1]
      OBVIOUS
  <2>1. q \in 1..Len(t) /\ f.end \in 1..Len(t) /\ f.end < q
      BY <1>1, <1>3, <1>4
  <2>2. Lex(t[f.end], t[q])
      BY <2>1 DEF MaskedAs
  <2>3. t[f.end][1] = f.end - 1 /\ t[f.end][2] = 0
      BY <1>1, <1>3
  <2>4. t[q][1] \in Nat /\ t[q][2] \in Nat
      BY <1>7, <2>1, Sizes
  <2>5. CASE f.end - 1 < t[q][1]
      BY <1>1, <2>1, <2>4, <2>5
  <2>6. CASE ~(f.end - 1 < t[q][1])
    <3>1. t[q][1] = f.end - 1 /\ t[q][2] # 0
        BY <1>1, <2>2, <2>3, <2>4, <2>6 DEF Lex
    <3>2. PICK g \in R : t[q][1] = g.start
        BY <2>1, <3>1 DEF MaskedAs
    <3> QED BY <1>1, <1>2, <3>1, <3>2
  <2> QED BY <2>5, <2>6
<1>10. Hidden(T) = Hidden(R) \union {i \in 0..(Length - 1) : f.start <= i /\ i < f.end}
    BY DEF Hidden
<1>11. \A i \in Hidden(R) : i \in Nat /\ f.end <= i
  <2> SUFFICES ASSUME NEW i \in Hidden(R) PROVE i \in Nat /\ f.end <= i
      OBVIOUS
  <2>1. i \in Nat
      BY Sizes DEF Hidden
  <2>2. PICK g \in R : g.start <= i
      BY DEF Hidden
  <2> QED BY <1>1, <1>2, <2>1, <2>2
<1>12. ASSUME NEW i \in 0..(Length - 1), i \notin Hidden(T)
       PROVE  \E p \in 1..Len(new) : new[p] = <<i, 0>>
  <2>1. i \in Nat /\ i \notin Hidden(R) /\ (i < f.start \/ f.end <= i)
      BY <1>1, <1>10, <1>12, Sizes
  <2>2. CASE i < f.start
    <3>1. i + 1 \in 1..f.start /\ (i + 1) - 1 = i /\ i + 1 \in 1..Len(new)
        BY <1>1, <1>3, <1>4, <1>5, <2>1, <2>2, Sizes
    <3> QED BY <1>6, <3>1
  <2>3. CASE f.end <= i
    <3>1. PICK q \in 1..Len(t) : t[q] = <<i, 0>>
        BY <2>1 DEF MaskedAs
    <3>2. ~(q <= f.end)
        BY <1>1, <1>3, <2>1, <2>3, <3>1
    <3>3. q \in (f.end + 1)..Len(t) /\ q + moved \in 1..Len(new)
        BY <1>1, <1>4, <1>18, <3>1, <3>2
    <3> QED BY <1>5, <3>1, <3>3
  <2> QED BY <2>1, <2>2, <2>3
<1>13. ASSUME NEW g \in T, NEW k \in 1..Placeholder
       PROVE  \E p \in 1..Len(new) : new[p] = <<g.start, k>>
  <2>1. CASE g = f
    <3>1. f.start + k \in 1..Len(new)
        BY <1>1, <1>3, <1>4, <1>5, Sizes
    <3> QED BY <1>5, <2>1, <3>1
  <2>2. CASE g # f
    <3>1. PICK q \in 1..Len(t) : t[q] = <<g.start, k>>
        BY <2>2 DEF MaskedAs
    <3>2. ~(q <= f.end)
      <4> SUFFICES ASSUME q <= f.end PROVE FALSE
          OBVIOUS
      <4>1. q \in 1..f.end
          BY <1>1, <3>1
      <4>2. t[q] = <<q - 1, 0>>
          BY <1>3, <4>1
      <4>3. t[q][2] = 0 /\ t[q][2] = k
          BY <3>1, <4>2
      <4> QED BY <4>3
    <3>3. q \in (f.end + 1)..Len(t) /\ q + moved \in 1..Len(new)
        BY <1>1, <1>4, <1>18, <3>1, <3>2
    <3> QED BY <1>5, <3>1, <3>3
  <2> QED BY <2>1, <2>2
<1>14. ASSUME NEW p \in 1..Len(new)
       PROVE  \/ new[p][2] = 0 /\ new[p][1] \notin Hidden(T)
              \/ new[p][2] # 0 /\ \E g \in T : new[p][1] = g.start
  <2>1. CASE p \in 1..f.start
    <3>1. new[p][1] = p - 1 /\ new[p][2] = 0
        BY <1>6, <2>1
    <3>2. p - 1 < f.start /\ p - 1 < f.end
        BY <1>1, <2>1
    <3>3. p - 1 \notin Hidden(T)
      <4> SUFFICES ASSUME p - 1 \in Hidden(T) PROVE FALSE
          OBVIOUS
      <4>1. p - 1 \in Nat /\ ~(f.start <= p - 1) /\ ~(f.end <= p - 1)
          BY <1>1, <2>1, <3>2
      <4> QED BY <1>10, <1>11, <4>1
    <3> QED BY <3>1, <3>3
  <2>2. CASE p - f.start \in 1..Placeholder /\ f.start + (p - f.start) = p
    <3>1. new[p] = <<f.start, p - f.start>>
        BY <1>5, <2>2
    <3>2. p - f.start # 0
        BY <2>2
    <3>3. new[p][1] = f.start /\ new[p][2] # 0
        BY <3>1, <3>2
    <3> QED BY <3>3
  <2>3. CASE p - moved \in (f.end + 1)..Len(t) /\ (p - moved) + moved = p
    <3> DEFINE q == p - moved
    <3>1. new[p] = t[q]
        BY <1>5, <2>3
    <3>2. q \in 1..Len(t) /\ t[q][1] \in Nat /\ f.end <= t[q][1]
        BY <1>9, <2>3
    <3> HIDE DEF q
    <3>3. \/ t[q][2] = 0 /\ t[q][1] \notin Hidden(R)
          \/ t[q][2] # 0 /\ \E g \in R : t[q][1] = g.start
        BY <3>2 DEF MaskedAs
    <3>4. t[q][1] \notin Hidden(R) => t[q][1] \notin Hidden(T)
        BY <1>1, <1>10, <3>2
    <3> QED BY <3>1, <3>3, <3>4
  <2> QED BY <1>8, <2>1, <2>2, <2>3
<1>15. ASSUME NEW p \in 1..Len(new), NEW q \in 1..Len(new), p < q PROVE Lex(new[p], new[q])
  <2>1. CASE p \in 1..f.start
    <3>1. new[p][1] = p - 1 /\ new[p][2] = 0 /\ p - 1 < f.start /\ p - 1 \in Nat
        BY <1>1, <1>6, <2>1
    <3>2. CASE q \in 1..f.start
      <4>1. new[q][1] = q - 1
          BY <1>6, <3>2
      <4> QED BY <1>1, <1>15, <2>1, <3>1, <3>2, <4>1 DEF Lex
    <3>3. CASE q - f.start \in 1..Placeholder /\ f.start + (q - f.start) = q
      <4>1. new[q] = <<f.start, q - f.start>>
          BY <1>5, <3>3
      <4> QED BY <3>1, <4>1 DEF Lex
    <3>4. CASE q - moved \in (f.end + 1)..Len(t) /\ (q - moved) + moved = q
      <4>1. new[q] = t[q - moved] /\ f.end <= new[q][1] /\ new[q][1] \in Nat
          BY <1>5, <1>9, <3>4
      <4> QED BY <1>1, <3>1, <4>1 DEF Lex
    <3> QED BY <1>8, <3>2, <3>3, <3>4
  <2>2. CASE p - f.start \in 1..Placeholder /\ f.start + (p - f.start) = p
    <3>1. new[p] = <<f.start, p - f.start>>
        BY <1>5, <2>2
    <3>2. ~(q \in 1..f.start)
        BY <1>1, <1>15, <2>2
    <3>3. CASE q - f.start \in 1..Placeholder /\ f.start + (q - f.start) = q
      <4>1. new[q] = <<f.start, q - f.start>>
          BY <1>5, <3>3
      <4>2. p - f.start < q - f.start
          BY <1>1, <1>15, <1>17
      <4> QED BY <3>1, <4>1, <4>2 DEF Lex
    <3>4. CASE q - moved \in (f.end + 1)..Len(t) /\ (q - moved) + moved = q
      <4>1. new[q] = t[q - moved] /\ f.end <= new[q][1] /\ new[q][1] \in Nat
          BY <1>5, <1>9, <3>4
      <4> QED BY <1>1, <3>1, <4>1 DEF Lex
    <3> QED BY <1>8, <3>2, <3>3, <3>4
  <2>3. CASE p - moved \in (f.end + 1)..Len(t) /\ (p - moved) + moved = p
    <3>1. p > f.start + Placeholder
      <4>1. Placeholder \in Nat /\ p \in Nat /\ Len(t) \in Nat
          BY <1>4, <1>17, Sizes
      <4> QED BY <1>1, <2>3, <4>1
    <3>2. ~(q \in 1..f.start) /\ ~(q - f.start \in 1..Placeholder)
      <4>1. Placeholder \in Nat /\ p \in Nat /\ q \in Nat
          BY <1>17, Sizes
      <4> QED BY <1>1, <1>15, <3>1, <4>1
    <3>3. q - moved \in (f.end + 1)..Len(t) /\ (q - moved) + moved = q
        BY <1>8, <3>2
    <3>4. new[p] = t[p - moved] /\ new[q] = t[q - moved]
        BY <1>5, <2>3, <3>3
    <3>5. p - moved \in 1..Len(t) /\ q - moved \in 1..Len(t)
        BY <1>9, <2>3, <3>3
    <3>6. p - moved < q - moved
      <4>1. Placeholder \in Nat /\ p \in Nat /\ q \in Nat
          BY <1>17, Sizes
      <4> QED BY <1>1, <1>15, <4>1
    <3> HIDE DEF moved
    <3> QED BY <3>4, <3>5, <3>6 DEF MaskedAs
  <2> QED BY <1>8, <2>1, <2>2, <2>3
<1>16. ASSUME NEW n \in 0..Length, \A g \in T : n <= g.start
       PROVE  n <= Len(new) /\ \A p \in 1..n : new[p] = <<p - 1, 0>>
  <2>1. n \in Nat /\ n <= f.start
      BY <1>16, Sizes
  <2>2. Len(new) \in Nat /\ f.start <= Len(new)
      BY <1>1, <1>3, <1>4, <1>5, Sizes
  <2>3. \A p \in 1..n : p \in 1..f.start
      BY <1>1, <2>1
  <2> QED BY <1>1, <1>6, <2>1, <2>2, <2>3
<1>20. Placed(new, T, f)
  <2>1. NewStart(T, f) = f.start
      BY FirstMoves
  <2> QED BY <1>1, <1>5, <1>19, <2>1 DEF Placed
<1>21. ASSUME NEW g \in R PROVE Placed(new, T, g)
  <2> DEFINE old == NewStart(R, g)
  <2>1. NewStart(T, g) = old + moved
      BY FirstMoves
  <2>2. old \in Nat /\ old + Placeholder <= Len(t)
        /\ \A k \in 1..Placeholder : t[old + k] = <<g.start, k>>
      BY DEF MaskedAs, Placed
  <2> HIDE DEF old
  <2>3. ASSUME NEW k \in 1..Placeholder PROVE old + k \in (f.end + 1)..Len(t)
    <3>1. old + k \in 1..Len(t)
        BY <1>4, <2>2, Sizes
    <3>2. ~(old + k <= f.end)
      <4> SUFFICES ASSUME old + k <= f.end PROVE FALSE
          OBVIOUS
      <4>1. old + k \in 1..f.end
          BY <1>1, <3>1
      <4>2. t[old + k] = <<(old + k) - 1, 0>>
          BY <1>3, <4>1
      <4>3. t[old + k][2] = 0 /\ t[old + k][2] = k
          BY <2>2, <4>2
      <4> QED BY <4>3
    <3> QED BY <1>1, <1>4, <3>1, <3>2
  <2>4. old + moved \in Nat /\ (old + moved) + Placeholder <= Len(new)
    <3>1. 1 \in 1..Placeholder
        BY Sizes
    <3>2. old + 1 >= f.end + 1
        BY <1>1, <1>4, <2>2, <2>3, <3>1
    <3>3. Placeholder \in Nat /\ Len(t) \in Nat /\ old \in Nat
        BY <1>4, <2>2, Sizes
    <3>4. f.start \in Nat /\ f.end \in Nat /\ old >= f.end /\ old + Placeholder <= Len(t)
        BY <1>1, <2>2, <3>2, <3>3
    <3>5. old + moved = (old - f.end) + f.start + Placeholder
        BY <3>3, <3>4
    <3>6. (old + moved) + Placeholder <= Len(t) + moved
        BY <3>3, <3>4
    <3>7. (old - f.end) + f.start + Placeholder \in Nat
        BY <3>3, <3>4
    <3> HIDE DEF moved
    <3> QED BY <1>17, <3>5, <3>6, <3>7
  <2>5. ASSUME NEW k \in 1..Placeholder PROVE new[(old + moved) + k] = <<g.start, k>>
    <3>1. (old + moved) + k = (old + k) + moved
        BY <1>1, <2>2, Sizes
    <3> HIDE DEF moved
    <3>2. new[(old + k) + moved] = t[old + k]
        BY <1>5, <2>3
    <3> QED BY <2>2, <3>1, <3>2
  <2> QED BY <2>1, <2>4, <2>5 DEF Placed
<1> QED BY <1>5, <1>12, <1>13, <1>14, <1>15, <1>16, <1>20, <1>21 DEF MaskedAs, new

LEMMA FirstExists ==
    ASSUME NEW T \in SUBSET Matches, T # {}
    PROVE  /\ ReplacedLast(T) \in T
           /\ \A g \in T : ReplacedLast(T).start <= g.start
<1>1. {f.start : f \in T} \subseteq Nat /\ {f.start : f \in T} # {}
    BY MatchTypes
<1>2. PICK n \in {f.start : f \in T} : \A m \in {f.start : f \in T} : n <= m
    BY <1>1, LeastNumber
<1>3. PICK f \in T : \A g \in T : f.start <= g.start
    BY <1>2
<1> QED BY <1>3 DEF ReplacedLast

MasksWith(F, masked) ==
    masked = [rest \in SUBSET F |->
                IF rest = {} THEN PageCharacters
                ELSE Replace(masked[rest \ {ReplacedLast(rest)}], ReplacedLast(rest))]

\* The text of a page whose findings are apart has them all replaced.
LEMMA MaskedText ==
    ASSUME NEW F \in SUBSET Matches, IsFiniteSet(F), Disjoint(F)
    PROVE  MaskedAs(Masked(F), F)
<1> DEFINE pick == [T \in SUBSET F |-> ReplacedLast(T)]
           step == [p \in Seq(Characters) \X SUBSET F |->
                      IF p[2] # {} /\ MaskedAs(p[1], p[2] \ {ReplacedLast(p[2])})
                      THEN Replace(p[1], ReplacedLast(p[2])) ELSE PageCharacters]
<1>1. \A T \in SUBSET F : T # {} => ReplacedLast(T) \in T
    BY FirstExists
<1>2. \A T \in SUBSET F : \A t : T # {} /\ MaskedAs(t, T \ {ReplacedLast(T)})
                                    => MaskedAs(Replace(t, ReplacedLast(T)), T)
  <2> SUFFICES ASSUME NEW T \in SUBSET F, NEW t, T # {},
                      MaskedAs(t, T \ {ReplacedLast(T)})
               PROVE  MaskedAs(Replace(t, ReplacedLast(T)), T)
      OBVIOUS
  <2>1. Disjoint(T) /\ T \in SUBSET Matches /\ IsFiniteSet(T)
      BY FS_Subset DEF Disjoint
  <2>2. ReplacedLast(T) \in T /\ \A g \in T : ReplacedLast(T).start <= g.start
      BY <2>1, FirstExists
  <2> QED BY <2>1, <2>2, ReplaceMasks
<1>3. PageCharacters \in Seq(Characters)
    BY PageIsMasked DEF MaskedAs
<1>4. Takes(F, pick)
    BY <1>1 DEF Takes
<1>5. StaysIn(F, Seq(Characters), step)
  <2> SUFFICES ASSUME NEW d \in Seq(Characters), NEW T \in SUBSET F
               PROVE  step[<<d, T>>] \in Seq(Characters)
      BY DEF StaysIn
  <2>1. step[<<d, T>>] = IF T # {} /\ MaskedAs(d, T \ {ReplacedLast(T)})
                         THEN Replace(d, ReplacedLast(T)) ELSE PageCharacters
      OBVIOUS
  <2>2. T # {} /\ MaskedAs(d, T \ {ReplacedLast(T)})
            => Replace(d, ReplacedLast(T)) \in Seq(Characters)
      BY <1>2 DEF MaskedAs
  <2> HIDE DEF step
  <2> QED BY <1>3, <2>1, <2>2
<1>6. PICK m : FoldedWith(F, Seq(Characters), PageCharacters, pick, step, m)
  <2> HIDE DEF pick, step
  <2> QED BY <1>3, <1>4, <1>5, SubsetsFold
<1>7. m \in [SUBSET F -> Seq(Characters)] /\ m[{}] = PageCharacters
    BY <1>6 DEF FoldedWith
<1>8. \A T \in SUBSET F : T # {} => m[T] = step[<<m[T \ {ReplacedLast(T)}], T>>]
  <2> SUFFICES ASSUME NEW T \in SUBSET F, T # {}
               PROVE  m[T] = step[<<m[T \ {ReplacedLast(T)}], T>>]
      OBVIOUS
  <2>1. pick[T] = ReplacedLast(T)
      OBVIOUS
  <2> HIDE DEF pick, step
  <2> QED BY <1>6, <2>1 DEF FoldedWith
<1>9. \A T \in SUBSET F : T # {} =>
        m[T] = IF MaskedAs(m[T \ {ReplacedLast(T)}], T \ {ReplacedLast(T)})
               THEN Replace(m[T \ {ReplacedLast(T)}], ReplacedLast(T)) ELSE PageCharacters
  <2> SUFFICES ASSUME NEW T \in SUBSET F, T # {}
               PROVE  m[T] = IF MaskedAs(m[T \ {ReplacedLast(T)}], T \ {ReplacedLast(T)})
                             THEN Replace(m[T \ {ReplacedLast(T)}], ReplacedLast(T))
                             ELSE PageCharacters
      OBVIOUS
  <2>1. m[T \ {ReplacedLast(T)}] \in Seq(Characters)
      BY <1>7
  <2> QED BY <1>8, <2>1
\* Every text on the way is as it should be, when the function is defined so.
<1>10. ASSUME NEW n, MasksWith(F, n) PROVE MaskedAs(n[F], F)
  <2> DEFINE Good == {T \in SUBSET F : MaskedAs(n[T], T)}
  <2>1. ASSUME NEW T \in SUBSET F, \A x \in T : T \ {x} \in Good PROVE T \in Good
    <3>1. CASE T = {}
      <4>1. n[T] = PageCharacters
          BY <1>10, <3>1 DEF MasksWith
      <4> QED BY <3>1, <4>1, PageIsMasked
    <3>2. CASE T # {}
      <4>1. n[T] = Replace(n[T \ {ReplacedLast(T)}], ReplacedLast(T))
          BY <1>10, <3>2 DEF MasksWith
      <4>2. MaskedAs(n[T \ {ReplacedLast(T)}], T \ {ReplacedLast(T)})
          BY <1>1, <2>1, <3>2
      <4>3. MaskedAs(n[T], T)
          BY <1>2, <3>2, <4>1, <4>2
      <4> QED BY <4>3
    <3> QED BY <3>1, <3>2
  <2>2. SUBSET F \subseteq Good
    <3> HIDE DEF Good
    <3> QED BY <2>1, SubsetsGrow
  <2> QED BY <2>2
\* It is defined so.
<1>11. MasksWith(F, m)
  <2> DEFINE Good == {T \in SUBSET F : MaskedAs(m[T], T)}
  <2>1. ASSUME NEW T \in SUBSET F, \A x \in T : T \ {x} \in Good PROVE T \in Good
    <3>1. CASE T = {}
        BY <1>7, <3>1, PageIsMasked
    <3>2. CASE T # {}
      <4>1. MaskedAs(m[T \ {ReplacedLast(T)}], T \ {ReplacedLast(T)})
          BY <1>1, <2>1, <3>2
      <4>2. m[T] = Replace(m[T \ {ReplacedLast(T)}], ReplacedLast(T))
          BY <1>9, <3>2, <4>1
      <4>3. MaskedAs(m[T], T)
          BY <1>2, <3>2, <4>1, <4>2
      <4> QED BY <4>3
    <3> QED BY <3>1, <3>2
  <2>2. SUBSET F \subseteq Good
    <3> HIDE DEF Good
    <3> QED BY <2>1, SubsetsGrow
  <2>3. \A T \in SUBSET F : T # {} =>
          m[T] = Replace(m[T \ {ReplacedLast(T)}], ReplacedLast(T))
    <3> SUFFICES ASSUME NEW T \in SUBSET F, T # {}
                 PROVE  m[T] = Replace(m[T \ {ReplacedLast(T)}], ReplacedLast(T))
        OBVIOUS
    <3>1. T \ {ReplacedLast(T)} \in Good
        BY <2>2
    <3>2. MaskedAs(m[T \ {ReplacedLast(T)}], T \ {ReplacedLast(T)})
        BY <3>1
    <3> QED BY <1>9, <3>2
  <2> QED BY <1>7, <2>3 DEF MasksWith
<1>12. Masked(F) = (CHOOSE masked : MasksWith(F, masked))[F]
    BY Zenon DEF Masked, MasksWith
<1>13. MasksWith(F, CHOOSE masked : MasksWith(F, masked))
    BY <1>11
<1> QED BY <1>10, <1>12, <1>13

LEMMA MaskedIsExact ==
    ASSUME NEW t, NEW F \in SUBSET Matches, MaskedAs(t, F) PROVE ExactlyMasked(t, F)
<1>1. t \in Seq(Characters) /\ DOMAIN t = 1..Len(t)
    BY DEF MaskedAs
<1>2. \A p \in 1..Len(t) : t[p] \in Characters
    BY <1>1, ElementOfSeq
<1>3. \A p \in 1..Len(t) : t[p] = <<t[p][1], t[p][2]>> /\ t[p][1] \in 0..(Length - 1)
                           /\ t[p][2] \in 0..Placeholder
    BY <1>2 DEF Characters
<1>4. ASSUME NEW p \in 1..Len(t)
      PROVE  t[p] \in {<<i, 0>> : i \in (0..(Length - 1)) \ Hidden(F)}
                        \union {<<f.start, k>> : f \in F, k \in 1..Placeholder}
  <2> DEFINE i == t[p][1]
             k == t[p][2]
  <2>1. t[p] = <<i, k>> /\ i \in 0..(Length - 1) /\ k \in 0..Placeholder
      BY <1>3
  <2>2. (k = 0 /\ i \notin Hidden(F)) \/ (k # 0 /\ \E f \in F : i = f.start)
      BY DEF MaskedAs
  <2> HIDE DEF i, k
  <2>3. CASE k = 0 /\ i \notin Hidden(F)
      BY <2>1, <2>3
  <2>4. CASE k # 0 /\ \E f \in F : i = f.start
    <3>1. k \in 1..Placeholder
        BY <2>1, <2>4, Sizes
    <3>2. PICK f \in F : i = f.start
        BY <2>4
    <3>3. t[p] = <<f.start, k>>
        BY <2>1, <3>2
    <3> QED BY <3>1, <3>3
  <2> QED BY <2>2, <2>3, <2>4
<1>5. ASSUME NEW i \in (0..(Length - 1)) \ Hidden(F)
      PROVE  <<i, 0>> \in {t[p] : p \in DOMAIN t}
    BY <1>1 DEF MaskedAs
<1>6. ASSUME NEW f \in F, NEW k \in 1..Placeholder
      PROVE  <<f.start, k>> \in {t[p] : p \in DOMAIN t}
    BY <1>1 DEF MaskedAs
<1>7. {t[p] : p \in DOMAIN t} =
         {<<i, 0>> : i \in (0..(Length - 1)) \ Hidden(F)}
            \union {<<f.start, k>> : f \in F, k \in 1..Placeholder}
  <2> DEFINE A == {t[p] : p \in DOMAIN t}
             B == {<<i, 0>> : i \in (0..(Length - 1)) \ Hidden(F)}
             C == {<<f.start, k>> : f \in F, k \in 1..Placeholder}
  <2>1. \A x \in B : x \in A
      BY <1>5
  <2>2. \A x \in C : x \in A
      BY <1>6
  <2>3. \A x \in A : x \in B \union C
      BY <1>1, <1>4
  <2> HIDE DEF A, B, C
  <2>4. A = B \union C
      BY <2>1, <2>2, <2>3
  <2> QED BY <2>4 DEF A, B, C
<1>8. \A p, q \in DOMAIN t : p < q =>
         t[p][1] < t[q][1] \/ (t[p][1] = t[q][1] /\ t[p][2] < t[q][2])
    BY <1>1 DEF MaskedAs, Lex
<1> QED BY <1>7, <1>8 DEF ExactlyMasked

\* A part of the text shows what is at the places it covers, and nothing else.
LEMMA PartShows ==
    ASSUME NEW t \in Seq(Characters), NEW lo \in Nat, NEW hi \in Nat, 1 <= lo, hi <= Len(t)
    PROVE  /\ DOMAIN SubSeq(t, lo, hi) = 1..Len(SubSeq(t, lo, hi))
           /\ \A p \in lo..hi : \E i \in DOMAIN SubSeq(t, lo, hi) : SubSeq(t, lo, hi)[i] = t[p]
           /\ \A i \in DOMAIN SubSeq(t, lo, hi) :
                \E p \in 1..Len(t) : SubSeq(t, lo, hi)[i] = t[p]
<1> DEFINE s == SubSeq(t, lo, hi)
<1>1. Len(t) \in Nat
    BY LenProperties
<1>2. \A i \in lo..hi : t[i] \in Characters
  <2>1. \A i \in lo..hi : i \in 1..Len(t)
      BY <1>1
  <2> QED BY <2>1, ElementOfSeq
<1>3. /\ s \in Seq(Characters)
      /\ Len(s) = IF lo <= hi THEN hi - lo + 1 ELSE 0
      /\ \A i \in 1..(hi - lo + 1) : s[i] = t[lo + i - 1]
  <2>1. lo \in Int /\ hi \in Int
      OBVIOUS
  <2> QED BY <1>2, <2>1, SubSeqProperties
<1> HIDE DEF s
<1>4. DOMAIN s = 1..Len(s)
    BY <1>3, LenProperties
<1>5. ASSUME NEW p \in lo..hi PROVE \E i \in DOMAIN s : s[i] = t[p]
  <2> DEFINE i == p - lo + 1
  <2>1. i \in 1..(hi - lo + 1) /\ lo + i - 1 = p /\ lo <= hi
      OBVIOUS
  <2> HIDE DEF i
  <2>2. i \in DOMAIN s /\ s[i] = t[p]
      BY <1>3, <1>4, <2>1
  <2> QED BY <2>2
<1>6. ASSUME NEW i \in DOMAIN s PROVE \E p \in 1..Len(t) : s[i] = t[p]
  <2> DEFINE p == lo + i - 1
  <2>1. i \in 1..(hi - lo + 1)
    <3>1. i \in 1..Len(s)
        BY <1>4
    <3>2. CASE lo <= hi
        BY <1>3, <3>1, <3>2
    <3>3. CASE ~(lo <= hi)
        BY <1>3, <3>1, <3>3
    <3> QED BY <3>2, <3>3
  <2>2. p \in 1..Len(t)
      BY <1>1, <2>1
  <2> QED BY <1>3, <2>1, <2>2
<1> QED BY <1>4, <1>5, <1>6 DEF s

LEMMA SnippetIsSafe ==
    ASSUME NEW F \in SUBSET Matches, IsFiniteSet(F), Disjoint(F), NEW f \in F
    PROVE  ContextIsSafe(F, f)
<1> DEFINE t == Masked(F)
           from == NewStart(F, f)
           till == from + Placeholder + Context
           lo == IF from > Context THEN from - Context + 1 ELSE 1
           hi == IF till < Len(t) THEN till ELSE Len(t)
           snippet == SubSeq(t, lo, hi)
<1>1. MaskedAs(t, F)
    BY MaskedText
<1>2. snippet = SafeContext(F, f)
    BY DEF SafeContext
<1> HIDE DEF t, from
<1>3. t \in Seq(Characters) /\ Len(t) \in Nat
    BY <1>1, LenProperties DEF MaskedAs
<1>4. /\ from \in Nat /\ from + Placeholder <= Len(t)
      /\ \A k \in 1..Placeholder : t[from + k] = <<f.start, k>>
    BY <1>1 DEF MaskedAs, Placed, from
<1>5. /\ lo \in Nat /\ 1 <= lo /\ lo <= from + 1
      /\ hi \in Nat /\ hi <= Len(t) /\ from + Placeholder <= hi
  <2>1. Placeholder \in Nat /\ Context \in Nat
      BY Sizes
  <2>2. lo \in Nat /\ 1 <= lo /\ lo <= from + 1
      BY <1>4, <2>1
  <2>3. hi \in Nat /\ hi <= Len(t) /\ from + Placeholder <= hi
      BY <1>3, <1>4, <2>1
  <2> QED BY <2>2, <2>3
<1> HIDE DEF lo, hi
<1>6. /\ \A p \in lo..hi : \E i \in DOMAIN snippet : snippet[i] = t[p]
      /\ \A i \in DOMAIN snippet : \E p \in 1..Len(t) : snippet[i] = t[p]
    BY <1>3, <1>5, PartShows
<1> HIDE DEF snippet
<1>7. ASSUME NEW k \in 1..Placeholder
      PROVE  <<f.start, k>> \in {snippet[p] : p \in DOMAIN snippet}
  <2>1. from + k \in lo..hi
      BY <1>4, <1>5, Sizes
  <2>2. PICK i \in DOMAIN snippet : snippet[i] = t[from + k]
      BY <1>6, <2>1
  <2> QED BY <1>4, <2>2
<1>8. ASSUME NEW i \in Hidden(F), <<i, 0>> \in {snippet[p] : p \in DOMAIN snippet}
      PROVE  FALSE
  <2>1. PICK n \in DOMAIN snippet : snippet[n] = <<i, 0>>
      BY <1>8
  <2>2. PICK p \in 1..Len(t) : snippet[n] = t[p]
      BY <1>6
  <2>3. t[p] = <<i, 0>>
      BY <2>1, <2>2
  <2>4. t[p][1] = i /\ t[p][2] = 0
      BY <2>3
  <2> QED BY <1>1, <2>4 DEF MaskedAs
<1>9. /\ {<<f.start, k>> : k \in 1..Placeholder} \subseteq {snippet[p] : p \in DOMAIN snippet}
      /\ \A i \in Hidden(F) : <<i, 0>> \notin {snippet[p] : p \in DOMAIN snippet}
    BY <1>7, <1>8
<1> QED BY <1>2, <1>9 DEF ContextIsSafe

-----------------------------------------------------------------------------
(***************************************************************************)
(* The page on its way to the approval.                                    *)
(***************************************************************************)

MaskInv ==
    /\ findings \in SUBSET Matches /\ IsFiniteSet(findings)
    /\ stage \in {"detect", "review", "masked", "chunking", "chunked", "image"}
    /\ Disjoint(findings)
    /\ stage = "review" => matches \in SUBSET Matches /\ IsFiniteSet(matches)
                           /\ findings = Deduplicated(matches)
    /\ stage \in {"masked", "chunking", "chunked"} => MaskedAs(text, findings)

LEMMA MaskInvInit == Init => MaskInv
BY FS_EmptySet DEF Init, MaskInv, Disjoint

LEMMA MaskInvStep == MaskInv /\ [Next]_vars => MaskInv'
<1> SUFFICES ASSUME MaskInv, [Next]_vars PROVE MaskInv'
    OBVIOUS
<1>1. CASE Detect
  <2>1. PICK f \in Matches, g \in Matches, h \in Matches :
          matches' = {f, g, h} /\ findings' = Deduplicated({f, g, h})
      BY <1>1 DEF Detect
  <2> DEFINE S == {f, g, h}
  <2>2. S \in SUBSET Matches /\ IsFiniteSet(S)
    <3>1. IsFiniteSet({}) /\ {} \union {f} \union {g} \union {h} = S
        BY FS_EmptySet
    <3>2. IsFiniteSet({} \union {f} \union {g} \union {h})
        BY <3>1, FS_AddElement
    <3> QED BY <3>1, <3>2
  <2> HIDE DEF S
  <2>3. Deduplicated(S) \subseteq S /\ Disjoint(Deduplicated(S))
      BY <2>2, MatchesAreCovered DEF FindingsCover, Disjoint
  <2>4. Deduplicated(S) \in SUBSET Matches /\ IsFiniteSet(Deduplicated(S))
      BY <2>2, <2>3, FS_Subset
  <2>5. matches' = S /\ findings' = Deduplicated(S) /\ stage' = "review"
      BY <1>1, <2>1 DEF Detect, S
  <2> QED BY <2>2, <2>3, <2>4, <2>5 DEF MaskInv
<1>2. CASE ApproveText
  <2>1. findings' \in SUBSET findings /\ text' = Masked(findings') /\ stage' = "masked"
      BY <1>2 DEF ApproveText
  <2>2. findings' \in SUBSET Matches /\ IsFiniteSet(findings')
      BY <2>1, FS_Subset DEF MaskInv
  <2>3. Disjoint(findings')
      BY <2>1 DEF MaskInv, Disjoint
  <2>4. MaskedAs(text', findings')
      BY <2>1, <2>2, <2>3, MaskedText
  <2> QED BY <2>1, <2>2, <2>3, <2>4 DEF MaskInv
<1>3. CASE ApproveImage
    BY <1>3 DEF ApproveImage, MaskInv
<1>4. CASE ChunkPage \/ NextWindow \/ NoMoreWindows
    BY <1>4 DEF ChunkPage, NextWindow, NoMoreWindows, MaskInv
<1>5. CASE UNCHANGED vars
    BY <1>5 DEF vars, MaskInv
<1> QED BY <1>1, <1>2, <1>3, <1>4, <1>5 DEF Next

\* The text of an approved page has the accepted findings replaced and nothing
\* else, for pages, placeholders and patterns of any length (approve_redactions).
THEOREM TextStaysExactlyMasked == Spec => []TextIsExactlyMasked
<1>1. MaskInv => TextIsExactlyMasked
    BY MaskedIsExact DEF MaskInv, TextIsExactlyMasked
<1> QED BY <1>1, MaskInvInit, MaskInvStep, PTL DEF Spec

\* What a reviewer is asked to decide covers all matches, and the snippets shown
\* of it have no finding in them, for pages, placeholders, snippets and patterns
\* of any length (_deduplicate_findings, generate_safe_contexts_for_page).
THEOREM FindingsStaySafe == Spec => []FindingsAreSafe
<1>1. MaskInv => FindingsAreSafe
  <2> SUFFICES ASSUME MaskInv, stage = "review"
               PROVE  FindingsCover(matches) /\ \A f \in findings : ContextIsSafe(findings, f)
      BY DEF FindingsAreSafe
  <2>1. FindingsCover(matches)
      BY MatchesAreCovered DEF MaskInv
  <2>2. \A f \in findings : ContextIsSafe(findings, f)
      BY SnippetIsSafe DEF MaskInv
  <2> QED BY <2>1, <2>2
<1> QED BY <1>1, MaskInvInit, MaskInvStep, PTL DEF Spec

-----------------------------------------------------------------------------
(***************************************************************************)
(* The windows of a page: what the masked text looks like, where a window  *)
(* may be cut, and what the windows made so far hold of the page.          *)
(***************************************************************************)

KindNames == {"plain", "line", "space", "token"}

LEMMA WindowSizes ==
    /\ Target \in Nat /\ BackTo \in Nat /\ BackTo >= 1 /\ OverlapChars \in Nat
    /\ OverlapChars >= 1 /\ MaxToken \in Nat /\ OverlapChars + BackTo + MaxToken <= Target
BY SizesAssumption

\* The blanks before and after are counted right.
LEMMA LeadingCounts ==
    ASSUME NEW ks \in Seq(KindNames)
    PROVE  /\ Leading(ks) \in 0..Len(ks)
           /\ \A p \in 1..Leading(ks) : Blank(ks[p])
           /\ Leading(ks) < Len(ks) => ~Blank(ks[Leading(ks) + 1])
<1>1. Len(ks) \in Nat
    BY LenProperties
<1> DEFINE Stops == {n \in 0..Len(ks) : n = Len(ks) \/ ~Blank(ks[n + 1])}
<1>2. Stops \subseteq Nat /\ Len(ks) \in Stops
    BY <1>1
<1>3. PICK n \in Stops : \A m \in Stops : n <= m
  <2> HIDE DEF Stops
  <2> QED BY <1>2, LeastNumber
<1>4. n \in 0..Len(ks) /\ (n < Len(ks) => ~Blank(ks[n + 1]))
    BY <1>1
<1>5. ASSUME NEW p \in 1..n PROVE Blank(ks[p])
  <2> DEFINE m == p - 1
  <2>1. m \in 0..Len(ks) /\ m # Len(ks) /\ ~(n <= m) /\ m + 1 = p
      BY <1>1, <1>4
  <2> HIDE DEF m
  <2>2. m \notin Stops
      BY <1>3, <2>1
  <2>3. Blank(ks[m + 1])
      BY <2>1, <2>2
  <2> QED BY <2>1, <2>3
<1>6. \E k \in 0..Len(ks) : (\A p \in 1..k : Blank(ks[p])) /\ (k < Len(ks) => ~Blank(ks[k + 1]))
    BY <1>4, <1>5
<1> HIDE DEF Stops
<1> QED BY <1>6 DEF Leading

LEMMA TrailingCounts ==
    ASSUME NEW ks \in Seq(KindNames)
    PROVE  /\ Trailing(ks) \in 0..Len(ks)
           /\ \A p \in (Len(ks) - Trailing(ks) + 1)..Len(ks) : Blank(ks[p])
           /\ Trailing(ks) < Len(ks) => ~Blank(ks[Len(ks) - Trailing(ks)])
<1>1. Len(ks) \in Nat
    BY LenProperties
<1> DEFINE Stops == {n \in 0..Len(ks) : n = Len(ks) \/ ~Blank(ks[Len(ks) - n])}
<1>2. Stops \subseteq Nat /\ Len(ks) \in Stops
    BY <1>1
<1>3. PICK n \in Stops : \A m \in Stops : n <= m
  <2> HIDE DEF Stops
  <2> QED BY <1>2, LeastNumber
<1>4. n \in 0..Len(ks) /\ (n < Len(ks) => ~Blank(ks[Len(ks) - n]))
    BY <1>1
<1>5. ASSUME NEW p \in (Len(ks) - n + 1)..Len(ks) PROVE Blank(ks[p])
  <2> DEFINE m == Len(ks) - p
  <2>1. m \in 0..Len(ks) /\ m # Len(ks) /\ ~(n <= m) /\ Len(ks) - m = p
      BY <1>1, <1>4
  <2> HIDE DEF m
  <2>2. m \notin Stops
      BY <1>3, <2>1
  <2>3. Blank(ks[Len(ks) - m])
      BY <2>1, <2>2
  <2> QED BY <2>1, <2>3
<1>6. \E k \in 0..Len(ks) : (\A p \in (Len(ks) - k + 1)..Len(ks) : Blank(ks[p]))
                            /\ (k < Len(ks) => ~Blank(ks[Len(ks) - k]))
    BY <1>4, <1>5
<1> HIDE DEF Stops
<1> QED BY <1>6 DEF Trailing

\* How much is left.
Left(ks) == IF Leading(ks) = Len(ks) THEN 0 ELSE Len(ks) - Trailing(ks) - Leading(ks)

LEMMA LeftOver ==
    ASSUME NEW ks \in Seq(KindNames)
    PROVE  /\ Left(ks) \in Nat /\ Leading(ks) \in Nat /\ Leading(ks) + Left(ks) <= Len(ks)
           /\ Leading(ks) # Len(ks) => Left(ks) > 0
           /\ \A q \in 1..Len(ks) : ~Blank(ks[q]) =>
                Leading(ks) < q /\ q <= Leading(ks) + Left(ks)
<1> DEFINE a == Leading(ks)
           b == Trailing(ks)
           n == Len(ks)
<1>1. /\ a \in 0..n /\ b \in 0..n /\ n \in Nat
      /\ \A p \in 1..a : Blank(ks[p])
      /\ a < n => ~Blank(ks[a + 1])
      /\ \A p \in (n - b + 1)..n : Blank(ks[p])
    BY LeadingCounts, TrailingCounts, LenProperties
<1>2. Left(ks) = IF a = n THEN 0 ELSE n - b - a
    BY DEF Left
<1> HIDE DEF a, b, n
<1>3. CASE a = n
  <2>1. \A q \in 1..n : q \in 1..a
      BY <1>3
  <2>2. Left(ks) = 0
      BY <1>2, <1>3
  <2> QED BY <1>1, <1>3, <2>1, <2>2 DEF a, n
<1>4. CASE a # n
  <2>1. Left(ks) = n - b - a
      BY <1>2, <1>4
  <2>2. ~(a + 1 >= n - b + 1)
    <3> SUFFICES ASSUME a + 1 >= n - b + 1 PROVE FALSE
        OBVIOUS
    <3>1. a + 1 \in (n - b + 1)..n /\ a < n
        BY <1>1, <1>4
    <3> QED BY <1>1, <3>1
  <2>3. Left(ks) \in Nat /\ a + Left(ks) <= n /\ Left(ks) > 0 /\ a + Left(ks) = n - b
      BY <1>1, <2>1, <2>2
  <2>4. ASSUME NEW q \in 1..n, ~Blank(ks[q]) PROVE a < q /\ q <= a + Left(ks)
    <3>1. q \notin 1..a /\ q \notin (n - b + 1)..n
        BY <1>1, <2>4
    <3> QED BY <1>1, <2>3, <3>1
  <2> QED BY <1>1, <2>3, <2>4 DEF a, n
<1> QED BY <1>3, <1>4

\* What is left of a sequence is a part of it.
LEMMA StripLeaves ==
    ASSUME NEW S, NEW s \in Seq(S), NEW ks \in Seq(KindNames), Len(s) = Len(ks)
    PROVE  /\ Strip(s, ks) \in Seq(S)
           /\ Len(Strip(s, ks)) = Left(ks)
           /\ Left(ks) # 0 => Strip(s, ks) = SubSeq(s, Leading(ks) + 1, Leading(ks) + Left(ks))
           /\ \A p \in 1..Left(ks) : Strip(s, ks)[p] = s[Leading(ks) + p]
<1>1. /\ Left(ks) \in Nat /\ Leading(ks) \in Nat /\ Leading(ks) + Left(ks) <= Len(ks)
      /\ Leading(ks) # Len(ks) => Left(ks) > 0
      /\ Trailing(ks) \in 0..Len(ks) /\ Len(ks) \in Nat
    BY LeftOver, TrailingCounts, LenProperties
<1>2. CASE Leading(ks) = Len(ks)
  <2>1. Strip(s, ks) = <<>> /\ Left(ks) = 0
      BY <1>2 DEF Strip, Left
  <2>2. <<>> \in Seq(S) /\ Len(<<>>) = 0
      BY EmptySeq
  <2> QED BY <2>1, <2>2
<1>3. CASE Leading(ks) # Len(ks)
  <2> DEFINE lo == Leading(ks) + 1
             hi == Leading(ks) + Left(ks)
             c == SubSeq(s, lo, hi)
  <2>1. Strip(s, ks) = SubSeq(s, lo, Len(s) - Trailing(ks))
      BY <1>3 DEF Strip
  <2>2. Left(ks) = Len(ks) - Trailing(ks) - Leading(ks)
      BY <1>3 DEF Left
  <2>3. Len(s) - Trailing(ks) = hi
      BY <1>1, <2>2
  <2>4. Strip(s, ks) = c
      BY <2>1, <2>3
  <2>5. lo \in Int /\ hi \in Int /\ lo <= hi /\ hi - lo + 1 = Left(ks) /\ Left(ks) # 0
      BY <1>1, <1>3
  <2>6. \A i \in lo..hi : i \in 1..Len(s)
      BY <1>1
  <2>7. \A p \in 1..Left(ks) : lo + p - 1 = Leading(ks) + p
      BY <1>1
  <2> HIDE DEF lo, hi
  <2>8. \A i \in lo..hi : s[i] \in S
      BY <2>6, ElementOfSeq
  <2>9. /\ c \in Seq(S)
        /\ Len(c) = IF lo <= hi THEN hi - lo + 1 ELSE 0
        /\ \A i \in 1..(hi - lo + 1) : c[i] = s[lo + i - 1]
      BY <2>5, <2>8, SubSeqProperties
  <2> HIDE DEF c
  <2>10. c \in Seq(S) /\ Len(c) = Left(ks) /\ \A p \in 1..Left(ks) : c[p] = s[Leading(ks) + p]
      BY <2>5, <2>7, <2>9
  <2> QED BY <2>4, <2>10 DEF c, lo, hi
<1> QED BY <1>2, <1>3

-----------------------------------------------------------------------------
(***************************************************************************)
(* Where a window ends, and where the next one begins.                     *)
(***************************************************************************)

\* What looks like a placeholder to the chunker is in one piece, and short.
InOnePiece(ks) ==
    \A p, q \in 1..Len(ks) : ks[p] = "token" /\ ks[q] = "token" /\ p <= q =>
        /\ q - p < MaxToken
        /\ \A r \in p..q : ks[r] = "token"

\* The characters of the page: those of a placeholder that was put in are
\* plain, and all there.
Laid(t, ks) ==
    /\ t \in Seq(Characters) /\ ks \in Seq(KindNames) /\ Len(ks) = Len(t)
    /\ \A p \in 1..Len(t) : t[p][2] # 0 => ks[p] = "plain"
    /\ \A p \in 1..Len(t) : t[p][2] = 1 =>
         /\ p + Placeholder - 1 <= Len(t)
         /\ \A r \in p..(p + Placeholder - 1) : t[r][2] # 0
    /\ InOnePiece(ks)

\* Stripping takes nothing of that away.
LEMMA CleanIsLaid ==
    ASSUME Laid(text, kinds)
    PROVE  /\ Laid(Clean, CleanKinds)
           /\ DOMAIN Clean = 1..Len(Clean) /\ DOMAIN CleanKinds = 1..Len(Clean)
           /\ Len(Clean) \in Nat /\ Len(Clean) <= Len(text)
           /\ Len(Clean) = Left(kinds)
<1> DEFINE a == Leading(kinds)
           l == Left(kinds)
<1>1. /\ text \in Seq(Characters) /\ kinds \in Seq(KindNames)
      /\ Len(kinds) = Len(text) /\ Len(text) \in Nat
    BY LenProperties DEF Laid
<1>2. /\ l \in Nat /\ a \in Nat /\ a + l <= Len(text)
      /\ \A q \in 1..Len(text) : ~Blank(kinds[q]) => a < q /\ q <= a + l
    BY <1>1, LeftOver
<1>3. Clean \in Seq(Characters) /\ Len(Clean) = l /\ \A p \in 1..l : Clean[p] = text[a + p]
    BY <1>1, StripLeaves DEF Clean
<1>4. CleanKinds \in Seq(KindNames) /\ Len(CleanKinds) = l
      /\ \A p \in 1..l : CleanKinds[p] = kinds[a + p]
    BY <1>1, StripLeaves DEF CleanKinds
<1> HIDE DEF a, l
<1>5. \A p \in 1..l : a + p \in 1..Len(text)
    BY <1>1, <1>2
<1>6. \A p \in 1..Len(Clean) : Clean[p][2] # 0 => CleanKinds[p] = "plain"
    BY <1>1, <1>3, <1>4, <1>5 DEF Laid
<1>7. ASSUME NEW p \in 1..Len(Clean), Clean[p][2] = 1
      PROVE  /\ p + Placeholder - 1 <= Len(Clean)
             /\ \A r \in p..(p + Placeholder - 1) : Clean[r][2] # 0
  <2> DEFINE last == a + (p + Placeholder - 1)
  <2>1. Placeholder \in Nat /\ Placeholder >= 1 /\ p \in Nat /\ p >= 1 /\ p <= l
      BY <1>2, <1>3, Sizes
  <2>2. a + p \in 1..Len(text) /\ text[a + p][2] = 1
      BY <1>3, <1>5, <1>7
  <2>3. a + p + Placeholder - 1 = last /\ last \in Nat /\ a + p <= last
      BY <1>2, <2>1
  <2>4. last <= Len(text) /\ \A r \in (a + p)..last : text[r][2] # 0
    <3> HIDE DEF last
    <3> QED BY <2>2, <2>3 DEF Laid
  <2>5. last \in 1..Len(text) /\ last \in (a + p)..last
      BY <1>1, <1>2, <2>1, <2>3, <2>4
  <2>6. kinds[last] = "plain"
      BY <2>4, <2>5 DEF Laid
  <2>7. ~Blank(kinds[last])
      BY <2>6 DEF Blank
  <2>8. last <= a + l
      BY <1>2, <2>5, <2>7
  <2>9. p + Placeholder - 1 <= l
      BY <1>2, <2>1, <2>8
  <2>10. ASSUME NEW r \in p..(p + Placeholder - 1) PROVE Clean[r][2] # 0
    <3>1. r \in 1..l /\ a + r \in (a + p)..last
        BY <1>2, <2>1, <2>9
    <3> HIDE DEF last
    <3> QED BY <1>3, <2>4, <3>1
  <2> QED BY <1>3, <2>9, <2>10
<1>8. InOnePiece(CleanKinds)
  <2> SUFFICES ASSUME NEW p \in 1..l, NEW q \in 1..l, CleanKinds[p] = "token",
                      CleanKinds[q] = "token", p <= q
               PROVE  q - p < MaxToken /\ \A r \in p..q : CleanKinds[r] = "token"
      BY <1>4 DEF InOnePiece
  <2>1. /\ a + p \in 1..Len(kinds) /\ a + q \in 1..Len(kinds)
        /\ kinds[a + p] = "token" /\ kinds[a + q] = "token"
      BY <1>1, <1>4, <1>5
  <2>2. a + p <= a + q /\ (a + q) - (a + p) = q - p
      BY <1>2
  <2>3. q - p < MaxToken /\ \A r \in (a + p)..(a + q) : kinds[r] = "token"
      BY <2>1, <2>2 DEF Laid, InOnePiece
  <2>4. \A r \in p..q : r \in 1..l /\ a + r \in (a + p)..(a + q)
      BY <1>2
  <2> QED BY <1>4, <2>3, <2>4
<1>9. DOMAIN Clean = 1..Len(Clean) /\ DOMAIN CleanKinds = 1..Len(CleanKinds)
    BY <1>3, <1>4, LenProperties
<1>10. Laid(Clean, CleanKinds)
    BY <1>3, <1>4, <1>6, <1>7, <1>8 DEF Laid
<1> QED BY <1>1, <1>2, <1>3, <1>4, <1>9, <1>10 DEF l

\* A point at which nothing is cut in two.
Between(x) == \A s \in ProtectedSpans : ~(s[1] < x /\ x < s[2])

LEMMA SpansHold ==
    ASSUME Laid(text, kinds), NEW s \in ProtectedSpans
    PROVE  /\ s[1] \in Nat /\ s[2] \in Nat
           /\ s[1] < s[2] /\ s[2] <= Len(Clean) /\ s[2] - s[1] <= MaxToken
           /\ \A r \in (s[1] + 1)..s[2] : CleanKinds[r] = "token"
           /\ \A r \in 1..Len(Clean) : CleanKinds[r] = "token" => s[1] < r /\ r <= s[2]
<1> DEFINE ks == CleanKinds
           tokens == {p \in DOMAIN CleanKinds : CleanKinds[p] = "token"}
<1>1. /\ DOMAIN ks = 1..Len(ks) /\ Len(ks) \in Nat /\ Len(ks) = Len(Clean)
      /\ InOnePiece(ks)
    BY CleanIsLaid DEF Laid
<1>2. PICK p \in tokens, q \in tokens :
        s = <<p - 1, q>> /\ p - 1 \notin tokens /\ q + 1 \notin tokens
    BY DEF ProtectedSpans
<1>3. tokens \subseteq 1..Len(ks) /\ \A r \in 1..Len(ks) : r \in tokens <=> ks[r] = "token"
    BY <1>1
<1>4. \A r \in tokens : \A t \in tokens : r <= t =>
        t - r < MaxToken /\ \A u \in r..t : u \in 1..Len(ks) /\ u \in tokens
  <2> SUFFICES ASSUME NEW r \in tokens, NEW t \in tokens, r <= t
               PROVE  t - r < MaxToken /\ \A u \in r..t : u \in 1..Len(ks) /\ u \in tokens
      OBVIOUS
  <2>1. r \in 1..Len(ks) /\ t \in 1..Len(ks) /\ ks[r] = "token" /\ ks[t] = "token"
      BY <1>3
  <2>2. t - r < MaxToken /\ \A u \in r..t : ks[u] = "token"
      BY <1>1, <2>1 DEF InOnePiece
  <2>3. \A u \in r..t : u \in 1..Len(ks)
      BY <1>1, <2>1
  <2> QED BY <1>3, <2>2, <2>3
<1> HIDE DEF ks, tokens
<1>5. \A r \in tokens : p <= r /\ r <= q
  <2> SUFFICES ASSUME NEW r \in tokens PROVE p <= r /\ r <= q
      OBVIOUS
  <2>1. p \in Nat /\ q \in Nat /\ r \in Nat
      BY <1>1, <1>3
  <2>2. CASE ~(p <= r)
    <3>1. p - 1 \in r..p /\ r <= p
        BY <2>1, <2>2
    <3> QED BY <1>2, <1>4, <3>1
  <2>3. CASE ~(r <= q)
    <3>1. q + 1 \in q..r /\ q <= r
        BY <2>1, <2>3
    <3> QED BY <1>2, <1>4, <3>1
  <2> QED BY <2>2, <2>3
<1>6. p \in 1..Len(ks) /\ q \in 1..Len(ks) /\ p <= q /\ q - p < MaxToken
    BY <1>3, <1>4, <1>5
<1>7. s[1] = p - 1 /\ s[2] = q /\ s[1] + 1 = p
    BY <1>1, <1>2, <1>6
<1>8. \A r \in p..q : ks[r] = "token"
    BY <1>3, <1>4, <1>6
<1>9. \A r \in 1..Len(ks) : ks[r] = "token" => p - 1 < r /\ r <= q
  <2> SUFFICES ASSUME NEW r \in 1..Len(ks), ks[r] = "token" PROVE p - 1 < r /\ r <= q
      OBVIOUS
  <2>1. p <= r /\ r <= q
      BY <1>3, <1>5
  <2> QED BY <1>1, <1>6, <2>1
<1>10. p - 1 \in Nat /\ q \in Nat /\ p - 1 < q /\ q <= Len(ks) /\ q - (p - 1) <= MaxToken
    BY <1>1, <1>6, WindowSizes
<1> QED BY <1>1, <1>7, <1>8, <1>9, <1>10 DEF ks

\* The ends of the spans are points between them.
LEMMA SpanEnds ==
    ASSUME Laid(text, kinds), NEW s \in ProtectedSpans PROVE Between(s[1]) /\ Between(s[2])
<1> SUFFICES ASSUME NEW t \in ProtectedSpans
             PROVE  ~(t[1] < s[1] /\ s[1] < t[2]) /\ ~(t[1] < s[2] /\ s[2] < t[2])
    BY DEF Between
<1>1. /\ s[1] \in Nat /\ s[2] \in Nat /\ s[1] < s[2]
      /\ \A r \in 1..Len(Clean) : CleanKinds[r] = "token" => s[1] < r /\ r <= s[2]
    BY SpansHold
<1>2. /\ t[1] \in Nat /\ t[2] \in Nat /\ t[1] < t[2] /\ t[2] <= Len(Clean)
      /\ \A r \in (t[1] + 1)..t[2] : CleanKinds[r] = "token"
    BY SpansHold
<1>3. Len(Clean) \in Nat
    BY CleanIsLaid
<1>4. t[1] + 1 \in (t[1] + 1)..t[2] /\ t[2] \in (t[1] + 1)..t[2]
      /\ t[1] + 1 \in 1..Len(Clean) /\ t[2] \in 1..Len(Clean)
    BY <1>2, <1>3
<1>5. s[1] < t[1] + 1 /\ t[2] <= s[2]
    BY <1>1, <1>2, <1>4
<1> QED BY <1>1, <1>2, <1>5

LEMMA BeforeSpanHolds ==
    ASSUME Laid(text, kinds), NEW x \in Nat
    PROVE  /\ BeforeSpan(x) \in Nat /\ Between(BeforeSpan(x))
           /\ BeforeSpan(x) <= x /\ x <= BeforeSpan(x) + MaxToken
<1> DEFINE spans == {s \in ProtectedSpans : s[1] < x /\ x < s[2]}
<1>1. CASE spans = {}
  <2>1. BeforeSpan(x) = x
      BY <1>1 DEF BeforeSpan
  <2>2. Between(x)
      BY <1>1 DEF Between
  <2> QED BY <2>1, <2>2, WindowSizes
<1>2. CASE spans # {}
  <2>1. PICK s \in spans : BeforeSpan(x) = s[1]
      BY <1>2 DEF BeforeSpan
  <2>2. s[1] \in Nat /\ s[2] \in Nat /\ s[2] - s[1] <= MaxToken /\ Between(s[1])
      BY SpansHold, SpanEnds
  <2>3. s[1] < x /\ x < s[2]
      OBVIOUS
  <2> QED BY <2>1, <2>2, <2>3, WindowSizes
<1> QED BY <1>1, <1>2

LEMMA AfterSpanHolds ==
    ASSUME Laid(text, kinds), NEW x \in Nat
    PROVE  /\ AfterSpan(x) \in Nat /\ Between(AfterSpan(x)) /\ x <= AfterSpan(x)
           /\ \A y \in Nat : Between(y) /\ x <= y => AfterSpan(x) <= y
           /\ \A r \in (x + 1)..AfterSpan(x) : CleanKinds[r] = "token"
<1> DEFINE spans == {s \in ProtectedSpans : s[1] < x /\ x < s[2]}
<1>1. CASE spans = {}
  <2>1. AfterSpan(x) = x
      BY <1>1 DEF AfterSpan
  <2>2. Between(x)
      BY <1>1 DEF Between
  <2>3. \A r \in (x + 1)..x : FALSE
      OBVIOUS
  <2> QED BY <2>1, <2>2, <2>3
<1>2. CASE spans # {}
  <2>1. PICK s \in spans : AfterSpan(x) = s[2]
      BY <1>2 DEF AfterSpan
  <2>2. /\ s[1] \in Nat /\ s[2] \in Nat /\ Between(s[2])
        /\ \A r \in (s[1] + 1)..s[2] : CleanKinds[r] = "token"
      BY SpansHold, SpanEnds
  <2>3. s[1] < x /\ x < s[2]
      OBVIOUS
  <2>4. ASSUME NEW y \in Nat, Between(y), x <= y PROVE s[2] <= y
    <3>1. ~(s[1] < y /\ y < s[2])
        BY <2>4 DEF Between
    <3> QED BY <2>2, <2>3, <2>4, <3>1
  <2>5. \A r \in (x + 1)..s[2] : r \in (s[1] + 1)..s[2]
      BY <2>2, <2>3
  <2> QED BY <2>1, <2>2, <2>3, <2>4, <2>5
<1> QED BY <1>1, <1>2

LEMMA LastBeforeHolds ==
    ASSUME Laid(text, kinds), NEW x \in Nat, NEW kind \in {"line", "space"},
           LastBefore(x, kind) # 0
    PROVE  LET p == LastBefore(x, kind) IN
           p \in 1..Len(Clean) /\ x < p + BackTo /\ p <= x /\ Between(p)
<1> DEFINE places == {p \in DOMAIN CleanKinds :
                        x - BackTo < p /\ p <= x /\ CleanKinds[p] = kind}
<1>1. LastBefore(x, kind) = IF places = {} THEN 0
                            ELSE CHOOSE p \in places : \A q \in places : q <= p
    BY DEF LastBefore
<1>2. places # {}
    BY <1>1
<1>3. DOMAIN CleanKinds = 1..Len(Clean) /\ Len(Clean) \in Nat
    BY CleanIsLaid
<1>4. \A p \in places : p \in Nat /\ p <= x /\ x - p \in Nat
    BY <1>3
<1>5. PICK n \in {x - p : p \in places} : \A m \in {x - p : p \in places} : n <= m
  <2>1. {x - p : p \in places} \subseteq Nat /\ {x - p : p \in places} # {}
      BY <1>2, <1>4
  <2> QED BY <2>1, LeastNumber
<1>6. PICK p \in places : n = x - p
    BY <1>5
<1>7. \A q \in places : x - p <= x - q
    BY <1>5, <1>6
<1>8. \A q \in places : q <= p
    BY <1>4, <1>7
<1>9. LastBefore(x, kind) \in places
    BY <1>1, <1>2, <1>8
<1> DEFINE last == LastBefore(x, kind)
<1>10. last \in 1..Len(Clean) /\ x - BackTo < last /\ last <= x /\ CleanKinds[last] = kind
    BY <1>3, <1>9
<1> HIDE DEF last
<1>11. Between(last)
  <2> SUFFICES ASSUME NEW s \in ProtectedSpans, s[1] < last, last < s[2] PROVE FALSE
      BY DEF Between
  <2>1. s[1] \in Nat /\ s[2] \in Nat /\ \A r \in (s[1] + 1)..s[2] : CleanKinds[r] = "token"
      BY SpansHold
  <2>2. last \in (s[1] + 1)..s[2]
      BY <1>3, <1>10, <2>1
  <2> QED BY <1>10, <2>1, <2>2
<1>12. x < last + BackTo
    BY <1>3, <1>10, WindowSizes
<1> QED BY <1>10, <1>11, <1>12 DEF last

\* A window is not empty, ends where nothing is cut in two, and is longer than
\* the overlap unless it is the last.
LEMMA EndHolds ==
    ASSUME Laid(text, kinds), NEW from \in Nat, from < Len(Clean)
    PROVE  LET end == ChunkEnd(from) IN
           /\ end \in Nat /\ from < end /\ end <= Len(Clean) /\ Between(end)
           /\ end < Len(Clean) => from + OverlapChars < end
<1> DEFINE l == Len(Clean)
           point == BeforeSpan(from + Target)
           cut == AdjustSplitPoint(from + Target)
<1>1. l \in Nat /\ from < l
    BY CleanIsLaid
<1>2. Between(l)
  <2>1. \A s \in ProtectedSpans : s[2] \in Nat /\ s[2] <= l
      BY SpansHold
  <2>2. \A s \in ProtectedSpans : ~(l < s[2])
      BY <1>1, <2>1
  <2> QED BY <2>2 DEF Between
<1>3. CASE l - from <= Target
  <2>1. ChunkEnd(from) = l
      BY <1>3 DEF ChunkEnd
  <2> QED BY <1>1, <1>2, <2>1
<1>4. CASE l - from > Target
  <2>1. from + Target \in Nat /\ from + Target < l
      BY <1>1, <1>4, WindowSizes
  <2>2. /\ point \in Nat /\ Between(point)
        /\ point <= from + Target /\ from + Target <= point + MaxToken
      BY <2>1, BeforeSpanHolds
  <2>3. cut = IF point <= 0 \/ point >= l THEN l
              ELSE IF LastBefore(point, "line") # 0 THEN LastBefore(point, "line")
              ELSE IF LastBefore(point, "space") # 0 THEN LastBefore(point, "space") ELSE point
      BY DEF AdjustSplitPoint
  <2> HIDE DEF l, point
  <2>4. from + OverlapChars + BackTo <= point /\ 0 < point /\ point < l
      BY <1>1, <2>1, <2>2, WindowSizes
  <2>5. ASSUME NEW kind \in {"line", "space"}, LastBefore(point, kind) # 0
        PROVE  LET p == LastBefore(point, kind) IN
               p \in Nat /\ from + OverlapChars < p /\ p < l /\ Between(p)
    <3> DEFINE p == LastBefore(point, kind)
    <3>1. p \in 1..l /\ point < p + BackTo /\ p <= point /\ Between(p)
        BY <2>2, <2>5, LastBeforeHolds DEF l
    <3> HIDE DEF p
    <3>2. p \in Nat /\ from + OverlapChars < p /\ p < l
        BY <1>1, <2>2, <2>4, <3>1, WindowSizes
    <3> QED BY <3>1, <3>2 DEF p
  <2>6. from + OverlapChars < point
      BY <2>2, <2>4, WindowSizes
  <2>7. cut \in Nat /\ from + OverlapChars < cut /\ cut < l /\ Between(cut)
    <3> HIDE DEF cut
    <3>1. ~(point <= 0 \/ point >= l)
        BY <1>1, <2>2, <2>4
    <3> QED BY <2>2, <2>3, <2>4, <2>5, <2>6, <3>1
  <2>8. cut > from
    <3> HIDE DEF cut
    <3> QED BY <2>7, WindowSizes
  <2>9. ChunkEnd(from) = cut
    <3>1. ~(Len(Clean) - from <= Target)
        BY <1>1, <1>4, WindowSizes DEF l
    <3> QED BY <2>8, <3>1 DEF ChunkEnd
  <2> HIDE DEF cut
  <2> QED BY <1>1, <2>7, <2>8, <2>9 DEF l
<1>5. l - from <= Target \/ l - from > Target
    BY <1>1, WindowSizes
<1> QED BY <1>3, <1>4, <1>5

\* The next one begins later, no later than this one ends, and further back by
\* the overlap at least, but for a span it would begin in.
LEMMA NextHolds ==
    ASSUME Laid(text, kinds), NEW from \in Nat, NEW end \in Nat,
           Between(end), from + OverlapChars < end
    PROVE  LET next == NextStart(from, end) IN
           /\ next \in Nat /\ from < next /\ next <= end /\ Between(next)
           /\ end <= next + OverlapChars
           /\ \A r \in (end - OverlapChars + 1)..next : CleanKinds[r] = "token"
<1> DEFINE back == end - OverlapChars
<1>1. back \in Nat /\ from + 1 <= back /\ back <= end /\ end = back + OverlapChars
    BY WindowSizes
<1> HIDE DEF back
<1>2. GreaterOf(from + 1, back) = back
    BY <1>1 DEF GreaterOf
<1>3. NextStart(from, end) = AfterSpan(back)
    BY <1>2 DEF NextStart, back
<1>4. /\ AfterSpan(back) \in Nat /\ Between(AfterSpan(back)) /\ back <= AfterSpan(back)
      /\ \A y \in Nat : Between(y) /\ back <= y => AfterSpan(back) <= y
      /\ \A r \in (back + 1)..AfterSpan(back) : CleanKinds[r] = "token"
    BY <1>1, AfterSpanHolds
<1> DEFINE next == AfterSpan(back)
<1> HIDE DEF next
<1>5. next \in Nat /\ Between(next) /\ back <= next /\ next <= end
      /\ \A r \in (back + 1)..next : CleanKinds[r] = "token"
    BY <1>1, <1>4 DEF next
<1>6. from < next /\ end <= next + OverlapChars
    BY <1>1, <1>5, WindowSizes
<1> QED BY <1>3, <1>5, <1>6 DEF next, back

-----------------------------------------------------------------------------
(***************************************************************************)
(* The chunks so far.                                                      *)
(***************************************************************************)

LEMMA PartOf ==
    ASSUME NEW S, NEW s \in Seq(S), NEW lo \in Nat, NEW hi \in Nat,
           1 <= lo, lo <= hi, hi <= Len(s)
    PROVE  /\ SubSeq(s, lo, hi) \in Seq(S)
           /\ Len(SubSeq(s, lo, hi)) = hi - lo + 1
           /\ \A i \in 1..(hi - lo + 1) : SubSeq(s, lo, hi)[i] = s[lo + i - 1]
<1>1. \A i \in lo..hi : i \in 1..Len(s)
    BY LenProperties
<1>2. \A i \in lo..hi : s[i] \in S
    BY <1>1, ElementOfSeq
<1>3. lo \in Int /\ hi \in Int
    OBVIOUS
<1> QED BY <1>2, <1>3, SubSeqProperties

LEMMA PartOfPart ==
    ASSUME NEW S, NEW s \in Seq(S), NEW l \in Nat, NEW lo \in Nat, NEW hi \in Nat,
           1 <= lo, lo <= hi, hi <= l, l <= Len(s)
    PROVE  SubSeq(SubSeq(s, 1, l), lo, hi) = SubSeq(s, lo, hi)
<1> DEFINE a == SubSeq(s, 1, l)
           b == SubSeq(s, lo, hi)
           c == SubSeq(a, lo, hi)
<1>1. Len(s) \in Nat /\ 1 <= l /\ hi <= Len(s)
    BY LenProperties
<1>2. a \in Seq(S) /\ Len(a) = l - 1 + 1 /\ \A i \in 1..(l - 1 + 1) : a[i] = s[1 + i - 1]
    BY <1>1, PartOf
<1>3. b \in Seq(S) /\ Len(b) = hi - lo + 1 /\ \A i \in 1..(hi - lo + 1) : b[i] = s[lo + i - 1]
    BY <1>1, PartOf
<1> HIDE DEF a, b
<1>4. Len(a) = l /\ hi <= Len(a) /\ \A i \in 1..l : a[i] = s[i]
    BY <1>2
<1>5. c \in Seq(S) /\ Len(c) = hi - lo + 1 /\ \A i \in 1..(hi - lo + 1) : c[i] = a[lo + i - 1]
    BY <1>2, <1>4, PartOf
<1> HIDE DEF c
<1>6. \A i \in 1..(hi - lo + 1) : lo + i - 1 \in 1..l
    OBVIOUS
<1>7. \A i \in 1..Len(c) : c[i] = b[i]
    BY <1>3, <1>4, <1>5, <1>6
<1>8. c = b
    BY <1>3, <1>5, <1>7, SeqEqual
<1> QED BY <1>8 DEF a, b, c

\* A window that has something other than blanks is a chunk.
LEMMA WindowHasContent ==
    ASSUME Laid(text, kinds), NEW st \in Nat, NEW end \in Nat, st < end, end <= Len(Clean),
           NEW p \in (st + 1)..end, ~Blank(CleanKinds[p])
    PROVE  ChunkContent([start |-> st, end |-> end]) # <<>>
<1> DEFINE ks == SubSeq(CleanKinds, st + 1, end)
           cs == SubSeq(Clean, st + 1, end)
           n == end - (st + 1) + 1
<1>1. Clean \in Seq(Characters) /\ CleanKinds \in Seq(KindNames)
      /\ Len(CleanKinds) = Len(Clean)
    BY CleanIsLaid DEF Laid
<1>2. st + 1 \in Nat /\ 1 <= st + 1 /\ st + 1 <= end
    OBVIOUS
<1>3. cs \in Seq(Characters) /\ Len(cs) = n
    BY <1>1, <1>2, PartOf
<1>4. ks \in Seq(KindNames) /\ Len(ks) = n /\ \A i \in 1..n : ks[i] = CleanKinds[(st + 1) + i - 1]
    BY <1>1, <1>2, PartOf
<1>5. p - st \in 1..n /\ (st + 1) + (p - st) - 1 = p
    OBVIOUS
<1> HIDE DEF ks, cs, n
<1>6. ~Blank(ks[p - st])
    BY <1>4, <1>5
<1>7. Left(ks) \in Nat /\ Leading(ks) \in Nat /\ Leading(ks) < p - st
      /\ p - st <= Leading(ks) + Left(ks)
    BY <1>4, <1>5, <1>6, LeftOver
<1>8. Left(ks) # 0
    BY <1>7
<1>9. Len(Strip(cs, ks)) = Left(ks)
    BY <1>3, <1>4, StripLeaves
<1>10. Strip(cs, ks) # <<>>
  <2>1. Len(<<>>) = 0
      BY EmptySeq
  <2> QED BY <1>8, <1>9, <2>1
<1> QED BY <1>10 DEF ChunkContent, cs, ks

\* Nothing is stripped from the beginning of the page: the offsets are the same.
LEMMA CatalogShows ==
    ASSUME Laid(text, kinds), Leading(kinds) = 0,
           NEW st \in Nat, NEW end \in Nat, st < end, end <= Len(Clean)
    PROVE  CatalogSnippet([start |-> st, end |-> end]) = ChunkContent([start |-> st, end |-> end])
<1> DEFINE l == Left(kinds)
<1>1. /\ text \in Seq(Characters) /\ kinds \in Seq(KindNames)
      /\ Len(kinds) = Len(text) /\ Len(text) \in Nat
    BY LenProperties DEF Laid
<1>2. l \in Nat /\ l <= Len(text) /\ Len(Clean) = l
    BY CleanIsLaid
<1>3. l # 0 /\ 0 + 1 = 1 /\ 0 + l = l
    BY <1>2
<1> HIDE DEF l
<1>4. Clean = SubSeq(text, 1, l) /\ CleanKinds = SubSeq(kinds, 1, l)
    BY <1>1, <1>3, StripLeaves DEF Clean, CleanKinds, l
<1>5. st + 1 \in Nat /\ 1 <= st + 1 /\ st + 1 <= end /\ end <= l
    BY <1>2
<1>6. SubSeq(Clean, st + 1, end) = SubSeq(text, st + 1, end)
    BY <1>1, <1>2, <1>4, <1>5, PartOfPart
<1>7. SubSeq(CleanKinds, st + 1, end) = SubSeq(kinds, st + 1, end)
    BY <1>1, <1>2, <1>4, <1>5, PartOfPart
<1>8. LesserOf(end, Len(text)) = end
    BY <1>1, <1>2, <1>5 DEF LesserOf
<1> QED BY <1>6, <1>7, <1>8 DEF CatalogSnippet, ChunkContent

Windows == [start : Nat, end : Nat]

Fits(chunk) ==
    /\ chunk.start < chunk.end /\ chunk.end <= Len(Clean)
    /\ Between(chunk.start) /\ Between(chunk.end)

AllFit(cs) == cs \in Seq(Windows) /\ \A n \in 1..Len(cs) : Fits(cs[n])

Adds(cs) ==
    \A m, n \in 1..Len(cs) : m < n => cs[m].start < cs[n].start /\ cs[m].end < cs[n].end

Holding(cs, p, q) == \E n \in 1..Len(cs) : cs[n].start < p /\ q <= cs[n].end

\* Everything that begins up to here is in a chunk.
Covered(cs, x) ==
    \A p \in 1..x :
        /\ ~Blank(CleanKinds[p]) => Holding(cs, p, p)
        /\ Placeholder <= OverlapChars /\ Clean[p][2] = 1 => Holding(cs, p, p + Placeholder - 1)

\* The next window begins here: after the beginnings of the chunks, and no
\* further than the overlap from their ends.
Underway(cs, st) ==
    /\ st \in Nat /\ st <= Len(Clean) /\ Between(st)
    /\ Covered(cs, st)
    /\ \A n \in 1..Len(cs) :
         cs[n].start < st /\ cs[n].end <= st + OverlapChars /\ cs[n].end < Len(Clean)

LEMMA WindowAdded ==
    ASSUME Laid(text, kinds), NEW cs, NEW st, NEW end, NEW more,
           AllFit(cs), Adds(cs), Underway(cs, st), st < Len(Clean),
           end = ChunkEnd(st),
           more = IF ChunkContent([start |-> st, end |-> end]) = <<>> THEN cs
                  ELSE Append(cs, [start |-> st, end |-> end])
    PROVE  /\ AllFit(more) /\ Adds(more)
           /\ end >= Len(Clean) => Covered(more, Len(Clean))
           /\ end < Len(Clean) => Underway(more, NextStart(st, end))
<1> DEFINE chunk == [start |-> st, end |-> end]
           l == Len(Clean)
<1>1. st \in Nat /\ l \in Nat /\ Between(st) /\ st < l
    BY CleanIsLaid DEF Underway
<1>2. /\ end \in Nat /\ st < end /\ end <= l /\ Between(end)
      /\ end < l => st + OverlapChars < end
    BY <1>1, EndHolds
<1>3. chunk \in Windows /\ chunk.start = st /\ chunk.end = end /\ Fits(chunk)
    BY <1>1, <1>2 DEF Windows, Fits
<1>4. cs \in Seq(Windows) /\ Len(cs) \in Nat /\ \A n \in 1..Len(cs) : cs[n] \in Windows
    BY ElementOfSeq, LenProperties DEF AllFit
<1>5. \/ more = cs
      \/ /\ more \in Seq(Windows) /\ Len(more) = Len(cs) + 1
         /\ \A n \in 1..Len(cs) : more[n] = cs[n]
         /\ more[Len(cs) + 1] = chunk
  <2> HIDE DEF chunk
  <2>1. more = cs \/ more = Append(cs, chunk)
      BY DEF chunk
  <2>2. /\ Append(cs, chunk) \in Seq(Windows) /\ Len(Append(cs, chunk)) = Len(cs) + 1
        /\ \A n \in 1..Len(cs) : Append(cs, chunk)[n] = cs[n]
        /\ Append(cs, chunk)[Len(cs) + 1] = chunk
      BY <1>3, <1>4, AppendProperties
  <2> QED BY <2>1, <2>2
<1>6. ASSUME NEW p \in (st + 1)..end, ~Blank(CleanKinds[p]), NEW q \in Nat, q <= end
      PROVE  Holding(more, p, q)
  <2>1. more = Append(cs, chunk)
      BY <1>1, <1>2, <1>6, WindowHasContent
  <2> HIDE DEF chunk
  <2>2. Len(more) = Len(cs) + 1 /\ more[Len(cs) + 1] = chunk
      BY <1>3, <1>4, <2>1, AppendProperties
  <2>3. Len(cs) + 1 \in 1..Len(more) /\ st < p
      BY <1>1, <1>2, <1>4, <2>2
  <2> QED BY <1>3, <1>6, <2>2, <2>3 DEF Holding
<1> HIDE DEF chunk, l
\* A chunk is one of those there were, or the new one.
<1>7. /\ more \in Seq(Windows) /\ Len(more) \in Nat /\ Len(cs) <= Len(more)
      /\ \A n \in 1..Len(cs) : n \in 1..Len(more) /\ more[n] = cs[n]
      /\ \A n \in 1..Len(more) : n \in 1..Len(cs) \/ (n = Len(cs) + 1 /\ more[n] = chunk)
  <2>1. CASE more = cs
      BY <1>4, <2>1
  <2>2. CASE /\ more \in Seq(Windows) /\ Len(more) = Len(cs) + 1
             /\ \A n \in 1..Len(cs) : more[n] = cs[n]
             /\ more[Len(cs) + 1] = chunk
      BY <1>4, <2>2
  <2> QED BY <1>5, <2>1, <2>2
<1>8. AllFit(more)
  <2>1. ASSUME NEW n \in 1..Len(more) PROVE Fits(more[n])
    <3>1. CASE n \in 1..Len(cs)
        BY <1>7, <3>1 DEF AllFit
    <3>2. CASE n = Len(cs) + 1 /\ more[n] = chunk
        BY <1>3, <3>2
    <3> QED BY <1>7, <3>1, <3>2
  <2> QED BY <1>7, <2>1 DEF AllFit
<1>9. \A n \in 1..Len(cs) : cs[n].start < st /\ cs[n].end < end /\ cs[n].end < l
                            /\ cs[n].end <= st + OverlapChars
  <2> SUFFICES ASSUME NEW n \in 1..Len(cs)
               PROVE  cs[n].start < st /\ cs[n].end < end /\ cs[n].end < l
                      /\ cs[n].end <= st + OverlapChars
      OBVIOUS
  <2>1. cs[n].start < st /\ cs[n].end <= st + OverlapChars /\ cs[n].end < l
      BY DEF Underway, l
  <2>2. cs[n].end \in Nat
      BY <1>4 DEF Windows
  <2>3. CASE end < l
      BY <1>1, <1>2, <2>1, <2>2, <2>3, WindowSizes
  <2>4. CASE ~(end < l)
      BY <1>1, <1>2, <2>1, <2>2, <2>4
  <2> QED BY <2>1, <2>3, <2>4
<1>10. Adds(more)
  <2> SUFFICES ASSUME NEW m \in 1..Len(more), NEW n \in 1..Len(more), m < n
               PROVE  more[m].start < more[n].start /\ more[m].end < more[n].end
      BY DEF Adds
  <2>1. m \in 1..Len(cs) /\ more[m] = cs[m]
    <3>1. CASE n \in 1..Len(cs)
        BY <1>4, <1>7, <3>1
    <3>2. CASE n = Len(cs) + 1
        BY <1>4, <1>7, <3>2
    <3> QED BY <1>7, <3>1, <3>2
  <2>2. CASE n \in 1..Len(cs)
      BY <1>7, <2>1, <2>2 DEF Adds
  <2>3. CASE n = Len(cs) + 1 /\ more[n] = chunk
      BY <1>3, <1>9, <2>1, <2>3
  <2> QED BY <1>7, <2>2, <2>3
<1>11. ASSUME NEW p, NEW q, Holding(cs, p, q) PROVE Holding(more, p, q)
  <2>1. PICK n \in 1..Len(cs) : cs[n].start < p /\ q <= cs[n].end
      BY <1>11 DEF Holding
  <2> QED BY <1>7, <2>1 DEF Holding
<1>12. Laid(Clean, CleanKinds)
    BY CleanIsLaid
<1>13. ASSUME NEW p \in 1..l, Clean[p][2] = 1
       PROVE  CleanKinds[p] = "plain" /\ ~Blank(CleanKinds[p]) /\ p + Placeholder - 1 <= l
  <2>1. CleanKinds[p] = "plain" /\ p + Placeholder - 1 <= l
      BY <1>12, <1>13 DEF Laid, l
  <2> QED BY <2>1 DEF Blank
\* What begins in the window, and is not too close to its end.
<1>14. ASSUME NEW x \in Nat, x <= end,
              \A p \in (st + 1)..x : Placeholder <= OverlapChars /\ Clean[p][2] = 1
                                        => p + Placeholder - 1 <= end
       PROVE  Covered(more, x)
  <2> SUFFICES ASSUME NEW p \in 1..x
               PROVE  /\ ~Blank(CleanKinds[p]) => Holding(more, p, p)
                      /\ Placeholder <= OverlapChars /\ Clean[p][2] = 1
                            => Holding(more, p, p + Placeholder - 1)
      BY DEF Covered
  <2>1. CASE p \in 1..st
      BY <1>11, <2>1 DEF Underway, Covered
  <2>2. CASE p \in (st + 1)..x
    <3>1. p \in (st + 1)..end /\ p \in 1..l /\ p \in Nat /\ p <= end
        BY <1>1, <1>2, <1>14, <2>2
    <3>2. ~Blank(CleanKinds[p]) => Holding(more, p, p)
        BY <1>6, <3>1
    <3>3. ASSUME Placeholder <= OverlapChars, Clean[p][2] = 1
          PROVE  Holding(more, p, p + Placeholder - 1)
      <4>1. p + Placeholder - 1 <= end
          BY <1>14, <2>2, <3>3
      <4>2. p + Placeholder - 1 \in Nat
          BY <3>1, Sizes
      <4> QED BY <1>6, <1>13, <3>1, <3>3, <4>1, <4>2
    <3> QED BY <3>2, <3>3
  <2>3. p \in 1..st \/ p \in (st + 1)..x
      BY <1>1
  <2> QED BY <2>1, <2>2, <2>3
<1>15. end >= l => Covered(more, l)
  <2> SUFFICES ASSUME end >= l PROVE Covered(more, l)
      OBVIOUS
  <2>1. end = l
      BY <1>1, <1>2
  <2>2. \A p \in (st + 1)..l : p \in 1..l
      BY <1>1
  <2> QED BY <1>1, <1>13, <1>14, <2>1, <2>2
<1>16. ASSUME end < l PROVE Underway(more, NextStart(st, end))
  <2> DEFINE next == NextStart(st, end)
  <2>1. /\ next \in Nat /\ st < next /\ next <= end /\ Between(next)
        /\ end <= next + OverlapChars
        /\ \A r \in (end - OverlapChars + 1)..next : CleanKinds[r] = "token"
      BY <1>1, <1>2, <1>16, NextHolds
  <2> HIDE DEF next
  <2>2. ASSUME NEW p \in (st + 1)..next, Placeholder <= OverlapChars, Clean[p][2] = 1
        PROVE  p + Placeholder - 1 <= end
    <3>1. p \in 1..l /\ p \in Nat
        BY <1>1, <1>2, <2>1
    <3>2. CleanKinds[p] = "plain"
        BY <1>13, <2>2, <3>1
    <3>3. ~(p \in (end - OverlapChars + 1)..next)
        BY <2>1, <3>2
    <3>4. p <= end - OverlapChars
        BY <1>2, <2>1, <3>1, <3>3, WindowSizes
    <3> QED BY <1>2, <2>2, <3>1, <3>4, WindowSizes, Sizes
  <2>3. Covered(more, next)
      BY <1>14, <2>1, <2>2
  <2>4. ASSUME NEW n \in 1..Len(more)
        PROVE  more[n].start < next /\ more[n].end <= next + OverlapChars /\ more[n].end < l
    <3>1. CASE n \in 1..Len(cs)
      <4>1. cs[n] \in Windows /\ more[n] = cs[n]
          BY <1>4, <1>7, <3>1
      <4>2. cs[n].start \in Nat /\ cs[n].end \in Nat
          BY <4>1 DEF Windows
      <4>3. cs[n].start < st /\ cs[n].end <= st + OverlapChars /\ cs[n].end < l
          BY <1>9, <3>1
      <4> QED BY <1>1, <2>1, <4>1, <4>2, <4>3, WindowSizes
    <3>2. CASE n = Len(cs) + 1 /\ more[n] = chunk
        BY <1>3, <1>16, <2>1, <3>2
    <3> QED BY <1>7, <3>1, <3>2
  <2>5. next <= l
      BY <1>1, <1>2, <2>1
  <2> QED BY <2>1, <2>3, <2>4, <2>5 DEF Underway, next, l
<1> QED BY <1>8, <1>10, <1>15, <1>16 DEF l

-----------------------------------------------------------------------------
(***************************************************************************)
(* The page on its way through the chunker.                                *)
(***************************************************************************)

\* A masked text has its placeholders in one piece each.
LEMMA PlaceholdersAreWhole ==
    ASSUME NEW t, NEW F \in SUBSET Matches, MaskedAs(t, F), NEW p \in 1..Len(t), t[p][2] = 1
    PROVE  /\ p + Placeholder - 1 <= Len(t)
           /\ \A r \in p..(p + Placeholder - 1) : t[r][2] # 0
<1>1. PICK f \in F : t[p][1] = f.start
    BY DEF MaskedAs
<1> DEFINE m == NewStart(F, f)
<1>2. /\ m \in Nat /\ m + Placeholder <= Len(t)
      /\ \A k \in 1..Placeholder : t[m + k] = <<f.start, k>>
    BY DEF MaskedAs, Placed
<1> HIDE DEF m
<1>3. Placeholder \in Nat /\ Placeholder >= 1 /\ Len(t) \in Nat
    BY Sizes, LenProperties DEF MaskedAs
<1>4. 1 \in 1..Placeholder /\ m + 1 \in 1..Len(t)
    BY <1>2, <1>3
<1>5. t[m + 1][1] = f.start /\ t[m + 1][2] = 1
    BY <1>2, <1>4
<1>6. f.start \in Nat
    BY MatchTypes
<1>7. ~(p < m + 1) /\ ~(m + 1 < p)
  <2>1. \A q, r \in 1..Len(t) : q < r => Lex(t[q], t[r])
      BY DEF MaskedAs
  <2> QED BY <1>1, <1>4, <1>5, <1>6, <2>1 DEF Lex
<1>8. p = m + 1
    BY <1>2, <1>7
<1>9. p + Placeholder - 1 <= Len(t)
    BY <1>2, <1>3, <1>8
<1>10. ASSUME NEW r \in p..(p + Placeholder - 1) PROVE t[r][2] # 0
  <2>1. r - m \in 1..Placeholder /\ m + (r - m) = r
      BY <1>2, <1>3, <1>8
  <2>2. t[r] = <<f.start, r - m>>
      BY <1>2, <2>1
  <2>3. t[r][2] = r - m
      BY <2>2
  <2> QED BY <2>1, <2>3
<1> QED BY <1>9, <1>10

LEMMA KindsLay ==
    ASSUME NEW F \in SUBSET Matches, MaskedAs(text, F), NEW ks \in Kinds
    PROVE  Laid(text, ks)
<1> DEFINE raw == {p \in DOMAIN text : text[p][2] = 0}
           Few == {blanks \in SUBSET raw : Cardinality(blanks) <= MaxBlanks \/ blanks = raw}
           Tokens == {{}} \union {p..q : p, q \in raw}
           Layouts == {b \in [blanks : Few, lines : Few, token : Tokens] :
                         /\ b.lines \subseteq b.blanks /\ b.token \subseteq raw \ b.blanks
                         /\ Cardinality(b.token) <= MaxToken}
<1>1. PICK b \in Layouts : ks = [p \in DOMAIN text |->
            IF p \in b.lines THEN "line"
            ELSE IF p \in b.blanks THEN "space" ELSE IF p \in b.token THEN "token" ELSE "plain"]
    BY DEF Kinds
<1>2. text \in Seq(Characters) /\ Len(text) \in Nat /\ DOMAIN text = 1..Len(text)
    BY LenProperties DEF MaskedAs
<1>3. /\ b.lines \subseteq b.blanks /\ b.blanks \subseteq raw
      /\ b.token \subseteq raw /\ b.token \intersect b.blanks = {}
      /\ b.token \in Tokens /\ Cardinality(b.token) <= MaxToken
    OBVIOUS
<1> HIDE DEF Layouts, Few
<1>4. DOMAIN ks = 1..Len(text) /\ \A p \in 1..Len(text) :
        ks[p] = IF p \in b.lines THEN "line"
                ELSE IF p \in b.blanks THEN "space"
                ELSE IF p \in b.token THEN "token" ELSE "plain"
    BY <1>1, <1>2
<1>5. ks \in [1..Len(text) -> KindNames]
    BY <1>1, <1>2 DEF KindNames
<1>6. ks \in Seq(KindNames) /\ Len(ks) = Len(text)
  <2>1. ks \in Seq(KindNames)
      BY <1>2, <1>5
  <2> QED BY <1>2, <1>4, <2>1, LenProperties
<1>7. \A p \in 1..Len(text) : text[p][2] # 0 => ks[p] = "plain"
  <2> SUFFICES ASSUME NEW p \in 1..Len(text), text[p][2] # 0 PROVE ks[p] = "plain"
      OBVIOUS
  <2>1. p \notin raw
      OBVIOUS
  <2> HIDE DEF raw
  <2>2. p \notin b.lines /\ p \notin b.blanks /\ p \notin b.token
      BY <1>3, <2>1
  <2> QED BY <1>4, <2>2
<1>8. InOnePiece(ks)
  <2> SUFFICES ASSUME NEW p \in 1..Len(text), NEW q \in 1..Len(text),
                      ks[p] = "token", ks[q] = "token", p <= q
               PROVE  q - p < MaxToken /\ \A r \in p..q : ks[r] = "token"
      BY <1>6 DEF InOnePiece
  <2>1. p \in b.token /\ q \in b.token
      BY <1>4
  <2>2. PICK u \in raw, v \in raw : b.token = u..v
      BY <1>3, <2>1
  <2>3. u \in 1..Len(text) /\ v \in 1..Len(text) /\ raw \subseteq 1..Len(text)
      BY <1>2
  <2> HIDE DEF raw
  <2>4. p \in u..v /\ q \in u..v
      BY <2>1, <2>2
  <2>5. Cardinality(u..v) = v - u + 1
    <3>1. u \in Int /\ v \in Int /\ ~(u > v)
        BY <1>2, <2>3, <2>4
    <3> QED BY <3>1, FS_Interval
  <2>6. q - p < MaxToken
    <3>1. v - u + 1 <= MaxToken
        BY <1>3, <2>2, <2>5
    <3> QED BY <1>2, <2>3, <2>4, <3>1, WindowSizes
  <2>7. ASSUME NEW r \in p..q PROVE ks[r] = "token"
    <3>1. r \in u..v
        BY <1>2, <2>3, <2>4
    <3>2. r \in b.token
        BY <2>2, <3>1
    <3>3. r \in 1..Len(text) /\ r \notin b.blanks /\ r \notin b.lines
        BY <1>3, <2>3, <3>2
    <3> QED BY <1>4, <3>2, <3>3
  <2> QED BY <2>6, <2>7
<1>9. \A p \in 1..Len(text) : text[p][2] = 1 =>
        /\ p + Placeholder - 1 <= Len(text)
        /\ \A r \in p..(p + Placeholder - 1) : text[r][2] # 0
    BY PlaceholdersAreWhole
<1> QED BY <1>2, <1>6, <1>7, <1>8, <1>9 DEF Laid

Before == {"detect", "review", "masked", "image"}

WindowInv ==
    /\ MaskInv
    /\ stage \in Before => start = 0 /\ chunks = <<>>
    /\ stage \in {"chunking", "chunked"} =>
         Laid(text, kinds) /\ AllFit(chunks) /\ Adds(chunks)
    /\ stage = "chunking" => Underway(chunks, start)
    /\ stage = "chunked" => Covered(chunks, Len(Clean))

LEMMA WindowInvInit == Init => WindowInv
BY MaskInvInit DEF Init, WindowInv, Before

\* What the chunks are compared with stays the same.
LEMMA SameText ==
    ASSUME text' = text, kinds' = kinds, NEW cs, NEW x
    PROVE  /\ Clean' = Clean /\ CleanKinds' = CleanKinds
           /\ Laid(text, kinds) => Laid(text, kinds)'
           /\ AllFit(cs) => cs \in Seq(Windows) /\ \A n \in 1..Len(cs) : Fits(cs[n])'
           /\ \A y : Between(y) => Between(y)'
<1>1. Clean' = Clean /\ CleanKinds' = CleanKinds
    BY DEF Clean, CleanKinds
<1>2. ProtectedSpans' = ProtectedSpans
    BY <1>1 DEF ProtectedSpans
<1>3. \A y : Between(y) => Between(y)'
    BY <1>2 DEF Between
<1>4. \A c : Fits(c) => Fits(c)'
    BY <1>1, <1>3 DEF Fits
<1>5. Laid(text, kinds) => Laid(text, kinds)'
    BY DEF Laid
<1> QED BY <1>1, <1>3, <1>4, <1>5 DEF AllFit

LEMMA ChunksCarry ==
    ASSUME text' = text, kinds' = kinds, NEW cs, NEW st, chunks' = cs, start' = st
    PROVE  /\ AllFit(cs) => AllFit(chunks)'
           /\ Adds(cs) => Adds(chunks)'
           /\ Underway(cs, st) => Underway(chunks, start)'
           /\ Covered(cs, Len(Clean)) => Covered(chunks, Len(Clean))'
<1>1. Clean' = Clean /\ CleanKinds' = CleanKinds /\ \A y : Between(y) => Between(y)'
    BY SameText
<1>2. AllFit(cs) => AllFit(chunks)'
    BY SameText DEF AllFit
<1>3. Adds(cs) => Adds(chunks)'
    BY DEF Adds
<1>4. Covered(cs, Len(Clean)) => Covered(chunks, Len(Clean))'
    BY <1>1 DEF Covered, Holding
<1>5. Underway(cs, st) => Underway(chunks, start)'
    BY <1>1 DEF Underway, Covered, Holding
<1> QED BY <1>2, <1>3, <1>4, <1>5

LEMMA FirstPoint == Laid(text, kinds) => Between(0)
<1> SUFFICES ASSUME Laid(text, kinds) PROVE Between(0)
    OBVIOUS
<1>1. \A s \in ProtectedSpans : s[1] \in Nat
    BY SpansHold
<1> QED BY <1>1 DEF Between

LEMMA WindowInvStep == WindowInv /\ [Next]_vars => WindowInv'
<1> SUFFICES ASSUME WindowInv, [Next]_vars PROVE WindowInv'
    OBVIOUS
<1>1. MaskInv'
    BY MaskInvStep DEF WindowInv
<1>2. CASE Detect
    BY <1>1, <1>2 DEF Detect, WindowInv, Before
<1>3. CASE ApproveText
    BY <1>1, <1>3 DEF ApproveText, WindowInv, Before
<1>4. CASE ApproveImage
    BY <1>1, <1>4 DEF ApproveImage, WindowInv, Before
<1>5. CASE ChunkPage
  <2>1. /\ stage = "masked" /\ stage' = "chunking" /\ kinds' \in Kinds
        /\ text' = text /\ start' = start /\ chunks' = chunks
      BY <1>5 DEF ChunkPage
  <2>2. /\ findings \in SUBSET Matches /\ MaskedAs(text, findings)
        /\ start = 0 /\ chunks = <<>>
      BY <2>1 DEF WindowInv, MaskInv, Before
  <2>3. Laid(text, kinds')
      BY <2>1, <2>2, KindsLay
  <2>4. Laid(text, kinds)'
      BY <2>1, <2>3
  <2>5. AllFit(chunks)' /\ Adds(chunks)'
    <3>1. chunks' = <<>> /\ Len(<<>>) = 0 /\ <<>> \in Seq(Windows)
        BY <2>1, <2>2, EmptySeq
    <3> QED BY <3>1 DEF AllFit, Adds
  <2>6. Underway(chunks, start)'
    <3>1. chunks' = <<>> /\ Len(<<>>) = 0 /\ start' = 0
        BY <2>1, <2>2, EmptySeq
    <3>2. (Laid(text, kinds) => Between(0))'
        BY FirstPoint, PTL
    <3>3. Between(start)'
        BY <2>4, <3>1, <3>2 DEF Between
    <3>4. Covered(chunks, start)'
        BY <3>1 DEF Covered
    <3> QED BY <3>1, <3>2, <3>3, <3>4 DEF Underway
  <2> QED BY <1>1, <2>1, <2>4, <2>5, <2>6 DEF WindowInv, Before
<1>6. CASE NextWindow
  <2> DEFINE end == ChunkEnd(start)
             more == IF ChunkContent([start |-> start, end |-> end]) = <<>> THEN chunks
                     ELSE Append(chunks, [start |-> start, end |-> end])
  <2>1. /\ stage = "chunking" /\ start < Len(Clean)
        /\ text' = text /\ kinds' = kinds /\ chunks' = more
        /\ IF end >= Len(Clean) THEN stage' = "chunked"
           ELSE stage' = stage /\ start' = NextStart(start, end)
      BY <1>6 DEF NextWindow
  <2>2. Laid(text, kinds) /\ AllFit(chunks) /\ Adds(chunks) /\ Underway(chunks, start)
      BY <2>1 DEF WindowInv
  <2>3. /\ AllFit(more) /\ Adds(more)
        /\ end >= Len(Clean) => Covered(more, Len(Clean))
        /\ end < Len(Clean) => Underway(more, NextStart(start, end))
    <3>1. end = ChunkEnd(start)
        OBVIOUS
    <3> HIDE DEF end
    <3>2. more = IF ChunkContent([start |-> start, end |-> end]) = <<>> THEN chunks
                 ELSE Append(chunks, [start |-> start, end |-> end])
        OBVIOUS
    <3> HIDE DEF more
    <3> QED BY <2>1, <2>2, <3>1, <3>2, WindowAdded
  <2>4. end \in Nat /\ Len(Clean) \in Nat
      BY <2>1, <2>2, EndHolds, CleanIsLaid DEF Underway
  <2> HIDE DEF end, more
  <2>5. Laid(text, kinds)' /\ AllFit(chunks)' /\ Adds(chunks)'
      BY <2>1, <2>2, <2>3, SameText, ChunksCarry
  <2>6. CASE end >= Len(Clean)
    <3>1. stage' = "chunked" /\ Covered(chunks, Len(Clean))'
        BY <2>1, <2>3, <2>6, ChunksCarry
    <3> QED BY <1>1, <2>5, <3>1 DEF WindowInv, Before
  <2>7. CASE end < Len(Clean)
    <3>1. stage' = "chunking" /\ start' = NextStart(start, end)
        BY <2>1, <2>4, <2>7
    <3>2. Underway(chunks, start)'
        BY <2>1, <2>3, <2>7, <3>1, ChunksCarry
    <3> QED BY <1>1, <2>5, <3>1, <3>2 DEF WindowInv, Before
  <2> QED BY <2>4, <2>6, <2>7
<1>7. CASE NoMoreWindows
  <2>1. /\ stage = "chunking" /\ stage' = "chunked" /\ start >= Len(Clean)
        /\ text' = text /\ kinds' = kinds /\ chunks' = chunks /\ start' = start
      BY <1>7 DEF NoMoreWindows
  <2>2. Laid(text, kinds) /\ AllFit(chunks) /\ Adds(chunks) /\ Underway(chunks, start)
      BY <2>1 DEF WindowInv
  <2>3. Len(Clean) \in Nat /\ start \in Nat /\ start <= Len(Clean)
      BY <2>2, CleanIsLaid DEF Underway
  <2>4. start = Len(Clean)
      BY <2>1, <2>3
  <2>5. Covered(chunks, Len(Clean))
      BY <2>2, <2>4 DEF Underway
  <2>6. Laid(text, kinds)' /\ AllFit(chunks)' /\ Adds(chunks)' /\ Covered(chunks, Len(Clean))'
      BY <2>1, <2>2, <2>5, SameText, ChunksCarry
  <2> QED BY <1>1, <2>1, <2>6 DEF WindowInv, Before
<1>8. CASE UNCHANGED vars
  <2>1. /\ text' = text /\ kinds' = kinds /\ chunks' = chunks /\ start' = start
        /\ stage' = stage
      BY <1>8 DEF vars
  <2>2. /\ AllFit(chunks) => AllFit(chunks)'
        /\ Adds(chunks) => Adds(chunks)'
        /\ Underway(chunks, start) => Underway(chunks, start)'
        /\ Covered(chunks, Len(Clean)) => Covered(chunks, Len(Clean))'
        /\ Laid(text, kinds) => Laid(text, kinds)'
      BY <2>1, SameText, ChunksCarry
  <2> QED BY <1>1, <2>1, <2>2 DEF WindowInv
<1> QED BY <1>2, <1>3, <1>4, <1>5, <1>6, <1>7, <1>8 DEF Next

\* The chunks of a page are the page: whatever the page, the sizes of windows
\* and overlaps and the places to cut, they leave out nothing but blanks, each
\* has text the others do not have, and the catalog shows what they are
\* (chunk_page and the evidence catalog).
THEOREM ChunksStayFaithful == Spec => []ChunksAreFaithful
<1>1. WindowInv => ChunksAreFaithful
  <2> SUFFICES ASSUME WindowInv PROVE ChunksAreFaithful
      OBVIOUS
  <2>1. CASE stage \in Before
    <3>1. chunks = <<>> /\ DOMAIN chunks = {} /\ stage # "chunked"
        BY <2>1 DEF WindowInv, Before
    <3> QED BY <3>1 DEF ChunksAreFaithful, ChunksCoverThePage, EachChunkAddsText,
                        CatalogShowsTheChunks
  <2>2. CASE stage \in {"chunking", "chunked"}
    <3>1. /\ Laid(text, kinds) /\ AllFit(chunks) /\ Adds(chunks)
          /\ stage = "chunked" => Covered(chunks, Len(Clean))
        BY <2>2 DEF WindowInv
    <3>2. /\ DOMAIN Clean = 1..Len(Clean) /\ DOMAIN CleanKinds = 1..Len(Clean)
          /\ DOMAIN chunks = 1..Len(chunks) /\ chunks \in Seq(Windows)
        BY <3>1, CleanIsLaid, LenProperties DEF AllFit
    <3>3. ChunksCoverThePage
        BY <3>1, <3>2 DEF ChunksCoverThePage, Covered, Holding, Blanks
    <3>4. EachChunkAddsText
        BY <3>1, <3>2 DEF EachChunkAddsText, Adds
    <3>5. CatalogShowsTheChunks
      <4> SUFFICES ASSUME Leading(kinds) = 0, NEW n \in 1..Len(chunks)
                   PROVE  CatalogSnippet(chunks[n]) = ChunkContent(chunks[n])
          BY <3>2 DEF CatalogShowsTheChunks
      <4> DEFINE st == chunks[n].start
                 end == chunks[n].end
      <4>1. chunks[n] \in Windows
          BY <3>2, ElementOfSeq
      <4>2. st \in Nat /\ end \in Nat /\ chunks[n] = [start |-> st, end |-> end]
          BY <4>1 DEF Windows
      <4>3. st < end /\ end <= Len(Clean)
          BY <3>1 DEF AllFit, Fits
      <4> HIDE DEF st, end
      <4>4. CatalogSnippet([start |-> st, end |-> end]) = ChunkContent([start |-> st, end |-> end])
          BY <3>1, <4>2, <4>3, CatalogShows
      <4> QED BY <4>2, <4>4
    <3> QED BY <3>3, <3>4, <3>5 DEF ChunksAreFaithful
  <2>3. stage \in Before \/ stage \in {"chunking", "chunked"}
      BY DEF WindowInv, MaskInv, Before
  <2> QED BY <2>1, <2>2, <2>3
<1> QED BY <1>1, WindowInvInit, WindowInvStep, PTL DEF Spec

\* No placeholder is lost to the windows, whatever the page and the windows, as
\* long as the ones the masking puts in are no longer than the overlap
\* (_adjust_split_point, the overlap of chunk_page).
THEOREM TokensStayWhole ==
    ASSUME Placeholder <= OverlapChars PROVE Spec => []TokensSurviveChunking
<1>1. WindowInv => TokensSurviveChunking
  <2> SUFFICES ASSUME WindowInv PROVE TokensSurviveChunking
      OBVIOUS
  <2>1. CASE stage \in Before
    <3>1. chunks = <<>> /\ DOMAIN chunks = {} /\ stage # "chunked"
        BY <2>1 DEF WindowInv, Before
    <3> QED BY <3>1 DEF TokensSurviveChunking, TokensAreWhole, PlaceholdersAreWholeSomewhere
  <2>2. CASE stage \in {"chunking", "chunked"}
    <3>1. /\ Laid(text, kinds) /\ AllFit(chunks)
          /\ stage = "chunked" => Covered(chunks, Len(Clean))
        BY <2>2 DEF WindowInv
    <3>2. /\ DOMAIN Clean = 1..Len(Clean)
          /\ DOMAIN chunks = 1..Len(chunks) /\ chunks \in Seq(Windows)
        BY <3>1, CleanIsLaid, LenProperties DEF AllFit
    <3>3. TokensAreWhole
        BY <3>1, <3>2 DEF TokensAreWhole, AllFit, Fits, Between
    <3>4. PlaceholdersAreWholeSomewhere
        BY <3>1, <3>2 DEF PlaceholdersAreWholeSomewhere, Covered, Holding
    <3> QED BY <3>3, <3>4 DEF TokensSurviveChunking
  <2>3. stage \in Before \/ stage \in {"chunking", "chunked"}
      BY DEF WindowInv, MaskInv, Before
  <2> QED BY <2>1, <2>2, <2>3
<1> QED BY <1>1, WindowInvInit, WindowInvStep, PTL DEF Spec

-----------------------------------------------------------------------------
(***************************************************************************)
(* The boxes of an image: counting up, and functions defined that way.     *)
(***************************************************************************)

LEMMA CountingUp ==
    ASSUME NEW a \in Nat, NEW N \in Nat, NEW Good, a \in Good,
           \A n \in a..(N - 1) : n \in Good => n + 1 \in Good
    PROVE  a..N \subseteq Good
<1> SUFFICES ASSUME (a..N) \ Good # {} PROVE FALSE
    OBVIOUS
<1>1. (a..N) \ Good \subseteq Nat
    OBVIOUS
<1>2. PICK n \in (a..N) \ Good : \A m \in (a..N) \ Good : n <= m
    BY <1>1, LeastNumber
<1>3. n \in Nat /\ a < n /\ n <= N
    OBVIOUS
<1>4. n - 1 \in a..(N - 1) /\ n - 1 \in a..N /\ ~(n <= n - 1)
    BY <1>3
<1>5. n - 1 \in Good
    BY <1>2, <1>4
<1>6. (n - 1) + 1 = n
    BY <1>3
<1> QED BY <1>4, <1>5, <1>6

\* A function from a number up may be defined by what it is there, and by a
\* step from each number to the next.
FoldsUp(a, N, base, step, f) ==
    /\ f[a] = base
    /\ \A n \in (a + 1)..N : f[n] = step[<<f[n - 1], n>>]

LEMMA CountedUp ==
    ASSUME NEW a \in Nat, NEW N \in Nat, a <= N, NEW D, NEW base \in D, NEW step,
           \A d \in D : \A n \in (a + 1)..N : step[<<d, n>>] \in D
    PROVE  \E f \in [a..N -> D] : FoldsUp(a, N, base, step, f)
<1> DEFINE Good == {n \in Nat : \E f \in [a..n -> D] : FoldsUp(a, n, base, step, f)}
<1>1. a \in Good
  <2> DEFINE f == [m \in a..a |-> base]
  <2>1. f \in [a..a -> D] /\ f[a] = base /\ (a + 1)..a = {}
      OBVIOUS
  <2>2. FoldsUp(a, a, base, step, f)
      BY <2>1 DEF FoldsUp
  <2> QED BY <2>1, <2>2
<1>2. ASSUME NEW n \in a..(N - 1), n \in Good PROVE n + 1 \in Good
  <2>1. PICK f \in [a..n -> D] : FoldsUp(a, n, base, step, f)
      BY <1>2
  <2> DEFINE g == [m \in a..(n + 1) |-> IF m = n + 1 THEN step[<<f[n], n + 1>>] ELSE f[m]]
  <2>2. n \in Nat /\ n + 1 \in Nat /\ n \in a..n /\ n + 1 \in (a + 1)..N /\ f[n] \in D
      OBVIOUS
  <2>3. g \in [a..(n + 1) -> D]
    <3>1. step[<<f[n], n + 1>>] \in D
        BY <2>2
    <3>2. \A m \in a..(n + 1) : m # n + 1 => m \in a..n
        BY <2>2
    <3> QED BY <3>1, <3>2
  <2>4. g[n + 1] = step[<<f[n], n + 1>>] /\ \A m \in a..n : g[m] = f[m]
    <3>1. n + 1 \in a..(n + 1) /\ \A m \in a..n : m \in a..(n + 1) /\ m # n + 1
        BY <2>2
    <3> QED BY <3>1
  <2> HIDE DEF g
  <2>5. g[a] = base
      BY <2>1, <2>2, <2>4 DEF FoldsUp
  <2>6. ASSUME NEW m \in (a + 1)..(n + 1) PROVE g[m] = step[<<g[m - 1], m>>]
    <3>1. CASE m = n + 1
      <4>1. m - 1 = n
          BY <2>2, <3>1
      <4> QED BY <2>2, <2>4, <3>1, <4>1
    <3>2. CASE m # n + 1
      <4>1. m \in (a + 1)..n /\ m \in a..n /\ m - 1 \in a..n
          BY <2>2, <3>2
      <4> QED BY <2>1, <2>4, <4>1 DEF FoldsUp
    <3> QED BY <3>1, <3>2
  <2>7. FoldsUp(a, n + 1, base, step, g)
      BY <2>5, <2>6 DEF FoldsUp
  <2> QED BY <2>2, <2>3, <2>7
<1>3. a..N \subseteq Good
  <2> HIDE DEF Good
  <2> QED BY <1>1, <1>2, CountingUp
<1>4. N \in Good
    BY <1>3
<1> QED BY <1>4

-----------------------------------------------------------------------------
(***************************************************************************)
(* What one pass does.                                                     *)
(***************************************************************************)

AnyBoxes == [x0 : Int, y0 : Int, x1 : Int, y1 : Int]

\* a is covered by b.
In(a, b) == b.x0 <= a.x0 /\ b.y0 <= a.y0 /\ a.x1 <= b.x1 /\ a.y1 <= b.y1

InSome(a, boxes) == \E n \in 1..Len(boxes) : In(a, boxes[n])

LEMMA BoxFacts ==
    ASSUME NEW a \in AnyBoxes, NEW b \in AnyBoxes
    PROVE  /\ Hull(a, b) \in AnyBoxes /\ In(a, Hull(a, b)) /\ In(b, Hull(a, b))
           /\ In(a, a)
           /\ Touch(a, b) <=> Touch(b, a)
           /\ \A c \in AnyBoxes : In(a, b) /\ In(b, c) => In(a, c)
BY DEF AnyBoxes, Hull, In, Touch, LesserOf, GreaterOf

LEMMA InAcross ==
    ASSUME NEW a \in AnyBoxes, NEW b \in AnyBoxes, NEW c \in AnyBoxes, In(a, b), In(b, c)
    PROVE  In(a, c)
BY BoxFacts

\* One box meets another.
Met(so, box) ==
    IF Touch(so.box, box) THEN [so EXCEPT !.box = Hull(@, box)]
    ELSE [so EXCEPT !.rest = Append(@, box)]

Partly == [box : AnyBoxes, rest : Seq(AnyBoxes)]

Absorbs(boxes, grown) ==
    grown = [n \in 1..Len(boxes) |-> IF n = 1 THEN [box |-> boxes[1], rest |-> <<>>]
                                     ELSE Met(grown[n - 1], boxes[n])]

LEMMA MetIsPartly ==
    ASSUME NEW so \in Partly, NEW box \in AnyBoxes
    PROVE  /\ Met(so, box) \in Partly
           /\ Touch(so.box, box) => /\ Met(so, box).box = Hull(so.box, box)
                                    /\ Met(so, box).rest = so.rest
           /\ ~Touch(so.box, box) => /\ Met(so, box).box = so.box
                                     /\ Met(so, box).rest = Append(so.rest, box)
<1>1. so = [box |-> so.box, rest |-> so.rest] /\ so.box \in AnyBoxes /\ so.rest \in Seq(AnyBoxes)
    BY DEF Partly
<1>2. Hull(so.box, box) \in AnyBoxes
    BY <1>1, BoxFacts
<1>3. Append(so.rest, box) \in Seq(AnyBoxes)
    BY <1>1, AppendProperties
<1>4. CASE Touch(so.box, box)
  <2>1. Met(so, box) = [box |-> Hull(so.box, box), rest |-> so.rest]
      BY <1>1, <1>4 DEF Met
  <2> QED BY <1>1, <1>2, <1>4, <2>1 DEF Partly
<1>5. CASE ~Touch(so.box, box)
  <2>1. Met(so, box) = [box |-> so.box, rest |-> Append(so.rest, box)]
      BY <1>1, <1>5 DEF Met
  <2> QED BY <1>1, <1>3, <1>5, <2>1 DEF Partly
<1> QED BY <1>4, <1>5

LEMMA AbsorbIsDefined ==
    ASSUME NEW boxes \in Seq(AnyBoxes), boxes # <<>>
    PROVE  \E grown \in [1..Len(boxes) -> Partly] :
             /\ Absorb(boxes) = grown[Len(boxes)]
             /\ grown[1] = [box |-> boxes[1], rest |-> <<>>]
             /\ \A n \in 2..Len(boxes) : grown[n] = Met(grown[n - 1], boxes[n])
<1> DEFINE N == Len(boxes)
           base == [box |-> boxes[1], rest |-> <<>>]
           step == [p \in Partly \X (2..N) |-> Met(p[1], boxes[p[2]])]
<1>1. N \in Nat /\ 1 <= N /\ \A n \in 1..N : boxes[n] \in AnyBoxes
    BY EmptySeq, LenProperties, ElementOfSeq
<1>2. base \in Partly
    BY <1>1, EmptySeq DEF Partly
<1>3. \A d \in Partly : \A n \in 2..N : step[<<d, n>>] = Met(d, boxes[n]) /\ step[<<d, n>>] \in Partly
  <2>1. \A n \in 2..N : boxes[n] \in AnyBoxes
      BY <1>1
  <2> QED BY <2>1, MetIsPartly
<1> HIDE DEF N, base, step
<1>4. PICK m \in [1..N -> Partly] : FoldsUp(1, N, base, step, m)
  <2>1. 1 + 1 = 2
      OBVIOUS
  <2>2. \A d \in Partly : \A n \in (1 + 1)..N : step[<<d, n>>] \in Partly
      BY <1>3, <2>1
  <2> QED BY <1>1, <1>2, <2>2, CountedUp
<1>5. m[1] = base /\ \A n \in 2..N : m[n] = Met(m[n - 1], boxes[n])
  <2>1. m[1] = base /\ \A n \in 2..N : m[n] = step[<<m[n - 1], n>>]
      BY <1>4 DEF FoldsUp
  <2>2. \A n \in 2..N : m[n - 1] \in Partly
      BY <1>1, <1>4
  <2> QED BY <1>3, <2>1, <2>2
<1>6. Absorbs(boxes, m)
  <2>1. \A n \in 1..N : n = 1 \/ n \in 2..N
      BY <1>1
  <2>2. \A n \in 1..N : m[n] = IF n = 1 THEN [box |-> boxes[1], rest |-> <<>>]
                                ELSE Met(m[n - 1], boxes[n])
      BY <1>5, <2>1 DEF base
  <2> QED BY <1>4, <2>2 DEF Absorbs, N
<1>7. Absorb(boxes) = (CHOOSE grown : Absorbs(boxes, grown))[N]
    BY Zenon DEF Absorb, Absorbs, Met, N
<1> DEFINE g == CHOOSE grown : Absorbs(boxes, grown)
<1>8. Absorbs(boxes, g)
    BY <1>6
<1> HIDE DEF g
<1>9. g[1] = m[1]
  <2>1. 1 \in 1..N
      BY <1>1
  <2> QED BY <1>6, <1>8, <2>1 DEF Absorbs, N
<1>10. ASSUME NEW n \in 2..N PROVE g[n] = Met(g[n - 1], boxes[n])
  <2>1. n \in 1..N /\ n # 1
      BY <1>1
  <2>2. g[n] = IF n = 1 THEN [box |-> boxes[1], rest |-> <<>>] ELSE Met(g[n - 1], boxes[n])
      BY <1>8, <2>1, Zenon DEF Absorbs, N
  <2> QED BY <2>1, <2>2
<1>11. g[N] = m[N]
  <2>1. N \in 1..N /\ 1 \in Nat
      BY <1>1
  <2>2. \A n \in 2..N : g[n - 1] = m[n - 1] => g[n] = m[n]
      BY <1>5, <1>10
  <2> DEFINE Same == {n \in Nat : g[n] = m[n]}
  <2>3. 1 \in Same
      BY <1>9
  <2>4. ASSUME NEW n \in 1..(N - 1), n \in Same PROVE n + 1 \in Same
    <3>1. n + 1 \in 2..N /\ (n + 1) - 1 = n /\ n + 1 \in Nat
        BY <1>1
    <3> QED BY <2>2, <2>4, <3>1
  <2>5. 1..N \subseteq Same
    <3> HIDE DEF Same
    <3> QED BY <1>1, <2>1, <2>3, <2>4, CountingUp
  <2> QED BY <2>1, <2>5
<1>12. Absorb(boxes) = m[N]
    BY <1>7, <1>11 DEF g
<1> QED BY <1>5, <1>12 DEF N, base

\* The first box has grown by what it has met, the rest is as it was; and when
\* nothing is missing of it the first box has met nothing.
LEMMA AbsorbKeeps ==
    ASSUME NEW boxes \in Seq(AnyBoxes), boxes # <<>>
    PROVE  LET first == Absorb(boxes) IN
           /\ first.box \in AnyBoxes /\ first.rest \in Seq(AnyBoxes)
           /\ Len(first.rest) <= Len(boxes) - 1
           /\ \A k \in 1..Len(boxes) : In(boxes[k], first.box) \/ InSome(boxes[k], first.rest)
           /\ Len(first.rest) = Len(boxes) - 1 =>
                /\ first.box = boxes[1] /\ first.rest = Tail(boxes)
                /\ \A k \in 2..Len(boxes) : ~Touch(boxes[1], boxes[k])
<1> DEFINE N == Len(boxes)
<1>1. N \in Nat /\ 1 <= N /\ \A n \in 1..N : boxes[n] \in AnyBoxes
    BY EmptySeq, LenProperties, ElementOfSeq
<1>2. PICK grown \in [1..N -> Partly] :
             /\ Absorb(boxes) = grown[N]
             /\ grown[1] = [box |-> boxes[1], rest |-> <<>>]
             /\ \A n \in 2..N : grown[n] = Met(grown[n - 1], boxes[n])
    BY AbsorbIsDefined
<1> DEFINE Kept(n, so) ==
             /\ Len(so.rest) <= n - 1
             /\ \A k \in 1..n : In(boxes[k], so.box) \/ InSome(boxes[k], so.rest)
             /\ Len(so.rest) = n - 1 =>
                  /\ so.box = boxes[1]
                  /\ \A k \in 1..(n - 1) : so.rest[k] = boxes[k + 1]
                  /\ \A k \in 2..n : ~Touch(boxes[1], boxes[k])
           Good == {n \in Nat : n \in 1..N => Kept(n, grown[n])}
<1>3. 1 \in Good
  <2>1. grown[1].rest = <<>> /\ grown[1].box = boxes[1] /\ Len(<<>>) = 0
    <3>1. grown[1] = [box |-> boxes[1], rest |-> <<>>] /\ Len(<<>>) = 0
        BY <1>2, EmptySeq
    <3> QED BY <3>1
  <2>2. In(boxes[1], boxes[1])
    <3>1. 1 \in 1..N /\ boxes[1] \in AnyBoxes
        BY <1>1
    <3> QED BY <3>1, BoxFacts
  <2>3. 1..(1 - 1) = {} /\ 2..1 = {} /\ 1..1 = {1}
      OBVIOUS
  <2> QED BY <2>1, <2>2, <2>3
<1>4. ASSUME NEW n \in 1..(N - 1), n \in Good PROVE n + 1 \in Good
  <2>1. n \in Nat /\ n \in 1..N /\ n + 1 \in 2..N /\ n + 1 \in 1..N /\ (n + 1) - 1 = n /\ n >= 1
      BY <1>1
  <2> DEFINE so == grown[n]
             box == boxes[n + 1]
             next == grown[n + 1]
  <2>2. so \in Partly /\ box \in AnyBoxes /\ next = Met(so, box) /\ next \in Partly
      BY <1>1, <1>2, <2>1
  <2>3. Kept(n, so)
      BY <1>4, <2>1
  <2>4. Kept(n + 1, next)
    <3> HIDE DEF so, box, next
    <3>1. /\ so.box \in AnyBoxes /\ so.rest \in Seq(AnyBoxes) /\ Len(so.rest) \in Nat
        BY <2>2, LenProperties DEF Partly
    <3>2. \A k \in 1..(n + 1) : k \in 1..n \/ k = n + 1
        BY <2>1
    <3>3. CASE Touch(so.box, box)
      <4>1. next.box = Hull(so.box, box) /\ next.rest = so.rest
          BY <2>2, <3>3, MetIsPartly
      <4>2. In(box, next.box) /\ \A a \in AnyBoxes : In(a, so.box) => In(a, next.box)
          BY <2>2, <3>1, <4>1, BoxFacts
      <4>3. \A k \in 1..n : boxes[k] \in AnyBoxes
          BY <1>1, <2>1
      <4>4. \A k \in 1..(n + 1) : In(boxes[k], next.box) \/ InSome(boxes[k], next.rest)
          BY <2>3, <3>2, <4>1, <4>2, <4>3 DEF box
      <4>5. Len(next.rest) <= n - 1
          BY <2>3, <4>1
      <4>6. Len(next.rest) <= (n + 1) - 1 /\ Len(next.rest) # (n + 1) - 1
          BY <2>1, <3>1, <4>1, <4>5
      <4> QED BY <4>4, <4>6
    <3>4. CASE ~Touch(so.box, box)
      <4>1. next.box = so.box /\ next.rest = Append(so.rest, box)
          BY <2>2, <3>4, MetIsPartly
      <4>2. /\ Len(next.rest) = Len(so.rest) + 1
            /\ \A k \in 1..Len(so.rest) : next.rest[k] = so.rest[k]
            /\ next.rest[Len(so.rest) + 1] = box
          BY <2>2, <3>1, <4>1, AppendProperties
      <4>3. In(box, box)
          BY <2>2, BoxFacts
      <4>4. InSome(box, next.rest)
        <5>1. Len(so.rest) + 1 \in 1..Len(next.rest)
            BY <3>1, <4>2
        <5> QED BY <4>2, <4>3, <5>1 DEF InSome
      <4>5. \A a : InSome(a, so.rest) => InSome(a, next.rest)
        <5>1. \A k \in 1..Len(so.rest) : k \in 1..Len(next.rest)
            BY <3>1, <4>2
        <5> QED BY <4>2, <5>1 DEF InSome
      <4>6. \A k \in 1..(n + 1) : In(boxes[k], next.box) \/ InSome(boxes[k], next.rest)
          BY <2>3, <3>2, <4>1, <4>4, <4>5 DEF box
      <4>7. Len(next.rest) <= (n + 1) - 1
          BY <2>1, <2>3, <3>1, <4>2
      <4>8. ASSUME Len(next.rest) = (n + 1) - 1
            PROVE  /\ next.box = boxes[1]
                   /\ \A k \in 1..((n + 1) - 1) : next.rest[k] = boxes[k + 1]
                   /\ \A k \in 2..(n + 1) : ~Touch(boxes[1], boxes[k])
        <5>1. Len(so.rest) = n - 1
            BY <2>1, <3>1, <4>2, <4>8
        <5>2. /\ so.box = boxes[1]
              /\ \A k \in 1..(n - 1) : so.rest[k] = boxes[k + 1]
              /\ \A k \in 2..n : ~Touch(boxes[1], boxes[k])
            BY <2>3, <5>1
        <5>3. \A k \in 1..n : next.rest[k] = boxes[k + 1]
          <6>1. \A k \in 1..n : k = n \/ k \in 1..(n - 1)
              BY <2>1
          <6>2. Len(so.rest) + 1 = n
              BY <2>1, <5>1
          <6>3. next.rest[n] = boxes[n + 1]
              BY <4>2, <6>2 DEF box
          <6>4. \A k \in 1..(n - 1) : next.rest[k] = boxes[k + 1]
              BY <4>2, <5>1, <5>2
          <6> QED BY <6>1, <6>3, <6>4
        <5>4. \A k \in 2..(n + 1) : k \in 2..n \/ k = n + 1
            BY <2>1
        <5>5. \A k \in 2..(n + 1) : ~Touch(boxes[1], boxes[k])
            BY <3>4, <5>2, <5>4 DEF box
        <5> QED BY <2>1, <4>1, <5>2, <5>3, <5>5
      <4> QED BY <4>6, <4>7, <4>8
    <3> QED BY <3>3, <3>4
  <2> QED BY <2>1, <2>4
<1>5. 1..N \subseteq Good
  <2> HIDE DEF Good
  <2> QED BY <1>1, <1>3, <1>4, CountingUp
<1>6. Kept(N, Absorb(boxes)) /\ Absorb(boxes) \in Partly
  <2>1. N \in 1..N
      BY <1>1
  <2> QED BY <1>2, <1>5, <2>1
<1>7. Absorb(boxes).box \in AnyBoxes /\ Absorb(boxes).rest \in Seq(AnyBoxes)
    BY <1>6 DEF Partly
<1>8. ASSUME Len(Absorb(boxes).rest) = N - 1 PROVE Absorb(boxes).rest = Tail(boxes)
  <2>1. Tail(boxes) \in Seq(AnyBoxes) /\ Len(Tail(boxes)) = N - 1
        /\ \A k \in 1..(N - 1) : Tail(boxes)[k] = boxes[k + 1]
      BY HeadTailProperties
  <2>2. \A k \in 1..(N - 1) : Absorb(boxes).rest[k] = boxes[k + 1]
      BY <1>6, <1>8
  <2>3. Len(Absorb(boxes).rest) = Len(Tail(boxes))
        /\ \A k \in 1..Len(Absorb(boxes).rest) : Absorb(boxes).rest[k] = Tail(boxes)[k]
      BY <1>8, <2>1, <2>2
  <2> HIDE DEF N
  <2> QED BY <1>7, <2>1, <2>3, SeqEqual
<1> QED BY <1>6, <1>7, <1>8

\* The next of the boxes that are to do.
Passed(so) ==
    IF so.todo = <<>> THEN so
    ELSE [done |-> Append(so.done, Absorb(so.todo).box), todo |-> Absorb(so.todo).rest]

PartOfAPass == [done : Seq(AnyBoxes), todo : Seq(AnyBoxes)]

Passes(boxes, pass) ==
    pass = [n \in 0..Len(boxes) |-> IF n = 0 THEN [done |-> <<>>, todo |-> boxes]
                                    ELSE Passed(pass[n - 1])]

LEMMA PassedIsPart == ASSUME NEW so \in PartOfAPass PROVE Passed(so) \in PartOfAPass
<1>1. so.done \in Seq(AnyBoxes) /\ so.todo \in Seq(AnyBoxes)
    BY DEF PartOfAPass
<1>2. CASE so.todo = <<>>
    BY <1>2 DEF Passed
<1>3. CASE so.todo # <<>>
  <2>1. Absorb(so.todo).box \in AnyBoxes /\ Absorb(so.todo).rest \in Seq(AnyBoxes)
      BY <1>1, <1>3, AbsorbKeeps
  <2>2. Append(so.done, Absorb(so.todo).box) \in Seq(AnyBoxes)
      BY <1>1, <2>1, AppendProperties
  <2> QED BY <1>3, <2>1, <2>2 DEF Passed, PartOfAPass
<1> QED BY <1>2, <1>3

LEMMA PassIsDefined ==
    ASSUME NEW boxes \in Seq(AnyBoxes)
    PROVE  \E pass \in [0..Len(boxes) -> PartOfAPass] :
             /\ Pass(boxes) = pass[Len(boxes)].done
             /\ pass[0] = [done |-> <<>>, todo |-> boxes]
             /\ \A n \in 1..Len(boxes) : pass[n] = Passed(pass[n - 1])
<1> DEFINE N == Len(boxes)
           base == [done |-> <<>>, todo |-> boxes]
           step == [p \in PartOfAPass \X (1..N) |-> Passed(p[1])]
<1>1. N \in Nat /\ 0 <= N
    BY LenProperties
<1>2. base \in PartOfAPass
    BY EmptySeq DEF PartOfAPass
<1>3. \A d \in PartOfAPass : \A n \in 1..N :
        step[<<d, n>>] = Passed(d) /\ step[<<d, n>>] \in PartOfAPass
    BY PassedIsPart
<1> HIDE DEF N, base, step
<1>4. PICK m \in [0..N -> PartOfAPass] : FoldsUp(0, N, base, step, m)
  <2>1. \A d \in PartOfAPass : \A n \in (0 + 1)..N : step[<<d, n>>] \in PartOfAPass
    <3>1. 0 + 1 = 1
        OBVIOUS
    <3> QED BY <1>3, <3>1
  <2> QED BY <1>1, <1>2, <2>1, CountedUp
<1>5. m[0] = base /\ \A n \in 1..N : m[n] = Passed(m[n - 1])
  <2>1. m[0] = base /\ \A n \in 1..N : m[n] = step[<<m[n - 1], n>>]
      BY <1>4 DEF FoldsUp
  <2>2. \A n \in 1..N : m[n - 1] \in PartOfAPass
      BY <1>1, <1>4
  <2> QED BY <1>3, <2>1, <2>2
<1>6. Passes(boxes, m)
  <2>1. \A n \in 0..N : n = 0 \/ n \in 1..N
      BY <1>1
  <2>2. \A n \in 0..N : m[n] = IF n = 0 THEN [done |-> <<>>, todo |-> boxes]
                                ELSE Passed(m[n - 1])
      BY <1>5, <2>1 DEF base
  <2> QED BY <1>4, <2>2 DEF Passes, N
<1>7. Pass(boxes) = (CHOOSE pass : Passes(boxes, pass))[N].done
    BY Zenon DEF Pass, Passes, Passed, N
<1> DEFINE g == CHOOSE pass : Passes(boxes, pass)
<1>8. Passes(boxes, g)
    BY <1>6
<1> HIDE DEF g
<1>9. g[0] = m[0]
  <2>1. 0 \in 0..N
      BY <1>1
  <2> QED BY <1>6, <1>8, <2>1 DEF Passes, N
<1>10. ASSUME NEW n \in 1..N PROVE g[n] = Passed(g[n - 1])
  <2>1. n \in 0..N /\ n # 0
      BY <1>1
  <2>2. g[n] = IF n = 0 THEN [done |-> <<>>, todo |-> boxes] ELSE Passed(g[n - 1])
      BY <1>8, <2>1, Zenon DEF Passes, N
  <2> QED BY <2>1, <2>2
<1>11. g[N] = m[N]
  <2>1. N \in 0..N /\ 0 \in Nat
      BY <1>1
  <2>2. \A n \in 1..N : g[n - 1] = m[n - 1] => g[n] = m[n]
      BY <1>5, <1>10
  <2> DEFINE Same == {n \in Nat : g[n] = m[n]}
  <2>3. 0 \in Same
      BY <1>9
  <2>4. ASSUME NEW n \in 0..(N - 1), n \in Same PROVE n + 1 \in Same
    <3>1. n + 1 \in 1..N /\ (n + 1) - 1 = n /\ n + 1 \in Nat
        BY <1>1
    <3> QED BY <2>2, <2>4, <3>1
  <2>5. 0..N \subseteq Same
    <3> HIDE DEF Same
    <3> QED BY <1>1, <2>1, <2>3, <2>4, CountingUp
  <2> QED BY <2>1, <2>5
<1>12. Pass(boxes) = m[N].done
    BY <1>7, <1>11 DEF g
<1> QED BY <1>5, <1>12 DEF N, base

Apart(boxes) == \A m, n \in 1..Len(boxes) : m # n => ~Touch(boxes[m], boxes[n])

\* A pass covers what was covered, and makes the boxes fewer unless they are
\* apart, which it leaves as they are.
LEMMA PassKeeps ==
    ASSUME NEW boxes \in Seq(AnyBoxes)
    PROVE  /\ Pass(boxes) \in Seq(AnyBoxes)
           /\ Len(Pass(boxes)) <= Len(boxes)
           /\ \A k \in 1..Len(boxes) : InSome(boxes[k], Pass(boxes))
           /\ Len(Pass(boxes)) = Len(boxes) => Pass(boxes) = boxes /\ Apart(boxes)
<1> DEFINE N == Len(boxes)
<1>1. N \in Nat /\ \A n \in 1..N : boxes[n] \in AnyBoxes
    BY LenProperties, ElementOfSeq
<1>2. PICK pass \in [0..N -> PartOfAPass] :
             /\ Pass(boxes) = pass[N].done
             /\ pass[0] = [done |-> <<>>, todo |-> boxes]
             /\ \A n \in 1..N : pass[n] = Passed(pass[n - 1])
    BY PassIsDefined
<1> DEFINE Kept(n, so) ==
             /\ \A k \in 1..N : InSome(boxes[k], so.done) \/ InSome(boxes[k], so.todo)
             /\ Len(so.todo) <= N - n
             /\ Len(so.done) + Len(so.todo) <= N
             /\ Len(so.done) + Len(so.todo) = N =>
                  /\ \A k \in 1..Len(so.done) : so.done[k] = boxes[k]
                  /\ \A k \in 1..Len(so.todo) : so.todo[k] = boxes[Len(so.done) + k]
                  /\ \A m, k \in 1..N : m < k /\ m <= Len(so.done) => ~Touch(boxes[m], boxes[k])
           Good == {n \in Nat : n \in 0..N => Kept(n, pass[n])}
<1>3. 0 \in Good
  <2>1. pass[0].done = <<>> /\ pass[0].todo = boxes /\ Len(<<>>) = 0
    <3>1. pass[0] = [done |-> <<>>, todo |-> boxes] /\ Len(<<>>) = 0
        BY <1>2, EmptySeq
    <3> QED BY <3>1
  <2>2. \A k \in 1..N : InSome(boxes[k], boxes)
    <3>1. \A k \in 1..N : In(boxes[k], boxes[k])
        BY <1>1, BoxFacts
    <3> QED BY <3>1 DEF InSome
  <2>3. \A k \in 1..N : 0 + k = k /\ ~(k <= 0)
      BY <1>1
  <2> QED BY <1>1, <2>1, <2>2, <2>3
<1>4. ASSUME NEW n \in 0..(N - 1), n \in Good PROVE n + 1 \in Good
  <2>1. n \in Nat /\ n \in 0..N /\ n + 1 \in 1..N /\ (n + 1) - 1 = n
      BY <1>1
  <2> DEFINE so == pass[n]
             next == pass[n + 1]
  <2>2. so \in PartOfAPass /\ next = Passed(so)
      BY <1>2, <2>1
  <2>3. Kept(n, so)
      BY <1>4, <2>1
  <2>4. Kept(n + 1, next)
    <3> HIDE DEF so, next
    <3>1. /\ so.done \in Seq(AnyBoxes) /\ so.todo \in Seq(AnyBoxes)
          /\ Len(so.done) \in Nat /\ Len(so.todo) \in Nat
        BY <2>2, LenProperties DEF PartOfAPass
    <3>2. CASE so.todo = <<>>
      <4>1. next = so /\ Len(so.todo) = 0
          BY <2>2, <3>2, EmptySeq DEF Passed
      <4>2. Len(so.todo) <= N - (n + 1)
          BY <1>1, <2>1, <4>1
      <4> QED BY <2>3, <4>1, <4>2
    <3>3. CASE so.todo # <<>>
      <4> DEFINE first == Absorb(so.todo)
      <4>1. next = [done |-> Append(so.done, first.box), todo |-> first.rest]
          BY <2>2, <3>3 DEF Passed
      <4>2. next.done = Append(so.done, first.box) /\ next.todo = first.rest
          BY <4>1
      <4>3. /\ first.box \in AnyBoxes /\ first.rest \in Seq(AnyBoxes)
            /\ Len(first.rest) <= Len(so.todo) - 1
            /\ \A k \in 1..Len(so.todo) : In(so.todo[k], first.box) \/ InSome(so.todo[k], first.rest)
            /\ Len(first.rest) = Len(so.todo) - 1 =>
                 /\ first.box = so.todo[1] /\ first.rest = Tail(so.todo)
                 /\ \A k \in 2..Len(so.todo) : ~Touch(so.todo[1], so.todo[k])
          BY <3>1, <3>3, AbsorbKeeps
      <4> HIDE DEF first
      <4>4. /\ Len(next.done) = Len(so.done) + 1
            /\ \A k \in 1..Len(so.done) : next.done[k] = so.done[k]
            /\ next.done[Len(so.done) + 1] = first.box
          BY <3>1, <4>2, <4>3, AppendProperties
      <4>5. Len(first.rest) \in Nat
          BY <4>3, LenProperties
      <4>6. \A k \in 1..N : InSome(boxes[k], next.done) \/ InSome(boxes[k], next.todo)
        <5>1. Len(so.done) + 1 \in 1..Len(next.done)
              /\ \A k \in 1..Len(so.done) : k \in 1..Len(next.done)
            BY <3>1, <4>4
        <5>2. \A a : InSome(a, so.done) => InSome(a, next.done)
            BY <4>4, <5>1 DEF InSome
        <5>3. \A a : In(a, first.box) => InSome(a, next.done)
            BY <4>4, <5>1 DEF InSome
        <5>4. ASSUME NEW k \in 1..N, InSome(boxes[k], so.todo)
              PROVE  InSome(boxes[k], next.done) \/ InSome(boxes[k], next.todo)
          <6>1. PICK j \in 1..Len(so.todo) : In(boxes[k], so.todo[j])
              BY <5>4 DEF InSome
          <6>2. boxes[k] \in AnyBoxes /\ so.todo[j] \in AnyBoxes
            <7>1. boxes[k] \in AnyBoxes
                BY <1>1
            <7>2. so.todo[j] \in AnyBoxes
              <8> HIDE DEF N
              <8> QED BY <3>1, ElementOfSeq
            <7> QED BY <7>1, <7>2
          <6>3. CASE In(so.todo[j], first.box)
            <7>1. In(boxes[k], first.box)
              <8>1. first.box \in AnyBoxes
                  BY <4>3
              <8> HIDE DEF N
              <8> QED BY <6>1, <6>2, <6>3, <8>1, InAcross, Zenon
            <7> QED BY <5>3, <7>1
          <6>4. CASE InSome(so.todo[j], first.rest)
            <7>1. PICK i \in 1..Len(first.rest) : In(so.todo[j], first.rest[i])
                BY <6>4 DEF InSome
            <7>2. first.rest[i] \in AnyBoxes
              <8>1. first.rest \in Seq(AnyBoxes)
                  BY <4>3
              <8> HIDE DEF N
              <8> QED BY <8>1, ElementOfSeq
            <7>3. In(boxes[k], first.rest[i])
              <8> HIDE DEF N
              <8> QED BY <6>1, <6>2, <7>1, <7>2, InAcross, Zenon
            <7> QED BY <4>2, <7>3 DEF InSome
          <6> QED BY <4>3, <6>3, <6>4
        <5> QED BY <2>3, <5>2, <5>4
      <4>7. Len(next.todo) <= N - (n + 1) /\ Len(next.done) + Len(next.todo) <= N
        <5> DEFINE D == Len(so.done)
                   T == Len(so.todo)
                   R == Len(first.rest)
        <5>1. T <= N - n /\ D + T <= N
            BY <2>3
        <5>2. Len(next.todo) = R /\ Len(next.done) = D + 1 /\ R <= T - 1
            BY <4>2, <4>3, <4>4
        <5>3. D \in Nat /\ T \in Nat /\ R \in Nat /\ N \in Nat /\ n \in Nat
            BY <1>1, <2>1, <3>1, <4>5
        <5> HIDE DEF N, Kept, D, T, R
        <5>4. R <= N - (n + 1) /\ (D + 1) + R <= N
            BY <5>1, <5>2, <5>3
        <5> QED BY <5>2, <5>4
      <4>8. ASSUME Len(next.done) + Len(next.todo) = N
            PROVE  /\ \A k \in 1..Len(next.done) : next.done[k] = boxes[k]
                   /\ \A k \in 1..Len(next.todo) : next.todo[k] = boxes[Len(next.done) + k]
                   /\ \A m, k \in 1..N :
                        m < k /\ m <= Len(next.done) => ~Touch(boxes[m], boxes[k])
        <5> DEFINE D == Len(so.done)
                   T == Len(so.todo)
        <5>1. /\ D \in Nat /\ T \in Nat /\ D + T = N /\ T >= 1 /\ Len(first.rest) = T - 1
              /\ Len(next.done) = D + 1 /\ Len(next.todo) = T - 1
          <6> DEFINE R == Len(first.rest)
          <6>1. D + T <= N
              BY <2>3
          <6>2. Len(next.todo) = R /\ Len(next.done) = D + 1 /\ R <= T - 1
              BY <4>2, <4>3, <4>4
          <6>3. D \in Nat /\ T \in Nat /\ R \in Nat /\ N \in Nat
              BY <1>1, <3>1, <4>5
          <6>4. (D + 1) + R = N
              BY <4>8, <6>2
          <6> HIDE DEF N, Kept, D, T, R
          <6>5. D + T = N /\ R = T - 1 /\ T >= 1
              BY <6>1, <6>2, <6>3, <6>4
          <6> QED BY <6>2, <6>3, <6>5 DEF R
        <5>2. /\ \A k \in 1..D : so.done[k] = boxes[k]
              /\ \A k \in 1..T : so.todo[k] = boxes[D + k]
              /\ \A m, k \in 1..N : m < k /\ m <= D => ~Touch(boxes[m], boxes[k])
            BY <2>3, <5>1
        <5>3. /\ first.box = so.todo[1] /\ first.rest = Tail(so.todo)
              /\ \A k \in 2..T : ~Touch(so.todo[1], so.todo[k])
            BY <4>3, <5>1
        <5>4. \A k \in 1..(T - 1) : first.rest[k] = so.todo[k + 1]
            BY <3>1, <3>3, <5>1, <5>3, HeadTailProperties
        <5> HIDE DEF D, T
        <5>5. first.box = boxes[D + 1]
          <6>1. 1 \in 1..T
              BY <5>1
          <6> QED BY <5>2, <5>3, <6>1
        <5>6. \A k \in 1..(D + 1) : next.done[k] = boxes[k]
          <6>1. \A k \in 1..(D + 1) : k = D + 1 \/ k \in 1..D
              BY <5>1
          <6> QED BY <4>4, <5>2, <5>5, <6>1 DEF D
        <5>7. \A k \in 1..(T - 1) : next.todo[k] = boxes[(D + 1) + k]
          <6>1. \A k \in 1..(T - 1) : k + 1 \in 1..T /\ D + (k + 1) = (D + 1) + k
              BY <5>1
          <6> QED BY <4>2, <5>2, <5>4, <6>1
        <5>8. ASSUME NEW m \in 1..N, NEW k \in 1..N, m < k, m <= D + 1
              PROVE  ~Touch(boxes[m], boxes[k])
          <6>1. CASE m <= D
              BY <5>2, <5>8, <6>1
          <6>2. CASE ~(m <= D)
            <7>1. m = D + 1 /\ k - D \in 2..T /\ k - D \in 1..T /\ D + (k - D) = k
                BY <1>1, <5>1, <5>8, <6>2
            <7>2. boxes[k] = so.todo[k - D]
                BY <5>2, <7>1
            <7> QED BY <5>3, <5>5, <7>1, <7>2
          <6> QED BY <6>1, <6>2
        <5> QED BY <5>1, <5>6, <5>7, <5>8
      <4> QED BY <4>6, <4>7, <4>8
    <3> QED BY <3>2, <3>3
  <2> HIDE DEF Kept
  <2> QED BY <2>1, <2>4
<1>5. 0..N \subseteq Good
  <2> HIDE DEF Good
  <2> QED BY <1>1, <1>3, <1>4, CountingUp
<1>6. Kept(N, pass[N]) /\ pass[N] \in PartOfAPass
  <2>1. N \in 0..N
      BY <1>1
  <2> QED BY <1>2, <1>5, <2>1
<1>7. /\ pass[N].done \in Seq(AnyBoxes) /\ pass[N].todo \in Seq(AnyBoxes)
      /\ Len(pass[N].done) \in Nat /\ Len(pass[N].todo) \in Nat
    BY <1>6, LenProperties DEF PartOfAPass
<1>8. Len(pass[N].todo) = 0
    BY <1>1, <1>6, <1>7
<1>9. \A k \in 1..N : InSome(boxes[k], pass[N].done)
  <2>1. \A a : ~InSome(a, pass[N].todo)
      BY <1>8 DEF InSome
  <2> QED BY <1>6, <2>1
<1>10. ASSUME Len(pass[N].done) = N PROVE pass[N].done = boxes /\ Apart(boxes)
  <2>1. /\ \A k \in 1..N : pass[N].done[k] = boxes[k]
        /\ \A m, k \in 1..N : m < k => ~Touch(boxes[m], boxes[k])
      BY <1>1, <1>6, <1>8, <1>10
  <2>2. pass[N].done = boxes
    <3>1. Len(pass[N].done) = Len(boxes)
          /\ \A k \in 1..Len(pass[N].done) : pass[N].done[k] = boxes[k]
        BY <1>10, <2>1
    <3> HIDE DEF N
    <3> QED BY <1>7, <3>1, SeqEqual
  <2>3. \A m, k \in 1..N : m # k => m < k \/ k < m
      BY <1>1
  <2>4. \A m, k \in 1..N : Touch(boxes[m], boxes[k]) <=> Touch(boxes[k], boxes[m])
      BY <1>1, BoxFacts
  <2> QED BY <2>1, <2>2, <2>3, <2>4 DEF Apart
<1> QED BY <1>1, <1>2, <1>6, <1>7, <1>8, <1>9, <1>10

Merges(boxes, passed) ==
    passed = [n \in 0..Len(boxes) |-> IF n = 0 THEN boxes ELSE Pass(passed[n - 1])]

LEMMA MergedIsDefined ==
    ASSUME NEW boxes \in Seq(AnyBoxes)
    PROVE  \E passed \in [0..Len(boxes) -> Seq(AnyBoxes)] :
             /\ Merged(boxes) = passed[Len(boxes)]
             /\ passed[0] = boxes
             /\ \A n \in 1..Len(boxes) : passed[n] = Pass(passed[n - 1])
<1> DEFINE N == Len(boxes)
           step == [p \in Seq(AnyBoxes) \X (1..N) |-> Pass(p[1])]
<1>1. N \in Nat /\ 0 <= N
    BY LenProperties
<1>2. \A d \in Seq(AnyBoxes) : \A n \in 1..N :
        step[<<d, n>>] = Pass(d) /\ step[<<d, n>>] \in Seq(AnyBoxes)
    BY PassKeeps
<1> HIDE DEF N, step
<1>3. PICK m \in [0..N -> Seq(AnyBoxes)] : FoldsUp(0, N, boxes, step, m)
  <2>1. \A d \in Seq(AnyBoxes) : \A n \in (0 + 1)..N : step[<<d, n>>] \in Seq(AnyBoxes)
    <3>1. 0 + 1 = 1
        OBVIOUS
    <3> QED BY <1>2, <3>1
  <2> QED BY <1>1, <2>1, CountedUp
<1>4. m[0] = boxes /\ \A n \in 1..N : m[n] = Pass(m[n - 1])
  <2>1. m[0] = boxes /\ \A n \in 1..N : m[n] = step[<<m[n - 1], n>>]
      BY <1>3 DEF FoldsUp
  <2>2. \A n \in 1..N : m[n - 1] \in Seq(AnyBoxes)
      BY <1>1, <1>3
  <2> QED BY <1>2, <2>1, <2>2
<1>5. Merges(boxes, m)
  <2>1. \A n \in 0..N : n = 0 \/ n \in 1..N
      BY <1>1
  <2>2. \A n \in 0..N : m[n] = IF n = 0 THEN boxes ELSE Pass(m[n - 1])
      BY <1>4, <2>1
  <2> QED BY <1>3, <2>2 DEF Merges, N
<1>6. Merged(boxes) = (CHOOSE passed : Merges(boxes, passed))[N]
    BY Zenon DEF Merged, Merges, N
<1> DEFINE g == CHOOSE passed : Merges(boxes, passed)
<1>7. Merges(boxes, g)
    BY <1>5
<1> HIDE DEF g
<1>8. ASSUME NEW n \in 1..N PROVE g[n] = Pass(g[n - 1])
  <2>1. n \in 0..N /\ n # 0
      BY <1>1
  <2>2. g[n] = IF n = 0 THEN boxes ELSE Pass(g[n - 1])
      BY <1>7, <2>1, Zenon DEF Merges, N
  <2> QED BY <2>1, <2>2
<1>9. g[N] = m[N]
  <2>1. N \in 0..N /\ 0 \in 0..N /\ 0 \in Nat
      BY <1>1
  <2> DEFINE Same == {n \in Nat : g[n] = m[n]}
  <2>2. 0 \in Same
      BY <1>4, <1>7, <2>1 DEF Merges, N
  <2>3. ASSUME NEW n \in 0..(N - 1), n \in Same PROVE n + 1 \in Same
    <3>1. n + 1 \in 1..N /\ (n + 1) - 1 = n /\ n + 1 \in Nat
        BY <1>1
    <3> QED BY <1>4, <1>8, <2>3, <3>1
  <2>4. 0..N \subseteq Same
    <3> HIDE DEF Same
    <3> QED BY <1>1, <2>1, <2>2, <2>3, CountingUp
  <2> QED BY <2>1, <2>4
<1>10. Merged(boxes) = m[N]
    BY <1>6, <1>9 DEF g
<1> QED BY <1>4, <1>10 DEF N

LEMMA InSomeAcross ==
    ASSUME NEW a \in AnyBoxes, NEW boxes \in Seq(AnyBoxes), NEW more \in Seq(AnyBoxes),
           InSome(a, boxes), \A k \in 1..Len(boxes) : InSome(boxes[k], more)
    PROVE  InSome(a, more)
<1>1. PICK k \in 1..Len(boxes) : In(a, boxes[k])
    BY DEF InSome
<1>2. PICK n \in 1..Len(more) : In(boxes[k], more[n])
    BY DEF InSome
<1>3. boxes[k] \in AnyBoxes /\ more[n] \in AnyBoxes
    BY ElementOfSeq
<1>4. In(a, more[n])
    BY <1>1, <1>2, <1>3, InAcross, Zenon
<1> QED BY <1>4 DEF InSome

(***************************************************************************)
(* However many boxes a page has and wherever they are: as many passes as  *)
(* boxes are enough for no two of what is left to touch, and every box is  *)
(* in one of them.                                                         *)
(***************************************************************************)
THEOREM MergedAreApart ==
    ASSUME NEW boxes \in Seq(AnyBoxes)
    PROVE  /\ Merged(boxes) \in Seq(AnyBoxes)
           /\ Apart(Merged(boxes))
           /\ \A k \in 1..Len(boxes) : InSome(boxes[k], Merged(boxes))
<1> DEFINE N == Len(boxes)
<1>1. N \in Nat /\ \A n \in 1..N : boxes[n] \in AnyBoxes
    BY LenProperties, ElementOfSeq
<1>2. PICK passed \in [0..N -> Seq(AnyBoxes)] :
             /\ Merged(boxes) = passed[N]
             /\ passed[0] = boxes
             /\ \A n \in 1..N : passed[n] = Pass(passed[n - 1])
    BY MergedIsDefined
<1> DEFINE Kept(n, so) ==
             /\ \A k \in 1..N : InSome(boxes[k], so)
             /\ Len(so) <= N - n \/ Pass(so) = so
           Good == {n \in Nat : n \in 0..N => Kept(n, passed[n])}
<1>3. 0 \in Good
  <2>1. \A k \in 1..N : InSome(boxes[k], boxes)
    <3>1. \A k \in 1..N : In(boxes[k], boxes[k])
        BY <1>1, BoxFacts
    <3> QED BY <3>1 DEF InSome
  <2> QED BY <1>1, <1>2, <2>1
<1>4. ASSUME NEW n \in 0..(N - 1), n \in Good PROVE n + 1 \in Good
  <2>1. n \in Nat /\ n \in 0..N /\ n + 1 \in 1..N /\ (n + 1) - 1 = n
      BY <1>1
  <2> DEFINE so == passed[n]
  <2>2. so \in Seq(AnyBoxes) /\ passed[n + 1] = Pass(so) /\ Kept(n, so)
      BY <1>2, <1>4, <2>1
  <2>3. Kept(n + 1, Pass(so))
    <3> HIDE DEF so, N
    <3>1. /\ Pass(so) \in Seq(AnyBoxes) /\ Len(Pass(so)) <= Len(so)
          /\ \A k \in 1..Len(so) : InSome(so[k], Pass(so))
          /\ Len(Pass(so)) = Len(so) => Pass(so) = so
        BY <2>2, PassKeeps
    <3>2. \A k \in 1..N : InSome(boxes[k], Pass(so))
        BY <1>1, <2>2, <3>1, InSomeAcross
    <3>3. Len(so) \in Nat /\ Len(Pass(so)) \in Nat
        BY <2>2, <3>1, LenProperties
    <3>4. CASE Len(Pass(so)) = Len(so)
        BY <3>1, <3>2, <3>4
    <3>5. CASE Len(Pass(so)) # Len(so)
      <4>1. Pass(so) # so
          BY <3>5
      <4>2. Len(so) <= N - n
          BY <2>2, <4>1
      <4>3. Len(Pass(so)) <= N - (n + 1)
          BY <1>1, <2>1, <3>1, <3>3, <3>5, <4>2
      <4> QED BY <3>2, <4>3
    <3> QED BY <3>4, <3>5
  <2> HIDE DEF Kept
  <2> QED BY <2>1, <2>2, <2>3
<1>5. 0..N \subseteq Good
  <2> HIDE DEF Good
  <2> QED BY <1>1, <1>3, <1>4, CountingUp
<1> DEFINE last == passed[N]
<1>6. last \in Seq(AnyBoxes) /\ Kept(N, last)
  <2>1. N \in 0..N
      BY <1>1
  <2> QED BY <1>2, <1>5, <2>1
<1>7. Apart(last)
  <2> HIDE DEF last, N
  <2>1. Len(last) \in Nat
      BY <1>6, LenProperties
  <2>2. CASE Len(last) <= N - N
    <3>1. Len(last) = 0
        BY <1>1, <2>1, <2>2
    <3> QED BY <3>1 DEF Apart
  <2>3. CASE Pass(last) = last
      BY <1>6, <2>3, PassKeeps
  <2> QED BY <1>6, <2>2, <2>3
<1> QED BY <1>2, <1>6, <1>7

-----------------------------------------------------------------------------
(***************************************************************************)
(* What is painted.                                                        *)
(***************************************************************************)

LEMMA FloorBelow ==
    ASSUME NEW m \in Int, NEW q \in Int, NEW c \in Nat \ {0}, m < (q + 1) * c
    PROVE  m \div c <= q
OBVIOUS

LEMMA CeilingAbove ==
    ASSUME NEW m \in Int, NEW q \in Int, NEW c \in Nat \ {0}, q * c < m
    PROVE  q <= (m + c - 1) \div c
OBVIOUS

LEMMA Times ==
    ASSUME NEW a \in Int, NEW b \in Int, NEW c \in Nat, a <= b
    PROVE  a * c \in Int /\ b * c \in Int /\ a * c <= b * c
OBVIOUS

LEMMA ImageSizes ==
    ASSUME NEW image \in Images
    PROVE  /\ image.width \in Nat \ {0} /\ image.height \in Nat \ {0}
           /\ TurnedWidth(image) \in Nat /\ TurnedHeight(image) \in Nat
<1>1. image.width \in Nat \ {0} /\ image.height \in Nat \ {0}
    BY ImageAssumption DEF Images
<1> QED BY <1>1 DEF TurnedWidth, TurnedHeight

LEMMA RasterPoints == \A image \in Images : \A p \in Raster(image) : p[1] \in Int /\ p[2] \in Int
<1> SUFFICES ASSUME NEW image \in Images, NEW p \in Raster(image)
             PROVE  p[1] \in Int /\ p[2] \in Int
    OBVIOUS
<1>1. TurnedWidth(image) \in Int /\ TurnedHeight(image) \in Int
    BY ImageSizes
<1> QED BY <1>1 DEF Raster

\* An image that is not turned is painted as it is stored.
LEMMA NotTurned ==
    ASSUME NEW image \in Images, image.orientation = AsStored
    PROVE  /\ TurnedWidth(image) = image.width /\ TurnedHeight(image) = image.height
           /\ \A p \in Raster(image) : StoredPixel(image, p)[1] = p[1] /\ StoredPixel(image, p)[2] = p[2]
BY DEF AsStored, TurnedWidth, TurnedHeight, StoredPixel

\* A box in parts of a pixel.
Scaled(box, image) ==
    [x0 |-> box.x0 * TurnedWidth(image), y0 |-> box.y0 * TurnedHeight(image),
     x1 |-> box.x1 * TurnedWidth(image), y1 |-> box.y1 * TurnedHeight(image)]

LEMMA PaddedCovers ==
    ASSUME NEW box \in Boxes, NEW padding \in Nat, NEW image \in Images
    PROVE  /\ Padded(box, padding, image) \in AnyBoxes /\ Scaled(box, image) \in AnyBoxes
           /\ In(Scaled(box, image), Padded(box, padding, image))
<1> DEFINE left == GreaterOf(0, box.x0 - padding)
           top == GreaterOf(0, box.y0 - padding)
           right == LesserOf(Width, box.x1 + padding)
           bottom == LesserOf(Height, box.y1 + padding)
           across == TurnedWidth(image)
           down == TurnedHeight(image)
<1>1. Width \in Nat /\ Height \in Nat /\ across \in Nat /\ down \in Nat
    BY ImageAssumption, ImageSizes
<1>2. /\ box.x0 \in 0..Width /\ box.x1 \in 0..Width
      /\ box.y0 \in 0..Height /\ box.y1 \in 0..Height
    BY DEF Boxes
<1>3. /\ left \in Int /\ top \in Int /\ right \in Int /\ bottom \in Int
      /\ left <= box.x0 /\ top <= box.y0 /\ box.x1 <= right /\ box.y1 <= bottom
    BY <1>1, <1>2 DEF GreaterOf, LesserOf
<1>4. box.x0 \in Int /\ box.x1 \in Int /\ box.y0 \in Int /\ box.y1 \in Int
    BY <1>1, <1>2
<1>5. /\ Padded(box, padding, image) = [x0 |-> left * across, y0 |-> top * down,
                                        x1 |-> right * across, y1 |-> bottom * down]
    BY DEF Padded
<1> HIDE DEF left, top, right, bottom
<1>6. left * across \in Int /\ box.x0 * across \in Int /\ left * across <= box.x0 * across
    BY <1>1, <1>3, <1>4, Times
<1>7. top * down \in Int /\ box.y0 * down \in Int /\ top * down <= box.y0 * down
    BY <1>1, <1>3, <1>4, Times
<1>8. right * across \in Int /\ box.x1 * across \in Int /\ box.x1 * across <= right * across
    BY <1>1, <1>3, <1>4, Times
<1>9. bottom * down \in Int /\ box.y1 * down \in Int /\ box.y1 * down <= bottom * down
    BY <1>1, <1>3, <1>4, Times
<1> QED BY <1>5, <1>6, <1>7, <1>8, <1>9 DEF Scaled, AnyBoxes, In

\* Every pixel that shows a part of a box is one of any box that has it in it.
LEMMA ShownIsPainted ==
    ASSUME NEW box \in Boxes, NEW over \in AnyBoxes,
           NEW image \in Images, image.orientation = AsStored, In(Scaled(box, image), over)
    PROVE  Shows(box, image) \subseteq Pixels(over, image)
<1> SUFFICES ASSUME NEW p \in Shows(box, image) PROVE p \in Pixels(over, image)
    OBVIOUS
<1> DEFINE across == image.width
           down == image.height
<1>1. /\ p \in Raster(image)
      /\ box.x0 * across < (p[1] + 1) * Width /\ p[1] * Width < box.x1 * across
      /\ box.y0 * down < (p[2] + 1) * Height /\ p[2] * Height < box.y1 * down
    BY NotTurned DEF Shows
<1>2. /\ p[1] \in Int /\ p[2] \in Int
      /\ Width \in Nat \ {0} /\ Height \in Nat \ {0} /\ Width \in Int /\ Height \in Int
    BY <1>1, RasterPoints, ImageAssumption
<1>3. over.x0 \in Int /\ over.y0 \in Int /\ over.x1 \in Int /\ over.y1 \in Int
    BY DEF AnyBoxes
<1>4. Scaled(box, image) = [x0 |-> box.x0 * across, y0 |-> box.y0 * down,
                            x1 |-> box.x1 * across, y1 |-> box.y1 * down]
    BY NotTurned DEF Scaled
<1>5. Scaled(box, image) \in AnyBoxes
    BY PaddedCovers
<1> HIDE DEF across, down
<1>6. /\ over.x0 <= box.x0 * across /\ box.x1 * across <= over.x1
      /\ over.y0 <= box.y0 * down /\ box.y1 * down <= over.y1
    BY <1>4 DEF In
<1>7. /\ box.x0 * across \in Int /\ box.x1 * across \in Int
      /\ box.y0 * down \in Int /\ box.y1 * down \in Int
    BY <1>4, <1>5 DEF AnyBoxes
<1>8. /\ (p[1] + 1) * Width \in Int /\ p[1] * Width \in Int
      /\ (p[2] + 1) * Height \in Int /\ p[2] * Height \in Int
    BY <1>2
<1>9. /\ over.x0 < (p[1] + 1) * Width /\ p[1] * Width < over.x1
      /\ over.y0 < (p[2] + 1) * Height /\ p[2] * Height < over.y1
    BY <1>1, <1>3, <1>6, <1>7, <1>8
<1>10. over.x0 \div Width <= p[1] /\ over.y0 \div Height <= p[2]
    BY <1>2, <1>3, <1>9, FloorBelow
<1>11. p[1] <= (over.x1 + Width - 1) \div Width /\ p[2] <= (over.y1 + Height - 1) \div Height
    BY <1>2, <1>3, <1>9, CeilingAbove
<1> QED BY <1>1, <1>10, <1>11 DEF Pixels

\* An image that is approved, and was not turned, shows nothing of the findings'
\* boxes; no two rectangles painted on any image touch.
LEMMA DerivativeIsSafe ==
    ASSUME NEW n \in Nat, NEW boxes \in [1..n -> Boxes], NEW padding \in Nat,
           NEW image \in Images, NEW obstacle \in Obstacles
    PROVE  LET made == Derivative(boxes, padding, image, obstacle) IN
           /\ made.status = "APPROVED" /\ made.image.orientation = AsStored =>
                \A k \in DOMAIN made.boxes : Shows(made.boxes[k], made.image) \subseteq made.black
           /\ \A k, m \in DOMAIN made.merged :
                k # m => ~Touch(made.merged[k], made.merged[m])
<1> DEFINE made == Derivative(boxes, padding, image, obstacle)
           padded == [k \in DOMAIN boxes |-> Padded(boxes[k], padding, image)]
           merged == Merged(padded)
           black == UNION {Pixels(merged[k], image) : k \in DOMAIN merged}
<1>1. DOMAIN boxes = 1..n /\ \A k \in 1..n : boxes[k] \in Boxes
    OBVIOUS
<1>2. padded \in [1..n -> AnyBoxes]
    BY <1>1, PaddedCovers
<1>3. padded \in Seq(AnyBoxes) /\ Len(padded) = n
  <2> HIDE DEF padded
  <2> QED BY <1>2
<1>4. \A k \in 1..n : padded[k] = Padded(boxes[k], padding, image)
    BY <1>1
<1>5. /\ merged \in Seq(AnyBoxes) /\ Apart(merged)
      /\ \A k \in 1..n : InSome(padded[k], merged)
  <2> HIDE DEF padded
  <2> QED BY <1>3, MergedAreApart
<1>6. \/ made = [status |-> "APPROVED", boxes |-> boxes, image |-> image,
                merged |-> merged, black |-> black]
      \/ \E status : made = NoImage(status) /\ status # "APPROVED"
  <2>1. CASE obstacle = "NOT_APPLICABLE"
      BY <2>1 DEF Derivative
  <2>2. CASE obstacle # "NOT_APPLICABLE" /\ \E k \in DOMAIN boxes : ~Located(boxes[k])
      BY <2>2 DEF Derivative
  <2>3. CASE /\ obstacle # "NOT_APPLICABLE" /\ ~\E k \in DOMAIN boxes : ~Located(boxes[k])
             /\ obstacle # "none"
    <3>1. made = NoImage(obstacle)
        BY <2>3 DEF Derivative
    <3>2. obstacle # "APPROVED"
        BY DEF Obstacles
    <3> QED BY <3>1, <3>2
  <2>4. CASE /\ obstacle # "NOT_APPLICABLE" /\ ~\E k \in DOMAIN boxes : ~Located(boxes[k])
             /\ obstacle = "none"
      BY <2>4 DEF Derivative
  <2> QED BY <2>1, <2>2, <2>3, <2>4
<1> HIDE DEF padded, merged, made
<1>7. DOMAIN merged = 1..Len(merged)
    BY <1>5, LenProperties
<1>8. CASE made = [status |-> "APPROVED", boxes |-> boxes, image |-> image,
                merged |-> merged, black |-> black]
  <2>1. ASSUME image.orientation = AsStored, NEW k \in 1..n
        PROVE  Shows(boxes[k], image) \subseteq black
    <3>1. PICK m \in 1..Len(merged) : In(padded[k], merged[m])
        BY <1>5 DEF InSome
    <3>2. boxes[k] \in Boxes /\ merged[m] \in AnyBoxes /\ padded[k] = Padded(boxes[k], padding, image)
        BY <1>1, <1>4, <1>5, ElementOfSeq
    <3>3. In(Scaled(boxes[k], image), merged[m])
      <4>1. /\ Scaled(boxes[k], image) \in AnyBoxes /\ padded[k] \in AnyBoxes
            /\ In(Scaled(boxes[k], image), padded[k])
          BY <3>2, PaddedCovers
      <4> QED BY <3>1, <3>2, <4>1, InAcross, Zenon
    <3>4. Shows(boxes[k], image) \subseteq Pixels(merged[m], image)
        BY <2>1, <3>2, <3>3, ShownIsPainted
    <3> QED BY <1>7, <3>4
  <2>2. made.boxes = boxes /\ made.image = image /\ made.merged = merged /\ made.black = black
      BY <1>8
  <2> HIDE DEF black
  <2>3. \A k, m \in DOMAIN merged : k # m => ~Touch(merged[k], merged[m])
      BY <1>5, <1>7 DEF Apart
  <2> QED BY <1>1, <2>1, <2>2, <2>3 DEF made
<1>9. CASE \E status : made = NoImage(status) /\ status # "APPROVED"
    <2>1. made.status # "APPROVED" /\ made.merged = <<>>
        BY <1>9 DEF NoImage
    <2>2. DOMAIN made.merged = {}
        BY <2>1
    <2> QED BY <2>1, <2>2 DEF made
<1> QED BY <1>6, <1>8, <1>9

(***************************************************************************)
(* For every page and raster, and any number of findings: every pixel that *)
(* shows a part of a finding's box is painted over in an image that is     *)
(* approved and was not turned, and no two of the rectangles painted touch *)
(* on any image, turned or not.                                            *)
(***************************************************************************)
THEOREM ImagesStaySafe == Spec => []ImageIsSafe
<1>1. Init => ImageIsSafe
  <2> SUFFICES ASSUME Init PROVE ImageIsSafe
      OBVIOUS
  <2>1. derivative.status = "NOT_APPLICABLE" /\ derivative.merged = <<>>
      BY DEF Init, NoImage
  <2>2. DOMAIN derivative.merged = {}
      BY <2>1
  <2> QED BY <2>1, <2>2 DEF ImageIsSafe
<1>2. ImageIsSafe /\ [Next]_vars => ImageIsSafe'
  <2> SUFFICES ASSUME ImageIsSafe, [Next]_vars PROVE ImageIsSafe'
      OBVIOUS
  <2>1. CASE ApproveImage
    <3>1. PICK n \in 0..MaxBoxes :
            \E boxes \in [1..n -> IF n > 1 THEN LocatedBoxes ELSE Boxes] :
              \E padding \in 0..1, image \in Images, obstacle \in Obstacles :
                derivative' = Derivative(boxes, padding, image, obstacle)
        BY <2>1, Zenon DEF ApproveImage
    <3>2. PICK boxes \in [1..n -> IF n > 1 THEN LocatedBoxes ELSE Boxes],
               padding \in 0..1, image \in Images, obstacle \in Obstacles :
            derivative' = Derivative(boxes, padding, image, obstacle)
        BY <3>1
    <3>3. n \in Nat /\ padding \in Nat
        BY SizesAssumption
    <3>4. boxes \in [1..n -> Boxes]
        BY DEF LocatedBoxes
    <3> DEFINE made == Derivative(boxes, padding, image, obstacle)
    <3>5. /\ made.status = "APPROVED" /\ made.image.orientation = AsStored =>
                \A k \in DOMAIN made.boxes : Shows(made.boxes[k], made.image) \subseteq made.black
          /\ \A k, m \in DOMAIN made.merged :
                k # m => ~Touch(made.merged[k], made.merged[m])
        BY <3>3, <3>4, DerivativeIsSafe
    <3> HIDE DEF made
    <3>6. derivative' = made
        BY <3>2 DEF made
    <3> QED BY <3>5, <3>6 DEF ImageIsSafe, FindingsAreBlack
  <2>2. CASE UNCHANGED derivative
      BY <2>2 DEF ImageIsSafe, FindingsAreBlack
  <2>3. ApproveImage \/ UNCHANGED derivative
      BY DEF Next, vars, Detect, ApproveText, ChunkPage, NextWindow, NoMoreWindows
  <2> QED BY <2>1, <2>2, <2>3
<1> QED BY <1>1, <1>2, PTL DEF Spec

-----------------------------------------------------------------------------
(***************************************************************************)
(* The checksum: the digits are a group under the table D, and position i  *)
(* of a number permutes them by a row of the table P.                      *)
(***************************************************************************)

Product(c, d) == DTable[c + 1][d + 1]
Permuted(i, d) == PTable[(i % 8) + 1][d + 1]

LEMMA FoldedIsProduct == \A c, i, d : Folded(c, i, d) = Product(c, Permuted(i, d))
BY DEF Folded, Product, Permuted

LEMMA ProductIsDigit == \A c, d \in Digits : Product(c, d) \in Digits
BY DEF Product, DTable, Digits

LEMMA ProductCancels ==
    \A c, d, e \in Digits : d # e => Product(c, d) # Product(c, e) /\ Product(d, c) # Product(e, c)
BY DEF Product, DTable, Digits

LEMMA ProductAssociates ==
    \A c, d, e \in Digits : Product(Product(c, d), e) = Product(c, Product(d, e))
BY DEF Product, DTable, Digits

LEMMA ProductOfInverse ==
    \A c \in Digits : InvTable[c + 1] \in Digits /\ Product(InvTable[c + 1], c) = 0
BY DEF Product, DTable, InvTable, Digits

LEMMA FirstsAreNeutral == \A d \in Digits : Product(0, d) = d /\ Permuted(0, d) = d
<1>1. 0 % 8 = 0
    OBVIOUS
<1> QED BY <1>1 DEF Product, Permuted, DTable, PTable, Digits

LEMMA RowsPermute ==
    \A i \in 0..7 : \A d, e \in Digits :
      PTable[i + 1][d + 1] \in Digits /\ (d # e => PTable[i + 1][d + 1] # PTable[i + 1][e + 1])
BY DEF PTable, Digits

LEMMA Remainders ==
    ASSUME NEW i \in Nat
    PROVE  i % 8 \in 0..7 /\ (i + 1) % 8 = IF i % 8 = 7 THEN 0 ELSE (i % 8) + 1
OBVIOUS

LEMMA PermutedFacts ==
    ASSUME NEW i \in Nat, NEW d \in Digits, NEW e \in Digits
    PROVE  Permuted(i, d) \in Digits /\ (d # e => Permuted(i, d) # Permuted(i, e))
<1>1. i % 8 \in 0..7
    BY Remainders
<1> QED BY <1>1, RowsPermute DEF Permuted

LEMMA NeighboursDiffer ==
    \A i \in 0..7 : \A d, e \in Digits : d # e =>
      LET next == IF i = 7 THEN 0 ELSE i + 1 IN
      Product(PTable[i + 1][d + 1], PTable[next + 1][e + 1])
        # Product(PTable[i + 1][e + 1], PTable[next + 1][d + 1])
BY SMTT(60) DEF Product, DTable, PTable, Digits

LEMMA FoldedFacts ==
    ASSUME NEW i \in Nat, NEW c \in Digits, NEW d \in Digits, NEW e \in Digits
    PROVE  /\ Folded(c, i, d) \in Digits
           /\ d # e => /\ Folded(c, i, d) # Folded(c, i, e)
                       /\ Folded(d, i, c) # Folded(e, i, c)
                       /\ Folded(Folded(c, i, d), i + 1, e) # Folded(Folded(c, i, e), i + 1, d)
<1> DEFINE pd == Permuted(i, d)
           pe == Permuted(i, e)
           qd == Permuted(i + 1, d)
           qe == Permuted(i + 1, e)
           pc == Permuted(i, c)
<1>1. /\ pc \in Digits /\ pd \in Digits /\ pe \in Digits /\ qd \in Digits /\ qe \in Digits
      /\ d # e => pd # pe
  <2>1. i + 1 \in Nat
      OBVIOUS
  <2> QED BY <2>1, PermutedFacts
<1>2. /\ Folded(c, i, d) = Product(c, pd) /\ Folded(c, i, e) = Product(c, pe)
      /\ Folded(d, i, c) = Product(d, pc) /\ Folded(e, i, c) = Product(e, pc)
      /\ Folded(Folded(c, i, d), i + 1, e) = Product(Product(c, pd), qe)
      /\ Folded(Folded(c, i, e), i + 1, d) = Product(Product(c, pe), qd)
    BY FoldedIsProduct, Zenon
<1>3. ASSUME d # e PROVE Product(pd, qe) # Product(pe, qd)
  <2>1. i % 8 \in 0..7 /\ (i + 1) % 8 = IF i % 8 = 7 THEN 0 ELSE (i % 8) + 1
      BY Remainders
  <2> QED BY <1>3, <2>1, NeighboursDiffer DEF Permuted
<1> HIDE DEF pd, pe, qd, qe, pc
<1>4. Folded(c, i, d) \in Digits
    BY <1>1, <1>2, ProductIsDigit
<1>5. ASSUME d # e PROVE /\ Folded(c, i, d) # Folded(c, i, e)
                         /\ Folded(d, i, c) # Folded(e, i, c)
    BY <1>1, <1>2, <1>5, ProductCancels
<1>6. ASSUME d # e PROVE Folded(Folded(c, i, d), i + 1, e) # Folded(Folded(c, i, e), i + 1, d)
  <2>1. /\ Product(Product(c, pd), qe) = Product(c, Product(pd, qe))
        /\ Product(Product(c, pe), qd) = Product(c, Product(pe, qd))
      BY <1>1, ProductAssociates
  <2>2. Product(pd, qe) \in Digits /\ Product(pe, qd) \in Digits
      BY <1>1, ProductIsDigit
  <2>3. Product(c, Product(pd, qe)) # Product(c, Product(pe, qd))
      BY <1>3, <1>6, <2>2, ProductCancels
  <2> QED BY <1>2, <2>1, <2>3
<1> QED BY <1>4, <1>5, <1>6

\* The checksum of the digits up to each.
ChecksumsOf(digits, first, after) ==
    /\ after \in [0..Len(digits) -> Digits]
    /\ after[0] = 0
    /\ \A n \in 1..Len(digits) : after[n] = Folded(after[n - 1], first + n - 1, digits[n])

Checks(digits, first, after) ==
    after = [n \in 0..Len(digits) |->
               IF n = 0 THEN 0 ELSE Folded(after[n - 1], first + n - 1, digits[n])]

LEMMA ChecksumIsDefined ==
    ASSUME NEW digits \in Seq(Digits), NEW first \in Nat
    PROVE  \E after : /\ ChecksumsOf(digits, first, after)
                      /\ Checksum(digits, first) = after[Len(digits)]
<1> DEFINE N == Len(digits)
           step == [p \in Digits \X (1..N) |-> Folded(p[1], first + p[2] - 1, digits[p[2]])]
<1>1. N \in Nat /\ 0 <= N /\ 0 \in Digits /\ \A n \in 1..N : digits[n] \in Digits
    BY LenProperties, ElementOfSeq DEF Digits
<1>2. ASSUME NEW d \in Digits, NEW n \in 1..N
      PROVE  /\ step[<<d, n>>] = Folded(d, first + n - 1, digits[n])
             /\ step[<<d, n>>] \in Digits
  <2>1. first + n - 1 \in Nat /\ digits[n] \in Digits
      BY <1>1
  <2>2. step[<<d, n>>] = Folded(d, first + n - 1, digits[n])
      OBVIOUS
  <2> HIDE DEF step
  <2> QED BY <2>1, <2>2, FoldedFacts
<1> HIDE DEF N, step
<1>3. PICK m \in [0..N -> Digits] : FoldsUp(0, N, 0, step, m)
  <2>1. \A d \in Digits : \A n \in (0 + 1)..N : step[<<d, n>>] \in Digits
    <3>1. 0 + 1 = 1
        OBVIOUS
    <3> QED BY <1>2, <3>1
  <2> QED BY <1>1, <2>1, CountedUp
<1>4. m[0] = 0 /\ \A n \in 1..N : m[n] = Folded(m[n - 1], first + n - 1, digits[n])
  <2>1. m[0] = 0 /\ \A n \in 1..N : m[n] = step[<<m[n - 1], n>>]
      BY <1>3 DEF FoldsUp
  <2>2. \A n \in 1..N : m[n - 1] \in Digits
      BY <1>1, <1>3
  <2> QED BY <1>2, <2>1, <2>2
<1>5. Checks(digits, first, m)
  <2>1. \A n \in 0..N : n = 0 \/ n \in 1..N
      BY <1>1
  <2>2. \A n \in 0..N : m[n] = IF n = 0 THEN 0 ELSE Folded(m[n - 1], first + n - 1, digits[n])
      BY <1>4, <2>1
  <2> QED BY <1>3, <2>2 DEF Checks, N
<1>6. Checksum(digits, first) = (CHOOSE after : Checks(digits, first, after))[N]
    BY Zenon DEF Checksum, Checks, N
<1> DEFINE g == CHOOSE after : Checks(digits, first, after)
<1>7. Checks(digits, first, g)
    BY <1>5
<1> HIDE DEF g
<1>8. g[0] = 0
  <2>1. 0 \in 0..N
      BY <1>1
  <2> QED BY <1>7, <2>1 DEF Checks, N
<1>9. ASSUME NEW n \in 1..N PROVE g[n] = Folded(g[n - 1], first + n - 1, digits[n])
  <2>1. n \in 0..N /\ n # 0
      BY <1>1
  <2>2. g[n] = IF n = 0 THEN 0 ELSE Folded(g[n - 1], first + n - 1, digits[n])
      BY <1>7, <2>1, Zenon DEF Checks, N
  <2> QED BY <2>1, <2>2
<1>10. g[N] = m[N]
  <2>1. N \in 0..N /\ 0 \in Nat
      BY <1>1
  <2> DEFINE Same == {n \in Nat : g[n] = m[n]}
  <2>2. 0 \in Same
      BY <1>4, <1>8
  <2>3. ASSUME NEW n \in 0..(N - 1), n \in Same PROVE n + 1 \in Same
    <3>1. n + 1 \in 1..N /\ (n + 1) - 1 = n /\ n + 1 \in Nat
        BY <1>1
    <3>2. /\ g[n + 1] = Folded(g[n], first + (n + 1) - 1, digits[n + 1])
          /\ m[n + 1] = Folded(m[n], first + (n + 1) - 1, digits[n + 1])
        BY <1>4, <1>9, <3>1
    <3> QED BY <2>3, <3>1, <3>2
  <2>4. 0..N \subseteq Same
    <3> HIDE DEF Same
    <3> QED BY <1>1, <2>1, <2>2, <2>3, CountingUp
  <2> QED BY <2>1, <2>4
<1>11. Checksum(digits, first) = m[N] /\ ChecksumsOf(digits, first, m)
    BY <1>3, <1>4, <1>6, <1>10 DEF g, ChecksumsOf, N
<1> QED BY <1>11 DEF N

\* What comes before a difference has the same checksum.
LEMMA ChecksumsAgree ==
    ASSUME NEW digits \in Seq(Digits), NEW other \in Seq(Digits), NEW first \in Nat,
           NEW a, ChecksumsOf(digits, first, a), NEW b, ChecksumsOf(other, first, b),
           Len(other) = Len(digits), NEW k \in 0..Len(digits),
           \A n \in 1..k : digits[n] = other[n]
    PROVE  a[k] = b[k]
<1> DEFINE N == Len(digits)
           Same == {n \in Nat : a[n] = b[n]}
<1>1. N \in Nat /\ k \in Nat /\ k <= N /\ k \in 0..k
    BY LenProperties
<1>2. 0 \in Same
    BY DEF ChecksumsOf
<1>3. ASSUME NEW n \in 0..(k - 1), n \in Same PROVE n + 1 \in Same
  <2>1. n + 1 \in 1..N /\ n + 1 \in 1..k /\ (n + 1) - 1 = n /\ n + 1 \in Nat
      BY <1>1
  <2>2. /\ a[n + 1] = Folded(a[n], first + (n + 1) - 1, digits[n + 1])
        /\ b[n + 1] = Folded(b[n], first + (n + 1) - 1, other[n + 1])
      BY <2>1 DEF ChecksumsOf
  <2>3. a[n] = b[n] /\ digits[n + 1] = other[n + 1]
      BY <1>3, <2>1
  <2> QED BY <2>1, <2>2, <2>3
<1>4. 0..k \subseteq Same
  <2> HIDE DEF Same
  <2>1. 0 \in Nat
      OBVIOUS
  <2> QED BY <1>1, <1>2, <1>3, <2>1, CountingUp
<1> QED BY <1>1, <1>4

\* And what comes after it keeps it.
LEMMA DifferenceStays ==
    ASSUME NEW digits \in Seq(Digits), NEW other \in Seq(Digits), NEW first \in Nat,
           NEW a, ChecksumsOf(digits, first, a), NEW b, ChecksumsOf(other, first, b),
           Len(other) = Len(digits), NEW k \in 0..Len(digits), a[k] # b[k],
           \A n \in (k + 1)..Len(digits) : digits[n] = other[n]
    PROVE  a[Len(digits)] # b[Len(digits)]
<1> DEFINE N == Len(digits)
           Differs == {n \in Nat : a[n] # b[n]}
<1>1. N \in Nat /\ k \in Nat /\ k <= N /\ N \in k..N
    BY LenProperties
<1>2. k \in Differs
    BY <1>1
<1>3. ASSUME NEW n \in k..(N - 1), n \in Differs PROVE n + 1 \in Differs
  <2>1. /\ n \in 0..N /\ n + 1 \in 1..N /\ n + 1 \in (k + 1)..N /\ (n + 1) - 1 = n
        /\ n + 1 \in Nat /\ first + (n + 1) - 1 \in Nat
      BY <1>1
  <2>2. /\ a[n + 1] = Folded(a[n], first + (n + 1) - 1, digits[n + 1])
        /\ b[n + 1] = Folded(b[n], first + (n + 1) - 1, other[n + 1])
      BY <2>1 DEF ChecksumsOf
  <2>3. a[n] \in Digits /\ b[n] \in Digits /\ a[n] # b[n]
      BY <1>3, <2>1 DEF ChecksumsOf
  <2>4. digits[n + 1] = other[n + 1] /\ digits[n + 1] \in Digits
    <3>1. digits[n + 1] \in Digits
        BY <2>1, ElementOfSeq
    <3> QED BY <2>1, <3>1
  <2>5. a[n + 1] # b[n + 1]
      BY <2>1, <2>2, <2>3, <2>4, FoldedFacts
  <2> QED BY <2>1, <2>5
<1>4. k..N \subseteq Differs
  <2> HIDE DEF Differs
  <2> QED BY <1>1, <1>2, <1>3, CountingUp
<1> QED BY <1>1, <1>4

(***************************************************************************)
(* In a number of any length one wrong digit changes the checksum.         *)
(***************************************************************************)
THEOREM OneWrongDigitShows ==
    ASSUME NEW digits \in Seq(Digits), NEW other \in Seq(Digits), NEW first \in Nat,
           Len(other) = Len(digits), NEW k \in 1..Len(digits), digits[k] # other[k],
           \A n \in 1..Len(digits) : n # k => digits[n] = other[n]
    PROVE  Checksum(digits, first) # Checksum(other, first)
<1> DEFINE N == Len(digits)
<1>1. /\ N \in Nat /\ k - 1 \in 0..N /\ k \in 0..N /\ first + k - 1 \in Nat
      /\ \A n \in 1..(k - 1) : n \in 1..N /\ n # k
      /\ \A n \in (k + 1)..N : n \in 1..N /\ n # k
    BY LenProperties
<1>2. PICK a : ChecksumsOf(digits, first, a) /\ Checksum(digits, first) = a[N]
    BY ChecksumIsDefined
<1>3. PICK b : ChecksumsOf(other, first, b) /\ Checksum(other, first) = b[N]
    BY ChecksumIsDefined
<1>4. a[k - 1] = b[k - 1]
    BY <1>1, <1>2, <1>3, ChecksumsAgree
<1>5. a[k] # b[k]
  <2>1. a[k - 1] \in Digits
      BY <1>1, <1>2 DEF ChecksumsOf
  <2>2. digits[k] \in Digits /\ other[k] \in Digits
      BY ElementOfSeq
  <2>3. /\ a[k] = Folded(a[k - 1], first + k - 1, digits[k])
        /\ b[k] = Folded(b[k - 1], first + k - 1, other[k])
      BY <1>2, <1>3 DEF ChecksumsOf
  <2> QED BY <1>1, <1>4, <2>1, <2>2, <2>3, FoldedFacts
<1>6. a[N] # b[N]
    BY <1>1, <1>2, <1>3, <1>5, DifferenceStays
<1> QED BY <1>2, <1>3, <1>6

(***************************************************************************)
(* So do two neighbours that have changed places.                          *)
(***************************************************************************)
THEOREM SwappedNeighboursShow ==
    ASSUME NEW digits \in Seq(Digits), NEW other \in Seq(Digits), NEW first \in Nat,
           Len(other) = Len(digits), NEW k \in 1..(Len(digits) - 1),
           digits[k] # digits[k + 1], other[k] = digits[k + 1], other[k + 1] = digits[k],
           \A n \in 1..Len(digits) : n # k /\ n # k + 1 => digits[n] = other[n]
    PROVE  Checksum(digits, first) # Checksum(other, first)
<1> DEFINE N == Len(digits)
<1>1. /\ N \in Nat /\ k - 1 \in 0..N /\ k \in 1..N /\ k + 1 \in 1..N /\ k + 1 \in 0..N
      /\ first + k - 1 \in Nat /\ first + (k + 1) - 1 = (first + k - 1) + 1 /\ (k + 1) - 1 = k
      /\ \A n \in 1..(k - 1) : n \in 1..N /\ n # k /\ n # k + 1
      /\ \A n \in ((k + 1) + 1)..N : n \in 1..N /\ n # k /\ n # k + 1
    BY LenProperties
<1>2. PICK a : ChecksumsOf(digits, first, a) /\ Checksum(digits, first) = a[N]
    BY ChecksumIsDefined
<1>3. PICK b : ChecksumsOf(other, first, b) /\ Checksum(other, first) = b[N]
    BY ChecksumIsDefined
<1>4. a[k - 1] = b[k - 1]
    BY <1>1, <1>2, <1>3, ChecksumsAgree
<1>5. a[k + 1] # b[k + 1]
  <2> DEFINE i == first + k - 1
  <2>1. a[k - 1] \in Digits
      BY <1>1, <1>2 DEF ChecksumsOf
  <2>2. digits[k] \in Digits /\ digits[k + 1] \in Digits
      BY <1>1, ElementOfSeq
  <2>3. /\ a[k] = Folded(a[k - 1], i, digits[k])
        /\ b[k] = Folded(b[k - 1], i, other[k])
      BY <1>1, <1>2, <1>3 DEF ChecksumsOf
  <2>4. /\ a[k + 1] = Folded(a[k], i + 1, digits[k + 1])
        /\ b[k + 1] = Folded(b[k], i + 1, other[k + 1])
    <3>1. /\ a[k + 1] = Folded(a[(k + 1) - 1], first + (k + 1) - 1, digits[k + 1])
          /\ b[k + 1] = Folded(b[(k + 1) - 1], first + (k + 1) - 1, other[k + 1])
        BY <1>1, <1>2, <1>3 DEF ChecksumsOf
    <3> QED BY <1>1, <3>1
  <2>5. i \in Nat
      BY <1>1
  <2> HIDE DEF i
  <2> QED BY <1>4, <2>1, <2>2, <2>3, <2>4, <2>5, FoldedFacts
<1>6. a[N] # b[N]
    BY <1>1, <1>2, <1>3, <1>5, DifferenceStays
<1> QED BY <1>2, <1>3, <1>6

(***************************************************************************)
(* The digit computed for a number of any length makes it valid.           *)
(***************************************************************************)
THEOREM CheckDigitIsRight ==
    ASSUME NEW digits \in Seq(Digits), digits # <<>>
    PROVE  CheckDigit(digits) \in Digits /\ ValidateVerhoeff(<<CheckDigit(digits)>> \o digits)
<1> DEFINE N == Len(digits)
           c == Checksum(digits, 1)
           x == CheckDigit(digits)
           number == <<x>> \o digits
<1>1. N \in Nat /\ N >= 1 /\ \A n \in 1..N : digits[n] \in Digits
    BY LenProperties, ElementOfSeq, EmptySeq
<1>2. PICK a : ChecksumsOf(digits, 1, a) /\ c = a[N]
    BY ChecksumIsDefined
<1>3. \A n \in 0..N : a[n] \in Digits
    BY <1>2 DEF ChecksumsOf
<1>4. c \in Digits
  <2>1. N \in 0..N
      BY <1>1
  <2> QED BY <1>2, <1>3, <2>1
<1>5. x = InvTable[c + 1]
    BY DEF CheckDigit
<1> HIDE DEF c
<1>6. x \in Digits /\ Product(x, c) = 0
    BY <1>4, <1>5, ProductOfInverse
<1> HIDE DEF x
<1>7. /\ number \in Seq(Digits) /\ Len(number) = N + 1
      /\ number[1] = x /\ \A n \in 1..N : number[n + 1] = digits[n]
    BY <1>1, <1>6
<1> HIDE DEF number
<1>8. PICK b : ChecksumsOf(number, 0, b) /\ Checksum(number, 0) = b[Len(number)]
  <2>1. 0 \in Nat
      OBVIOUS
  <2> QED BY <1>7, <2>1, ChecksumIsDefined
<1> DEFINE Same == {n \in Nat : b[n + 1] = Product(x, a[n])}
<1>9. 0 \in Same
  <2>1. b[1] = Folded(b[0], 0 + 1 - 1, number[1]) /\ b[0] = 0
    <3>1. 1 \in 1..Len(number) /\ 1 - 1 = 0
        BY <1>1, <1>7
    <3> QED BY <1>8, <3>1 DEF ChecksumsOf
  <2>2. b[1] = x
    <3>1. b[1] = Product(0, Permuted(0, x))
        BY <1>7, <2>1, FoldedIsProduct
    <3> QED BY <1>6, <3>1, FirstsAreNeutral
  <2>3. a[0] = 0 /\ Product(x, 0) = x
    <3>1. \A d \in Digits : Product(d, 0) = d
        BY DEF Product, DTable, Digits
    <3> QED BY <1>2, <1>6, <3>1 DEF ChecksumsOf
  <2> QED BY <2>2, <2>3
<1>10. ASSUME NEW n \in 0..(N - 1), n \in Same PROVE n + 1 \in Same
  <2>1. /\ n \in 0..N /\ n + 1 \in 1..N /\ (n + 1) - 1 = n /\ n + 1 \in Nat
        /\ (n + 1) + 1 \in 1..Len(number) /\ ((n + 1) + 1) - 1 = n + 1
        /\ 0 + ((n + 1) + 1) - 1 = n + 1 /\ 1 + (n + 1) - 1 = n + 1
      BY <1>1, <1>7
  <2> DEFINE p == Permuted(n + 1, digits[n + 1])
  <2>2. a[n + 1] = Product(a[n], p)
    <3>1. a[n + 1] = Folded(a[(n + 1) - 1], 1 + (n + 1) - 1, digits[n + 1])
        BY <1>2, <2>1 DEF ChecksumsOf
    <3> QED BY <2>1, <3>1, FoldedIsProduct
  <2>3. b[(n + 1) + 1] = Product(b[n + 1], p)
    <3>1. b[(n + 1) + 1] = Folded(b[((n + 1) + 1) - 1], 0 + ((n + 1) + 1) - 1, number[(n + 1) + 1])
        BY <1>8, <2>1 DEF ChecksumsOf
    <3>2. number[(n + 1) + 1] = digits[n + 1]
        BY <1>7, <2>1
    <3> QED BY <2>1, <3>1, <3>2, FoldedIsProduct
  <2>4. a[n] \in Digits /\ p \in Digits
      BY <1>1, <1>3, <2>1, PermutedFacts
  <2>5. b[n + 1] = Product(x, a[n])
      BY <1>10
  <2> HIDE DEF p
  <2>6. b[(n + 1) + 1] = Product(x, a[n + 1])
      BY <1>6, <2>2, <2>3, <2>4, <2>5, ProductAssociates
  <2> QED BY <2>1, <2>6
<1>11. N \in Same
  <2>1. N \in 0..N /\ 0 \in Nat
      BY <1>1
  <2> HIDE DEF Same
  <2>2. 0..N \subseteq Same
      BY <1>1, <1>9, <1>10, <2>1, CountingUp
  <2> QED BY <2>1, <2>2
<1>12. Checksum(number, 0) = 0
    BY <1>2, <1>6, <1>7, <1>8, <1>11
<1> QED BY <1>1, <1>6, <1>7, <1>12 DEF ValidateVerhoeff, x, number

(***************************************************************************)
(* What the runs check of one position and of numbers of two digits.       *)
(***************************************************************************)
THEOREM ChecksumsAlwaysDetect == Spec => []VerhoeffDetects
<1>1. ASSUME NEW i \in 0..7, NEW c \in Digits, NEW d \in Digits, NEW e \in Digits, d # e
      PROVE  /\ Folded(c, i, d) # Folded(c, i, e)
             /\ Folded(d, i, c) # Folded(e, i, c)
             /\ Folded(Folded(c, i, d), i + 1, e) # Folded(Folded(c, i, e), i + 1, d)
    BY <1>1, FoldedFacts
<1>2. ASSUME NEW digits \in [1..2 -> Digits]
      PROVE  ValidateVerhoeff(<<CheckDigit(digits)>> \o digits)
  <2>1. digits \in Seq(Digits) /\ Len(digits) = 2
    <3>1. 2 \in Nat /\ DOMAIN digits = 1..2
        OBVIOUS
    <3>2. digits \in Seq(Digits)
        BY <3>1, SeqDef, Zenon
    <3>3. Len(digits) \in Nat /\ 1..Len(digits) = 1..2
        BY <3>1, <3>2, LenProperties
    <3> QED BY <3>2, <3>3
  <2>2. digits # <<>>
      BY <2>1, EmptySeq
  <2> QED BY <2>1, <2>2, CheckDigitIsRight
<1>3. VerhoeffDetects
    BY <1>1, <1>2 DEF VerhoeffDetects, ChecksumDetects
<1> QED BY <1>3, PTL

-----------------------------------------------------------------------------
(***************************************************************************)
(* The shape of what is on record of a page.                               *)
(***************************************************************************)

ImageStatuses == (Obstacles \ {"none"}) \union {"APPROVED", "BLOCKED_UNLOCATED_PII"}

ShapeInv ==
    /\ matches \subseteq Matches
    /\ stage \in {"detect", "review", "image"} => text = <<>>
    /\ stage \in Before => kinds = <<>>
    /\ stage \in {"chunking", "chunked"} => start \in 0..Len(Clean)
    /\ derivative.status \in ImageStatuses

LEMMA ShapeInit == Init => ShapeInv
BY DEF Init, ShapeInv, Before, NoImage, Obstacles, ImageStatuses

LEMMA DerivativeStatus ==
    ASSUME NEW boxes, NEW padding, NEW image, NEW obstacle \in Obstacles
    PROVE  Derivative(boxes, padding, image, obstacle).status \in ImageStatuses
<1>1. CASE obstacle = "NOT_APPLICABLE"
    BY <1>1 DEF Derivative, NoImage, ImageStatuses, Obstacles
<1>2. CASE obstacle # "NOT_APPLICABLE" /\ \E n \in DOMAIN boxes : ~Located(boxes[n])
    BY <1>2 DEF Derivative, NoImage, ImageStatuses
<1>3. CASE /\ obstacle # "NOT_APPLICABLE" /\ ~\E n \in DOMAIN boxes : ~Located(boxes[n])
           /\ obstacle # "none"
  <2>1. Derivative(boxes, padding, image, obstacle) = NoImage(obstacle)
      BY <1>3 DEF Derivative
  <2> QED BY <1>3, <2>1 DEF NoImage, ImageStatuses
<1>4. CASE /\ obstacle # "NOT_APPLICABLE" /\ ~\E n \in DOMAIN boxes : ~Located(boxes[n])
           /\ obstacle = "none"
    BY <1>4 DEF Derivative, ImageStatuses
<1> QED BY <1>1, <1>2, <1>3, <1>4

LEMMA ShapeStep == WindowInv /\ WindowInv' /\ ShapeInv /\ [Next]_vars => ShapeInv'
<1> SUFFICES ASSUME WindowInv, WindowInv', ShapeInv, [Next]_vars PROVE ShapeInv'
    OBVIOUS
<1>1. text' = text /\ kinds' = kinds => Clean' = Clean
    BY DEF Clean
<1>2. CASE Detect
    BY <1>2 DEF Detect, ShapeInv, Before
<1>3. CASE ApproveText
    BY <1>3 DEF ApproveText, ShapeInv, Before
<1>4. CASE ApproveImage
  <2>1. derivative'.status \in ImageStatuses
      BY <1>4, DerivativeStatus DEF ApproveImage
  <2> QED BY <1>4, <2>1 DEF ApproveImage, ShapeInv, Before
<1>5. CASE ChunkPage
  <2>1. start' \in 0..Len(Clean')
      BY <1>5 DEF ChunkPage, WindowInv, Underway
  <2> QED BY <1>5, <2>1 DEF ChunkPage, ShapeInv, Before
<1>6. CASE NextWindow
  <2>1. /\ text' = text /\ kinds' = kinds /\ matches' = matches /\ derivative' = derivative
        /\ stage = "chunking" /\ stage' \in {"chunking", "chunked"}
        /\ stage' = "chunked" => start' = start
      BY <1>6 DEF NextWindow
  <2>2. start' \in 0..Len(Clean')
    <3>1. CASE stage' = "chunked"
        BY <1>1, <2>1, <3>1 DEF ShapeInv
    <3>2. CASE stage' = "chunking"
      <4>1. start' \in Nat /\ start' <= Len(Clean')
          BY <3>2 DEF WindowInv, Underway
      <4>2. Len(Clean') = Len(Clean) /\ Len(Clean) \in Nat
          BY <1>1, <2>1, CleanIsLaid DEF WindowInv
      <4> QED BY <4>1, <4>2
    <3> QED BY <2>1, <3>1, <3>2
  <2> QED BY <2>1, <2>2 DEF ShapeInv, Before
<1>7. CASE NoMoreWindows
    BY <1>1, <1>7 DEF NoMoreWindows, ShapeInv, Before
<1>8. CASE UNCHANGED vars
    BY <1>1, <1>8 DEF vars, ShapeInv
<1> QED BY <1>2, <1>3, <1>4, <1>5, <1>6, <1>7, <1>8 DEF Next

\* Every text is of the page's characters and the placeholders', and every
\* window is within it.
THEOREM TypeInvariant == Spec => []TypeOK
<1>1. WindowInv /\ ShapeInv => TypeOK
  <2> SUFFICES ASSUME WindowInv, ShapeInv PROVE TypeOK
      OBVIOUS
  <2>1. stage \in Stages /\ findings \subseteq Matches /\ matches \subseteq Matches
      BY DEF WindowInv, MaskInv, ShapeInv, Stages
  <2>2. derivative.status \in (Obstacles \ {"none"}) \union {"APPROVED", "BLOCKED_UNLOCATED_PII"}
      BY DEF ShapeInv, ImageStatuses
  <2>3. text \in Seq(Characters)
    <3>1. CASE stage \in {"detect", "review", "image"}
        BY <3>1, EmptySeq DEF ShapeInv
    <3>2. CASE stage \in {"masked", "chunking", "chunked"}
        BY <3>2 DEF WindowInv, MaskInv, MaskedAs
    <3> QED BY <2>1, <3>1, <3>2 DEF Stages
  <2>4. CASE stage \in Before
    <3>1. kinds = <<>> /\ start = 0 /\ chunks = <<>>
        BY <2>4 DEF WindowInv, ShapeInv
    <3>2. Len(text) \in Nat
        BY <2>3, LenProperties
    <3>3. \A S : <<>> \in Seq(S)
        BY EmptySeq
    <3> QED BY <2>1, <2>2, <2>3, <3>1, <3>2, <3>3 DEF TypeOK
  <2>5. CASE stage \in {"chunking", "chunked"}
    <3>1. /\ Laid(text, kinds) /\ chunks \in Seq(Windows) /\ start \in 0..Len(Clean)
          /\ \A n \in 1..Len(chunks) : Fits(chunks[n])
        BY <2>5 DEF WindowInv, ShapeInv, AllFit
    <3>2. Len(Clean) \in Nat /\ Len(Clean) <= Len(text) /\ Len(text) \in Nat
        BY <2>3, <3>1, CleanIsLaid, LenProperties
    <3>3. kinds \in Seq({"plain", "line", "space", "token"})
        BY <3>1 DEF Laid, KindNames
    <3> DEFINE Places == [start : 0..Len(text), end : 0..Len(text)]
    <3>4. ASSUME NEW n \in 1..Len(chunks) PROVE chunks[n] \in Places
      <4>1. chunks[n] \in Windows /\ Fits(chunks[n])
          BY <3>1, ElementOfSeq
      <4>2. /\ chunks[n].start \in Nat /\ chunks[n].end \in Nat
            /\ chunks[n].start < chunks[n].end /\ chunks[n].end <= Len(Clean)
            /\ chunks[n] = [start |-> chunks[n].start, end |-> chunks[n].end]
          BY <4>1 DEF Windows, Fits
      <4>3. chunks[n].start \in 0..Len(text) /\ chunks[n].end \in 0..Len(text)
          BY <3>2, <4>2
      <4> QED BY <4>2, <4>3
    <3>5. chunks \in Seq(Places)
      <4>1. Len(chunks) \in Nat /\ chunks = [n \in 1..Len(chunks) |-> chunks[n]]
          BY <3>1, LenProperties
      <4> HIDE DEF Places
      <4>2. chunks \in [1..Len(chunks) -> Places]
          BY <3>4, <4>1
      <4> QED BY <4>1, <4>2, SeqDef
    <3>6. start \in 0..Len(text)
        BY <3>1, <3>2
    <3> QED BY <2>1, <2>2, <2>3, <3>3, <3>5, <3>6 DEF TypeOK
  <2> QED BY <2>1, <2>4, <2>5 DEF Stages, Before
<1> QED BY <1>1, WindowInvInit, WindowInvStep, ShapeInit, ShapeStep, PTL DEF Spec

\* As long as a page has windows left each begins behind the one before it, and
\* none begins past the end: the loop of chunk_page takes no step in vain and is
\* over after as many windows as the text has characters at the most.
THEOREM WindowsMoveOn ==
    Spec => [][stage = "chunking" /\ stage' = "chunking" =>
                 start < start' /\ start' <= Len(Clean)]_vars
<1>1. WindowInv /\ WindowInv' /\ [Next]_vars =>
        [stage = "chunking" /\ stage' = "chunking" => start < start' /\ start' <= Len(Clean)]_vars
  <2> SUFFICES ASSUME WindowInv, WindowInv', Next, stage = "chunking", stage' = "chunking"
               PROVE  start < start' /\ start' <= Len(Clean)
      BY DEF vars
  <2>1. NextWindow
      BY DEF Next, Detect, ApproveText, ApproveImage, ChunkPage, NoMoreWindows
  <2>2. Clean' = Clean
      BY <2>1 DEF NextWindow, Clean
  <2>3. start' <= Len(Clean)
      BY <2>2 DEF WindowInv, Underway
  <2> DEFINE end == ChunkEnd(start)
  <2>4. Laid(text, kinds) /\ start \in Nat /\ start < Len(Clean) /\ Len(Clean) \in Nat
      BY <2>1, CleanIsLaid DEF NextWindow, WindowInv, Underway
  <2>5. end \in Nat /\ Between(end) /\ (end < Len(Clean) => start + OverlapChars < end)
      BY <2>4, EndHolds
  <2>6. start' = NextStart(start, end) /\ ~(end >= Len(Clean))
      BY <2>1 DEF NextWindow
  <2> HIDE DEF end
  <2>7. start < start'
    <3>1. start + OverlapChars < end
        BY <2>4, <2>5, <2>6
    <3> QED BY <2>4, <2>5, <2>6, <3>1, NextHolds
  <2> QED BY <2>3, <2>7
<1> QED BY <1>1, WindowInvInit, WindowInvStep, PTL DEF Spec
=============================================================================
