----------------------------- MODULE RankFusion -----------------------------
(***************************************************************************)
(* Reciprocal rank fusion (HybridRetrievalService.search): two ranked      *)
(* lists of hits are made into one order.  The score of a chunk is the sum *)
(* of 1 / (K + rank) over the lists it is in; of equal scores the chunk    *)
(* that was seen first comes first, as Python's sort is stable.            *)
(*                                                                         *)
(* A hit whose payload is refused is skipped and keeps its rank.           *)
(***************************************************************************)
EXTENDS Naturals, Sequences, FiniteSets

CONSTANTS
    Chunks,     \* the chunks whose payload is accepted
    K,          \* rrf_k
    Unit        \* a multiple of K + rank for every rank there is: scores are
                \* counted in parts of 1 / Unit and are integers

Positions(list, chunk) == {r \in DOMAIN list : list[r] = chunk}
Candidates(dense, sparse) ==
    {c \in Chunks : Positions(dense, c) # {} \/ Positions(sparse, c) # {}}

Increment(rank) == Unit \div (K + rank)

\* The vector store lists a point once at the most.
ScoreIn(list, chunk) ==
    IF Positions(list, chunk) = {} THEN 0
    ELSE Increment(CHOOSE r \in Positions(list, chunk) : TRUE)
Score(dense, sparse, chunk) == ScoreIn(dense, chunk) + ScoreIn(sparse, chunk)

\* The chunk is in fused_scores before the other one is.
SeenFirst(dense, sparse, c, d) ==
    LET hits == dense \o sparse IN
    \E r \in Positions(hits, c) : \A s \in Positions(hits, d) : r < s

\* Fault: the lowest score first.
AheadAscending(dense, sparse, c, d) ==
    \/ Score(dense, sparse, c) < Score(dense, sparse, d)
    \/ /\ Score(dense, sparse, c) = Score(dense, sparse, d)
       /\ SeenFirst(dense, sparse, c, d)

Ahead(dense, sparse, c, d) ==
    \/ Score(dense, sparse, c) > Score(dense, sparse, d)
    \/ /\ Score(dense, sparse, c) = Score(dense, sparse, d)
       /\ SeenFirst(dense, sparse, c, d)

\* [:top_k]
Top(dense, sparse, k) ==
    {c \in Candidates(dense, sparse) :
        Cardinality({d \in Candidates(dense, sparse) : Ahead(dense, sparse, d, c)}) < k}
-----------------------------------------------------------------------------
\* In the list the chunk is at least as high as the other one, which may be
\* missing.
AtLeastAsHigh(list, c, d) ==
    \A s \in Positions(list, d) : \E r \in Positions(list, c) : r <= s

\* What a fused order owes to its lists: a chunk neither of them ranks below
\* another one is ahead of it.
Respected(dense, sparse) ==
    \A c, d \in Candidates(dense, sparse) :
        c # d /\ AtLeastAsHigh(dense, c, d) /\ AtLeastAsHigh(sparse, c, d)
            => Ahead(dense, sparse, c, d) /\ ~Ahead(dense, sparse, d, c)
=============================================================================
