----------------------------- MODULE Retrieval -----------------------------
(***************************************************************************)
(* The fusion of two rankings in doc_search() of agent/tools.py, with      *)
(* rrf_fuse() of retrieval/bm25.py.  A ranking is a sequence of sections,  *)
(* the best first and none twice.  Scores are fractions, compared by       *)
(* multiplying out; the rounding of floats is left out.                    *)
(***************************************************************************)
EXTENDS Integers, FiniteSets, SequencesExt

CONSTANTS
  TopK,          \* sections in a reply
  ArmK,          \* sections in a ranking
  RrfK,          \* k of the reciprocal rank fusion
  VecWeight      \* weight of the vectors' ranking, that of BM25 is 1

ASSUME RetrievalAssumption ==
  /\ {TopK, ArmK} \subseteq Nat \ {0}
  /\ {RrfK, VecWeight} \subseteq Nat

Cut(ranking, n) == SubSeq(ranking, 1, IF Len(ranking) <= n THEN Len(ranking) ELSE n)

\* What an arm may make of a set of candidates: BM25 finds some of them, the
\* cosine ranks them all.
Rankings(candidates, n) == UNION {{r \in [1..i -> candidates] : IsInjective(r)} : i \in 0..n}
FullRankings(candidates, n) ==
  {r \in Rankings(candidates, n) : Len(r) = n \/ Len(r) = Cardinality(candidates)}

PlaceOf(ranking, s) == CHOOSE i \in DOMAIN ranking : ranking[i] = s

Share(ranking, s, weight) ==
  IF Contains(ranking, s) THEN [num |-> weight, den |-> RrfK + PlaceOf(ranking, s)]
  ELSE [num |-> 0, den |-> 1]

RrfScore(bm25, vec, s) ==
  LET one == Share(bm25, s, 1)
      two == Share(vec, s, VecWeight)
  IN [num |-> one.num * two.den + two.num * one.den, den |-> one.den * two.den]

Exceeds(x, y) == x.num * y.den > y.num * x.den

\* The sort is stable, and who is first seen comes first.
FirstSeen(bm25, vec, s) ==
  IF Contains(bm25, s) THEN PlaceOf(bm25, s) ELSE Len(bm25) + PlaceOf(vec, s)

Before(bm25, vec, s, t) ==
  \/ Exceeds(RrfScore(bm25, vec, s), RrfScore(bm25, vec, t))
  \/ /\ ~ Exceeds(RrfScore(bm25, vec, t), RrfScore(bm25, vec, s))
     /\ FirstSeen(bm25, vec, s) < FirstSeen(bm25, vec, t)

\* rrf_fuse(): each section comes after as many as are before it.
Fused(bm25, vec) ==
  LET all == ToSet(bm25) \cup ToSet(vec)
      ahead == [s \in all |-> {t \in all : Before(bm25, vec, t, s)}]
  IN [i \in 1..Cardinality(all) |-> CHOOSE s \in all : Cardinality(ahead[s]) = i - 1]

\* A mutant's: the first hit of BM25 may be cut off.
NotRescued(fused, bm25) == fused

\* The first hit of BM25 survives the cut, in the last place if need be.
Rescued(fused, bm25) ==
  IF bm25 # <<>> /\ ~ Contains(fused, bm25[1])
  THEN [fused EXCEPT ![Len(fused)] = bm25[1]]
  ELSE fused

Chosen(bm25, vec) == Rescued(Cut(Fused(bm25, vec), TopK), bm25)
=============================================================================
