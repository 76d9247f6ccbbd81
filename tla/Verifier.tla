------------------------------ MODULE Verifier ------------------------------
(***************************************************************************)
(* Texts, and the two parts of the program that judge them: the verifier   *)
(* (agent/verifier.py), which looks for numbers, citations, requirements   *)
(* and phrases in an answer, and the guards of agent/narrate.py, which     *)
(* compare what the LLM wrote with what it was given.                      *)
(*                                                                         *)
(* A text is a set of sentences.  A sentence is what the patterns of both  *)
(* files find in it: numbers with their units, those numbers that restate  *)
(* an exact amount in brackets, citation marks, and words.  The order of   *)
(* words and sentences is left out, since no check looks at it.            *)
(***************************************************************************)
EXTENDS Integers, FiniteSets

CONSTANTS
  Content,     \* words that carry a claim (_content_words)
  Hedges,      \* _HEDGE
  Critical,    \* _CRITICAL_TOKENS
  Risky,       \* _RISKY_CLAIM
  Meta,        \* _META
  Forbidden,   \* FORBIDDEN_PATTERNS
  Assertions,  \* UNSUPPORTED_ASSERTION_TERMS: a set of words for each pattern
  Slots,       \* placeholders that were not filled
  Incidental   \* digits of a context that are no figure of the evidence

\* Each stands for words an answer may contain.
ASSUME WordsAssumption ==
  /\ Assertions \subseteq SUBSET STRING
  /\ Content \cup Hedges \cup Critical \cup Risky \cup Meta \cup Forbidden \cup Slots
       \subseteq STRING
  /\ Incidental \subseteq Nat

Sentence(nums, alias, cites, words) ==
  [nums |-> nums, alias |-> alias, cites |-> cites, words |-> words]

Digits(nums) == {n.digits : n \in nums}

Nums(text) == UNION {s.nums : s \in text}
Aliases(text) == UNION {s.alias : s \in text}
Cites(text) == UNION {s.cites : s \in text}
Words(text) == UNION {s.words : s \in text}
-----------------------------------------------------------------------------
(* The guards of narrate() *)

\* Numbers of the body that a text lacks. A question whose answer is a
\* summary may lose some, but not all.
Lost(body, out, maydrop) ==
  IF maydrop /\ Nums(out) # {} THEN {} ELSE Nums(body) \ (Nums(out) \cup Aliases(body))

Added(body, out) == Nums(out) \ Nums(body)

NewClaims(body, out, asked) ==
  (Words(out) \cap (Content \cup Risky)) \ (Words(body) \cup asked)

\* The guards and the verifier as a plausible bug would have them, for the
\* mutated runs: NothingDropped drops a guard, MetByHalf has no least number of
\* tokens, FailsAnywhere removes an assertion that the evidence makes.
NothingDropped(body, out) == {}

DroppedCritical(body, out) == (Words(body) \cap Critical) \ Words(out)

Hedged(body, out) == Words(out) \cap Hedges # {} /\ Words(body) \cap Hedges = {}

\* out is used in place of body.
Accepted(body, out, asked, maydrop) ==
  /\ out # {}
  /\ Lost(body, out, maydrop) = {}
  /\ Added(body, out) = {}
  /\ Cites(body) \subseteq Cites(out)
  /\ Words(out) \cap Meta = {}
  /\ ~ Hedged(body, out)
  /\ NewClaims(body, out, asked) = {}
  /\ DroppedCritical(body, out) = {}
-----------------------------------------------------------------------------
(* The verifier. A context is the sequence of the evidence that may be     *)
(* cited: number i is cited as [Ci].                                       *)

ContextNums(ctx) == UNION {ctx[i].nums : i \in DOMAIN ctx}
ContextWords(ctx) == UNION {ctx[i].words : i \in DOMAIN ctx}

\* The context is one string without commas, blanks and units.  Besides the
\* evidence's own numbers it holds the numbers of the citations, and digits by
\* accident: of receipt numbers, dates, scores, or of two numbers that adjoin.
ContextDigits(ctx) ==
  Digits(ContextNums(ctx)) \cup DOMAIN ctx \cup (IF ctx = <<>> THEN {} ELSE Incidental)

\* a is found in the decimal digits of b.
Within(a, b) ==
  \E shift, length \in {1, 10, 100, 1000} :
    length > 1 /\ a <= b /\ (b \div shift) % length = a

Grounded(d, ctx, derived) ==
  d \in derived \/ \E c \in ContextDigits(ctx) : Within(d, c)

\* Forbidden whatever the evidence says, or a trend or an evaluation that
\* the evidence does not express.
Disallowed(words, ctx) ==
  \/ words \cap Forbidden # {}
  \/ \E A \in Assertions : words \cap A # {} /\ ContextWords(ctx) \cap A = {}

MetByHalf(req, text) == Cardinality(req \cap Words(text)) >= Cardinality(req) \div 2

\* A requirement is the set of its tokens, half of which must occur.
Met(req, text) ==
  LET hits == Cardinality(req \cap Words(text))
  IN req # {} => hits >= 1 /\ hits >= Cardinality(req) \div 2

Verify(text, ctx, reqs, derived) ==
  [ungrounded |-> {d \in Digits(Nums(text)) : ~ Grounded(d, ctx, derived)},
   uncited    |-> Cites(text) \ DOMAIN ctx,
   unmet      |-> {r \in reqs : ~ Met(r, text)},
   disallowed |-> {s \in text : Disallowed(s.words, ctx)},
   slots      |-> Words(text) \cap Slots]

Passed(rep) == \A check \in DOMAIN rep : rep[check] = {}

FailsAnywhere(s, rep, ctx) ==
  \/ Digits(s.nums) \cap rep.ungrounded # {}
  \/ s.words \cap (Forbidden \cup UNION Assertions) # {}

Fails(s, rep, ctx) ==
  \/ Digits(s.nums) \cap rep.ungrounded # {}
  \/ Disallowed(s.words, ctx)

Strip(text, rep, ctx) == {s \in text : ~ Fails(s, rep, ctx)}
=============================================================================
