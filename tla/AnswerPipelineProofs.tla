------------------------ MODULE AnswerPipelineProofs ------------------------
(***************************************************************************)
(* What the last stage of the pipeline guarantees, whatever the questions, *)
(* the database, the words of the patterns and the LLM's text are.         *)
(***************************************************************************)
EXTENDS AnswerPipeline, FiniteSetTheorems, SequenceTheorems, WellFoundedInduction, TLAPS

(* The verifier, and the removal of the sentences that fail.                *)

\* A number of a text that lacks sentences is a number of the text.
LEMMA NumsMonotone ==
  ASSUME NEW text, NEW part, part \subseteq text
  PROVE  /\ Nums(part) \subseteq Nums(text)
         /\ Words(part) \subseteq Words(text)
PROOF
  BY DEF Nums, Words

\* What is left after the removal has no number that is not grounded and no
\* phrase that is not allowed.
LEMMA StripClean ==
  ASSUME NEW text, NEW ctx, NEW reqs, NEW derived,
         NEW part, part = Strip(text, Verify(text, ctx, reqs, derived), ctx)
  PROVE  /\ Verify(part, ctx, reqs, derived).ungrounded = {}
         /\ Verify(part, ctx, reqs, derived).disallowed = {}
PROOF
  <1> DEFINE rep == Verify(text, ctx, reqs, derived)
  <1>1. part = {s \in text : ~ Fails(s, rep, ctx)}
    BY DEF Strip
  <1>2. ASSUME NEW s \in part, NEW n \in s.nums, ~ Grounded(n.digits, ctx, derived)
        PROVE  FALSE
    <2>1. n \in Nums(text) /\ s \in text
      BY <1>1, <1>2 DEF Nums
    <2>2. n.digits \in rep.ungrounded
      BY <1>2, <2>1 DEF Verify, Digits
    <2>3. n.digits \in Digits(s.nums)
      BY <1>2 DEF Digits
    <2> QED
      BY <1>1, <2>2, <2>3 DEF Fails
  <1>3. ASSUME NEW s \in part, Disallowed(s.words, ctx)
        PROVE  FALSE
    BY <1>1, <1>3 DEF Fails
  <1>4. {d \in Digits(Nums(part)) : ~ Grounded(d, ctx, derived)} = {}
    BY <1>2 DEF Digits, Nums
  <1>5. {s \in part : Disallowed(s.words, ctx)} = {}
    BY <1>3
  <1> QED
    BY <1>4, <1>5 DEF Verify

\* A sentence that is removed would be rejected if it were the whole text.
LEMMA StripFails ==
  ASSUME NEW text, NEW ctx, NEW reqs, NEW derived, NEW s \in text,
         s \notin Strip(text, Verify(text, ctx, reqs, derived), ctx)
  PROVE  \/ Verify({s}, ctx, reqs, derived).ungrounded # {}
         \/ Verify({s}, ctx, reqs, derived).disallowed # {}
PROOF
  <1> DEFINE rep == Verify(text, ctx, reqs, derived)
  <1>1. Fails(s, rep, ctx)
    BY DEF Strip
  <1>2. CASE Disallowed(s.words, ctx)
    <2>1. s \in {x \in {s} : Disallowed(x.words, ctx)}
      BY <1>2
    <2> QED
      BY <2>1 DEF Verify
  <1>3. CASE Digits(s.nums) \cap rep.ungrounded # {}
    <2>1. PICK d : d \in Digits(s.nums) /\ d \in rep.ungrounded
      BY <1>3
    <2>2. ~ Grounded(d, ctx, derived)
      BY <2>1 DEF Verify
    <2>3. Nums({s}) = s.nums
      BY DEF Nums
    <2>4. d \in {x \in Digits(Nums({s})) : ~ Grounded(x, ctx, derived)}
      BY <2>1, <2>2, <2>3
    <2> QED
      BY <2>4 DEF Verify
  <1> QED
    BY <1>1, <1>2, <1>3 DEF Fails

\* An empty text does not meet a requirement.
LEMMA EmptyUnmet ==
  ASSUME NEW ctx, NEW reqs, NEW derived, NEW r \in reqs, r # {}
  PROVE  ~ Passed(Verify({}, ctx, reqs, derived))
PROOF
  <1>1. r \cap Words({}) = {}
    BY DEF Words
  <1>2. Cardinality(r \cap Words({})) = 0
    BY <1>1, FS_EmptySet
  <1>3. ~ Met(r, {})
    BY <1>2 DEF Met
  <1>4. r \in {q \in reqs : ~ Met(q, {})}
    BY <1>3
  <1>5. Verify({}, ctx, reqs, derived).unmet # {}
    BY <1>4 DEF Verify
  <1>6. /\ "unmet" \in DOMAIN Verify({}, ctx, reqs, derived)
        /\ Verify({}, ctx, reqs, derived)["unmet"] = Verify({}, ctx, reqs, derived).unmet
    BY DEF Verify
  <1> QED
    BY <1>5, <1>6 DEF Passed

\* A question for a figure has a requirement.
LEMMA FigureRequired ==
  ASSUME NEW q, q.metric # "none"
  PROVE  \E r \in Requirements(q) : r # {}
PROOF
  <1>1. CASE q.years = {}
    BY <1>1 DEF Requirements
  <1>2. CASE q.years # {}
    <2>1. PICK y : y \in q.years
      BY <1>2
    <2>2. {Word(y), q.metric} \in {{Word(x), q.metric} : x \in q.years}
      BY <2>1
    <2>3. Requirements(q) = {{Word(x), q.metric} : x \in q.years}
      BY <1>2 DEF Requirements
    <2>4. {Word(y), q.metric} # {}
      OBVIOUS
    <2> QED
      BY <2>2, <2>3, <2>4
  <1> QED
    BY <1>1, <1>2
-----------------------------------------------------------------------------
(* The invariant                                                            *)

\* Figures are found only for a question that names one.
FiguresAsked ==
  /\ stage \in {"asked", "understood"} => found.facts = <<>>
  /\ found.facts # <<>> => question.metric # "none"

\* The text is the composed one or a text the guards accepted.
TextGuarded ==
  /\ stage \in {"asked", "understood", "evidence", "composed"} => body = composed
  /\ body = composed \/ Accepted(composed, body, question.words, MayDrop(question))

\* Figures are only looked up for a metric.
LEMMA NoMetricNoFacts ==
  ASSUME NEW q, NEW f \in Evidence(q), f.facts # <<>>
  PROVE  q.metric # "none"
PROOF
  <1>1. Addressed(q).facts = FactsFor(q)
    BY DEF Addressed, NothingFound
  <1>2. f.facts = Addressed(q).facts
    <2> DEFINE direct == Addressed(q)
    <2>1. CASE HasEvidence(direct)
      BY <2>1 DEF Evidence
    <2>2. CASE ~ HasEvidence(direct)
      <3>1. PICK s : f = [direct EXCEPT !.hits = s.hits,
                                        !.relevant = s.relevant /\ s.hits # <<>>]
        BY <2>2 DEF Evidence
      <3> QED
        BY <3>1, Zenon DEF Addressed, NothingFound
    <2> QED
      BY <2>1, <2>2
  <1>3. FactsFor(q) # <<>>
    BY <1>1, <1>2
  <1> QED
    BY <1>3 DEF FactsFor

\* _run() calls fact_query() for a question that names a metric only, and the
\* search for documents, which may follow, leaves the figures alone.
THEOREM FiguresOnlyIfAsked == Spec => []FiguresAsked
PROOF
  <1>1. Init => FiguresAsked
    BY DEF Init, FiguresAsked, NothingFound
  <1>2. FiguresAsked /\ [Next]_vars => FiguresAsked'
    <2> SUFFICES ASSUME FiguresAsked, [Next]_vars PROVE FiguresAsked'
      OBVIOUS
    <2> USE DEF FiguresAsked
    <2>1. CASE Understand
      BY <2>1 DEF Understand
    <2>2. CASE RunTools
      <3>1. found'.facts # <<>> => question.metric # "none"
        BY <2>2, NoMetricNoFacts DEF RunTools
      <3> QED
        BY <2>2, <3>1 DEF RunTools
    <2>3. CASE Abstain
      BY <2>3 DEF Abstain
    <2>4. CASE ComposeText
      BY <2>4 DEF ComposeText
    <2>5. CASE Narrate
      BY <2>5 DEF Narrate
    <2>6. CASE Check
      BY <2>6 DEF Check
    <2>7. CASE Break
      BY <2>7 DEF Break
    <2>8. CASE UNCHANGED vars
      BY <2>8 DEF vars
    <2> QED
      BY <2>1, <2>2, <2>3, <2>4, <2>5, <2>6, <2>7, <2>8 DEF Next
  <1> QED
    BY <1>1, <1>2, PTL DEF Spec

\* narrate() is the only stage that changes a composed text, and it returns the
\* LLM's text only when every guard accepts it.
THEOREM TextIsGuarded == Spec => []TextGuarded
PROOF
  <1>1. Init => TextGuarded
    BY DEF Init, TextGuarded
  <1>2. TextGuarded /\ [Next]_vars => TextGuarded'
    <2> SUFFICES ASSUME TextGuarded, [Next]_vars PROVE TextGuarded'
      OBVIOUS
    <2> USE DEF TextGuarded
    <2>1. CASE Understand
      BY <2>1 DEF Understand
    <2>2. CASE RunTools
      BY <2>2 DEF RunTools
    <2>3. CASE Abstain
      BY <2>3 DEF Abstain
    <2>4. CASE ComposeText
      BY <2>4 DEF ComposeText
    <2>5. CASE Narrate
      <3>1. body = composed
        BY <2>5 DEF Narrate
      <3>2. body' = body \/ Accepted(body, body', question.words, MayDrop(question))
        BY <2>5 DEF Narrate, NoCall, Call, Keep
      <3> QED
        BY <2>5, <3>1, <3>2 DEF Narrate
    <2>6. CASE Check
      BY <2>6 DEF Check
    <2>7. CASE Break
      BY <2>7 DEF Break
    <2>8. CASE UNCHANGED vars
      BY <2>8 DEF vars
    <2> QED
      BY <2>1, <2>2, <2>3, <2>4, <2>5, <2>6, <2>7, <2>8 DEF Next
  <1> QED
    BY <1>1, <1>2, PTL DEF Spec
-----------------------------------------------------------------------------
(* The last step, in terms of what it reads                                 *)

\* What Check does to the answer, with the verdicts of a text named.
LEMMA CheckStep ==
  ASSUME Check,
         NEW ctx, ctx = Context(found),
         NEW reqs, reqs = Requirements(question),
         NEW derived, derived = Derived(found, comp),
         NEW first, first = Verify(body, ctx, reqs, derived),
         NEW cleaned, cleaned = Strip(body, first, ctx)
  PROVE  /\ Passed(first) => answer'.text = body /\ answer'.report = first
         /\ ~ Passed(first) => /\ answer'.report = Verify(cleaned, ctx, reqs, derived)
                               /\ answer'.text = IF cleaned = {} THEN body ELSE cleaned
         /\ answer'.confidence = "high" =>
              /\ Passed(answer'.report)
              /\ found.facts # <<>>
              /\ ~ answer'.degraded
PROOF
  <1> DEFINE J(t) == Verify(t, ctx, reqs, derived)
             rep == IF Passed(first) THEN first ELSE J(cleaned)
             text == IF Passed(first) \/ cleaned = {} THEN body ELSE cleaned
             degraded == why \notin {"applied", "stub"}
  <1>1. answer' = Reply(text, Confidence(Passed(rep), degraded), FALSE, rep, degraded)
    BY Zenon DEF Check, Judged
  <1>2. /\ answer'.text = text
        /\ answer'.report = rep
        /\ answer'.confidence = Confidence(Passed(rep), degraded)
        /\ answer'.degraded = degraded
    BY <1>1, Zenon DEF Reply
  <1>3. Confidence(Passed(rep), degraded) = "high" => Passed(rep) /\ found.facts # <<>> /\ ~ degraded
    BY DEF Confidence
  <1> QED
    BY <1>2, <1>3, Zenon

\* No other step gives an answer that is not a refusal.
LEMMA OnlyCheckAnswers ==
  ASSUME [Next]_vars, ~ Check
  PROVE  UNCHANGED vars \/ stage' # "answered" \/ answer'.abstained
PROOF
  <1>1. CASE Abstain
    BY <1>1 DEF Abstain, Reply
  <1>2. CASE Break
    BY <1>2 DEF Break, Reply
  <1> QED
    BY <1>1, <1>2 DEF Next, Understand, RunTools, ComposeText, Narrate

\* Check changes the answer and the stage only.
LEMMA CheckFrame ==
  ASSUME Check
  PROVE  UNCHANGED <<db, provider, question, found, comp, composed, body, why>>
PROOF
  BY DEF Check
-----------------------------------------------------------------------------
(* What is sent                                                             *)

\* HighMeansVerified of Orchestrator._run(): an answer of confidence "high"
\* is the very text that passed the verifier. It rests on FiguresAsked: the
\* requirement that a figure brings is not met by an empty text, so the
\* branch that keeps a rejected text is not taken with confidence "high".
THEOREM HighIsVerified == Spec => []HighMeansVerified
PROOF
  <1>1. Init => HighMeansVerified
    BY DEF Init, HighMeansVerified, Answered
  <1>2. FiguresAsked /\ HighMeansVerified /\ [Next]_vars => HighMeansVerified'
    <2> SUFFICES ASSUME FiguresAsked, HighMeansVerified, [Next]_vars
                 PROVE  HighMeansVerified'
      OBVIOUS
    <2>1. CASE Check
      <3> DEFINE ctx == Context(found)
                 reqs == Requirements(question)
                 derived == Derived(found, comp)
                 first == Verify(body, ctx, reqs, derived)
                 cleaned == Strip(body, first, ctx)
      <3>1. /\ Passed(first) => answer'.text = body /\ answer'.report = first
            /\ ~ Passed(first) =>
                 /\ answer'.report = Verify(cleaned, ctx, reqs, derived)
                 /\ answer'.text = IF cleaned = {} THEN body ELSE cleaned
            /\ answer'.confidence = "high" =>
                 /\ Passed(answer'.report)
                 /\ found.facts # <<>>
                 /\ ~ answer'.degraded
        BY <2>1, CheckStep
      <3>2. ASSUME found.facts # <<>>, cleaned = {}
            PROVE  ~ Passed(Verify(cleaned, ctx, reqs, derived))
        <4>1. PICK r \in Requirements(question) : r # {}
          BY <3>2, FigureRequired DEF FiguresAsked
        <4> QED
          BY <3>2, <4>1, EmptyUnmet
      <3>3. answer'.confidence = "high" => Passed(Verify(answer'.text, ctx, reqs, derived))
        <4> HIDE DEF ctx, reqs, derived, first, cleaned
        <4>1. CASE Passed(first)
          BY <3>1, <4>1 DEF first
        <4>2. CASE ~ Passed(first)
          BY <3>1, <3>2, <4>2
        <4> QED
          BY <4>1, <4>2
      <3>4. UNCHANGED <<question, found, comp>>
        BY <2>1, CheckFrame
      <3> HIDE DEF first, cleaned
      <3> QED
        BY <3>1, <3>3, <3>4 DEF HighMeansVerified, Judged
    <2>2. CASE UNCHANGED vars
      BY <2>2 DEF vars, HighMeansVerified, Answered, Judged
    <2>3. CASE stage' # "answered" \/ answer'.abstained
      BY <2>3 DEF HighMeansVerified, Answered
    <2> QED
      BY <2>1, <2>2, <2>3, OnlyCheckAnswers
  <1> QED
    BY <1>1, <1>2, FiguresOnlyIfAsked, PTL DEF Spec

\* OnlyFailuresRemoved: strip_failing_sentences() is as strict as verify().
THEOREM RemovalIsExact == Spec => []OnlyFailuresRemoved
PROOF
  <1>1. Init => OnlyFailuresRemoved
    BY DEF Init, OnlyFailuresRemoved, Answered
  <1>2. OnlyFailuresRemoved /\ [Next]_vars => OnlyFailuresRemoved'
    <2> SUFFICES ASSUME OnlyFailuresRemoved, [Next]_vars
                 PROVE  OnlyFailuresRemoved'
      OBVIOUS
    <2>1. CASE Check
      <3> DEFINE ctx == Context(found)
                 reqs == Requirements(question)
                 derived == Derived(found, comp)
                 first == Verify(body, ctx, reqs, derived)
                 cleaned == Strip(body, first, ctx)
      <3>1. answer'.text = body \/ answer'.text = cleaned
        <4>1. /\ Passed(first) => answer'.text = body
              /\ ~ Passed(first) => answer'.text = IF cleaned = {} THEN body ELSE cleaned
          BY <2>1, CheckStep
        <4> HIDE DEF cleaned, first
        <4> QED
          BY <4>1
      <3>2. \A s \in body \ cleaned : \/ Verify({s}, ctx, reqs, derived).ungrounded # {}
                                      \/ Verify({s}, ctx, reqs, derived).disallowed # {}
        BY StripFails
      <3>3. /\ Verify(cleaned, ctx, reqs, derived).ungrounded = {}
            /\ Verify(cleaned, ctx, reqs, derived).disallowed = {}
        BY StripClean
      <3>4. UNCHANGED <<question, found, comp, body>>
        BY <2>1, CheckFrame
      <3> HIDE DEF first, cleaned
      <3> QED
        BY <3>1, <3>2, <3>3, <3>4 DEF OnlyFailuresRemoved, Judged
    <2>2. CASE UNCHANGED vars
      BY <2>2 DEF vars, OnlyFailuresRemoved, Answered, Judged
    <2>3. CASE stage' # "answered" \/ answer'.abstained
      BY <2>3 DEF OnlyFailuresRemoved, Answered
    <2> QED
      BY <2>1, <2>2, <2>3, OnlyCheckAnswers
  <1> QED
    BY <1>1, <1>2, PTL DEF Spec

\* The meaning of a text that is kept in a text that is sent.
Kept(before, after, asked, maydrop, sent) ==
  /\ Words(sent) \cap (Content \cup Risky) \subseteq Words(before) \cup asked
  /\ Words(before) \cap Hedges = {} => Words(sent) \cap Hedges = {}
  /\ sent = after =>
       /\ Words(before) \cap Critical \subseteq Words(sent)
       /\ Cites(before) \subseteq Cites(sent)
       /\ ~ maydrop => Nums(before) \ Aliases(before) \subseteq Nums(sent)

\* What the guards of narrate() promise of a text that is used, or of a part
\* of it.
LEMMA GuardsKeepMeaning ==
  ASSUME NEW before, NEW after, NEW asked, NEW maydrop \in BOOLEAN,
         NEW sent, sent \subseteq after,
         after = before \/ Accepted(before, after, asked, maydrop)
  PROVE  Kept(before, after, asked, maydrop, sent)
PROOF
  <1>1. Words(sent) \subseteq Words(after)
    BY NumsMonotone
  <1>2. CASE after = before
    BY <1>1, <1>2 DEF Kept
  <1>3. CASE Accepted(before, after, asked, maydrop)
    <2>1. Words(after) \cap (Content \cup Risky) \subseteq Words(before) \cup asked
      BY <1>3 DEF Accepted, NewClaims
    <2>2. Words(before) \cap Hedges = {} => Words(after) \cap Hedges = {}
      BY <1>3 DEF Accepted, Hedged
    <2>3. Words(before) \cap Critical \subseteq Words(after)
      BY <1>3 DEF Accepted, DroppedCritical
    <2>4. Cites(before) \subseteq Cites(after)
      BY <1>3 DEF Accepted
    <2>5. ~ maydrop => Nums(before) \ Aliases(before) \subseteq Nums(after)
      BY <1>3 DEF Accepted, Lost
    <2> QED
      BY <1>1, <2>1, <2>2, <2>3, <2>4, <2>5 DEF Kept
  <1> QED
    BY <1>2, <1>3

\* MeaningKept: what the LLM and the removal of sentences may not change
\* between the composed text and the answer.
THEOREM MeaningIsKept == Spec => []MeaningKept
PROOF
  <1>1. Init => MeaningKept
    BY DEF Init, MeaningKept, Answered
  <1>2. TextGuarded /\ MeaningKept /\ [Next]_vars => MeaningKept'
    <2> SUFFICES ASSUME TextGuarded, MeaningKept, [Next]_vars
                 PROVE  MeaningKept'
      OBVIOUS
    <2>1. CASE Check
      <3> DEFINE ctx == Context(found)
                 first == Verify(body, ctx, Requirements(question), Derived(found, comp))
                 cleaned == Strip(body, first, ctx)
      <3>1. answer'.text = body \/ answer'.text = cleaned
        <4>1. /\ Passed(first) => answer'.text = body
              /\ ~ Passed(first) => answer'.text = IF cleaned = {} THEN body ELSE cleaned
          BY <2>1, CheckStep
        <4> HIDE DEF cleaned, first
        <4> QED
          BY <4>1
      <3>2. answer'.text \subseteq body
        BY <3>1 DEF Strip
      <3>3. UNCHANGED <<question, composed, body>>
        BY <2>1, CheckFrame
      <3>4. MayDrop(question) \in BOOLEAN
        BY DEF MayDrop
      <3>5. body = composed \/ Accepted(composed, body, question.words, MayDrop(question))
        BY DEF TextGuarded
      <3>6. Kept(composed, body, question.words, MayDrop(question), answer'.text)
        BY <3>2, <3>4, <3>5, GuardsKeepMeaning
      <3> QED
        BY <3>3, <3>6 DEF MeaningKept, Kept
    <2>2. CASE UNCHANGED vars
      BY <2>2 DEF vars, MeaningKept, Answered
    <2>3. CASE stage' # "answered" \/ answer'.abstained
      BY <2>3 DEF MeaningKept, Answered
    <2> QED
      BY <2>1, <2>2, <2>3, OnlyCheckAnswers
  <1> QED
    BY <1>1, <1>2, TextIsGuarded, PTL DEF Spec
-----------------------------------------------------------------------------
(* Sorting. Keys are tuples of integers, of one length.                     *)

\* A set of natural numbers has a least element.
LEMMA LeastExists ==
  ASSUME NEW S, S \subseteq Nat, S # {}
  PROVE  \E x \in S : \A y \in S : x <= y
PROOF
  <1>1. IsWellFoundedOn(OpToRel(<, Nat), Nat)
    BY NatLessThanWellFounded
  <1>2. PICK x \in S : \A y \in S : ~ (<<y, x>> \in OpToRel(<, Nat))
    BY <1>1, WFMin
  <1>3. \A y \in S : x <= y
    <2> SUFFICES ASSUME NEW y \in S PROVE x <= y
      OBVIOUS
    <2>1. x \in Nat /\ y \in Nat
      OBVIOUS
    <2>2. ~ (<<y, x>> \in OpToRel(<, Nat))
      BY <1>2
    <2>3. <<y, x>> \in Nat \X Nat /\ <<y, x>>[1] = y /\ <<y, x>>[2] = x
      BY <2>1
    <2>4. y < x => <<y, x>> \in {ss \in Nat \X Nat : ss[1] < ss[2]}
      BY <2>3
    <2> QED
      BY <2>1, <2>2, <2>4 DEF OpToRel
  <1> QED
    BY <1>3

Keys(m) == [1..m -> Int]

\* Keys of one length are totally ordered.
LEMMA PrecedesOrder ==
  ASSUME NEW m \in Nat, NEW a \in Keys(m), NEW b \in Keys(m), NEW c \in Keys(m)
  PROVE  /\ ~ Precedes(a, a)
         /\ Precedes(a, b) => ~ Precedes(b, a)
         /\ Precedes(a, b) /\ Precedes(b, c) => Precedes(a, c)
         /\ a # b => Precedes(a, b) \/ Precedes(b, a)
PROOF
  <1>1. \A x, y \in Keys(m) :
          Precedes(x, y) <=> \E i \in 1..m : x[i] < y[i] /\ \A j \in 1..(i - 1) : x[j] = y[j]
    BY DEF Precedes, Keys
  <1>2. \A x \in Keys(m), i \in 1..m : x[i] \in Int
    BY DEF Keys
  <1>3. ~ Precedes(a, a)
    BY <1>1, <1>2
  <1>4. ASSUME Precedes(a, b), Precedes(b, a)
        PROVE  FALSE
    <2>1. PICK i \in 1..m : a[i] < b[i] /\ \A j \in 1..(i - 1) : a[j] = b[j]
      BY <1>1, <1>4
    <2>2. PICK k \in 1..m : b[k] < a[k] /\ \A j \in 1..(k - 1) : b[j] = a[j]
      BY <1>1, <1>4
    <2>3. i \in Int /\ k \in Int /\ i >= 1 /\ k >= 1
      OBVIOUS
    <2>4. CASE i < k
      <3>1. i \in 1..(k - 1)
        BY <2>3, <2>4
      <3> QED
        BY <1>2, <2>1, <2>2, <3>1
    <2>5. CASE k < i
      <3>1. k \in 1..(i - 1)
        BY <2>3, <2>5
      <3> QED
        BY <1>2, <2>1, <2>2, <3>1
    <2>6. CASE i = k
      BY <1>2, <2>1, <2>2, <2>6
    <2> QED
      BY <2>3, <2>4, <2>5, <2>6
  <1>5. ASSUME Precedes(a, b), Precedes(b, c)
        PROVE  Precedes(a, c)
    <2>1. PICK i \in 1..m : a[i] < b[i] /\ \A j \in 1..(i - 1) : a[j] = b[j]
      BY <1>1, <1>5
    <2>2. PICK k \in 1..m : b[k] < c[k] /\ \A j \in 1..(k - 1) : b[j] = c[j]
      BY <1>1, <1>5
    <2>3. i \in Int /\ k \in Int /\ i >= 1 /\ k >= 1
      OBVIOUS
    <2>4. CASE i < k
      <3>1. i \in 1..(k - 1) /\ \A j \in 1..(i - 1) : j \in 1..(k - 1)
        BY <2>3, <2>4
      <3>2. a[i] < c[i] /\ \A j \in 1..(i - 1) : a[j] = c[j]
        BY <1>2, <2>1, <2>2, <3>1
      <3> QED
        BY <1>1, <3>2
    <2>5. CASE k < i
      <3>1. k \in 1..(i - 1) /\ \A j \in 1..(k - 1) : j \in 1..(i - 1)
        BY <2>3, <2>5
      <3>2. a[k] < c[k] /\ \A j \in 1..(k - 1) : a[j] = c[j]
        BY <1>2, <2>1, <2>2, <3>1
      <3> QED
        BY <1>1, <3>2
    <2>6. CASE i = k
      <3>1. a[i] < c[i] /\ \A j \in 1..(i - 1) : a[j] = c[j]
        <4>1. a[i] \in Int /\ b[i] \in Int /\ c[i] \in Int
          BY <1>2
        <4>2. a[i] < c[i]
          BY <2>1, <2>2, <2>6, <4>1
        <4> QED
          BY <2>1, <2>2, <2>6, <4>2
      <3> QED
        BY <1>1, <3>1
    <2> QED
      BY <2>3, <2>4, <2>5, <2>6
  <1>6. ASSUME a # b
        PROVE  Precedes(a, b) \/ Precedes(b, a)
    <2> DEFINE D == {i \in 1..m : a[i] # b[i]}
    <2>1. D # {}
      <3>1. a = [i \in 1..m |-> a[i]] /\ b = [i \in 1..m |-> b[i]]
        BY DEF Keys
      <3>2. (\A i \in 1..m : a[i] = b[i]) => a = b
        BY <3>1
      <3> QED
        BY <1>6, <3>2
    <2>2. D \subseteq Nat
      OBVIOUS
    <2>3. PICK i \in D : \A y \in D : i <= y
      BY <2>1, <2>2, LeastExists
    <2>4. \A j \in 1..(i - 1) : a[j] = b[j]
      <3> TAKE j \in 1..(i - 1)
      <3>1. i \in 1..m /\ j \in 1..m /\ j < i
        BY <2>3
      <3>2. j \notin D
        BY <2>3, <3>1
      <3> QED
        BY <3>1, <3>2
    <2>5. i \in 1..m /\ a[i] # b[i] /\ a[i] \in Int /\ b[i] \in Int
      BY <1>2, <2>3
    <2>6. a[i] < b[i] \/ b[i] < a[i]
      BY <2>5
    <2> QED
      BY <1>1, <2>4, <2>5, <2>6
  <1> QED
    BY <1>3, <1>4, <1>5, <1>6

\* Where each element comes after as many as are ahead of it, every place has
\* one element, and no two have the same.
LEMMA PlacesByCounting ==
  ASSUME NEW n \in Nat, NEW ahead \in [1..n -> SUBSET (1..n)],
         \A i \in 1..n : i \notin ahead[i],
         \A i, j \in 1..n : i # j => i \in ahead[j] \/ j \in ahead[i],
         \A i, j \in 1..n : i \in ahead[j] => ahead[i] \subseteq ahead[j]
  PROVE  /\ \A i, j \in 1..n : Cardinality(ahead[i]) = Cardinality(ahead[j]) => i = j
         /\ \A k \in 1..n : \E i \in 1..n : Cardinality(ahead[i]) = k - 1
PROOF
  <1> DEFINE S == 1..n
             place == [i \in S |-> Cardinality(ahead[i]) + 1]
  <1>1. IsFiniteSet(S) /\ Cardinality(S) = n
    <2>1. IsFiniteSet(1..n) /\ Cardinality(1..n) = IF 1 > n THEN 0 ELSE n - 1 + 1
      BY FS_Interval
    <2> QED
      BY <2>1
  <1> HIDE DEF S
  <1>2. \A i \in S : /\ IsFiniteSet(ahead[i]) /\ Cardinality(ahead[i]) \in Nat
                     /\ Cardinality(ahead[i]) < n
    <2> TAKE i \in S
    <2>1. ahead[i] \in SUBSET S /\ S # ahead[i]
      BY DEF S
    <2>2. /\ IsFiniteSet(ahead[i]) /\ Cardinality(ahead[i]) <= n
          /\ n = Cardinality(ahead[i]) => S = ahead[i]
      BY <1>1, <2>1, FS_Subset
    <2>3. Cardinality(ahead[i]) \in Nat
      BY <2>2, FS_CardinalityType
    <2> QED
      BY <2>1, <2>2, <2>3
  <1>3. place \in [S -> 1..n]
    <2>1. \A i \in S : Cardinality(ahead[i]) + 1 \in 1..n
      BY <1>2
    <2> QED
      BY <2>1
  <1>4. \A i, j \in S : i \in ahead[j] => Cardinality(ahead[i]) < Cardinality(ahead[j])
    <2> SUFFICES ASSUME NEW i \in S, NEW j \in S, i \in ahead[j]
                 PROVE  Cardinality(ahead[i]) < Cardinality(ahead[j])
      OBVIOUS
    <2>1. ahead[i] \in SUBSET ahead[j] /\ ahead[i] # ahead[j]
      BY DEF S
    <2>2. Cardinality(ahead[i]) <= Cardinality(ahead[j]) /\ Cardinality(ahead[i]) # Cardinality(ahead[j])
      BY <1>2, <2>1, FS_Subset
    <2>3. Cardinality(ahead[i]) \in Nat /\ Cardinality(ahead[j]) \in Nat
      BY <1>2
    <2> QED
      BY <2>2, <2>3
  <1>5. \A i, j \in S : Cardinality(ahead[i]) = Cardinality(ahead[j]) => i = j
    <2> SUFFICES ASSUME NEW i \in S, NEW j \in S, Cardinality(ahead[i]) = Cardinality(ahead[j]), i # j
                 PROVE  FALSE
      OBVIOUS
    <2>1. Cardinality(ahead[i]) < Cardinality(ahead[j]) \/ Cardinality(ahead[j]) < Cardinality(ahead[i])
      BY <1>4 DEF S
    <2>2. Cardinality(ahead[i]) \in Nat /\ Cardinality(ahead[j]) \in Nat
      BY <1>2
    <2> QED
      BY <2>1, <2>2
  <1>6. \A i, j \in S : place[i] = place[j] => i = j
    <2> SUFFICES ASSUME NEW i \in S, NEW j \in S, place[i] = place[j]
                 PROVE  i = j
      OBVIOUS
    <2>1. Cardinality(ahead[i]) + 1 = Cardinality(ahead[j]) + 1
      OBVIOUS
    <2>2. Cardinality(ahead[i]) \in Nat /\ Cardinality(ahead[j]) \in Nat
      BY <1>2
    <2>3. Cardinality(ahead[i]) = Cardinality(ahead[j])
      BY <2>1, <2>2
    <2> QED
      BY <2>3, <1>5
  <1>7. place \in Surjection(S, 1..n)
    <2>1. place \in Injection(S, 1..n)
      <3> HIDE DEF place
      <3> QED
        BY <1>3, <1>6 DEF Injection, IsInjective
    <2>2. IsFiniteSet(1..n) /\ Cardinality(1..n) = n
      BY <1>1 DEF S
    <2> HIDE DEF place
    <2> QED
      BY <1>1, <2>1, <2>2, FS_Injection
  <1>8. \A k \in 1..n : \E i \in S : Cardinality(ahead[i]) = k - 1
    <2> TAKE k \in 1..n
    <2>1. PICK i \in S : place[i] = k
      <3> HIDE DEF place
      <3> QED
        BY <1>7 DEF Surjection
    <2>2. Cardinality(ahead[i]) + 1 = k /\ Cardinality(ahead[i]) \in Nat
      BY <2>1, <1>2
    <2>3. Cardinality(ahead[i]) = k - 1
      BY <2>2
    <2> QED
      BY <2>3
  <1> QED
    BY <1>5, <1>8 DEF S

AheadBy(s, key) ==
  [i \in DOMAIN s |-> {j \in DOMAIN s : \/ Precedes(key[j], key[i])
                                        \/ key[j] = key[i] /\ j < i}]

\* SortedBy with the keys of its elements as a function.
SortedByKeys(s, key) ==
  [n \in DOMAIN s |-> s[CHOOSE i \in DOMAIN s : Cardinality(AheadBy(s, key)[i]) = n - 1]]

\* What is sorted has the elements it had, each as often, and in order.
LEMMA SortedIs ==
  ASSUME NEW S, NEW s \in Seq(S), NEW m \in Nat, NEW key \in [1..Len(s) -> Keys(m)]
  PROVE  LET t == SortedByKeys(s, key)
         IN  /\ t \in Seq(S) /\ Len(t) = Len(s)
             /\ ToSet(t) \subseteq ToSet(s)
             /\ IsInjective(s) => IsInjective(t)
PROOF
  <1> DEFINE n == Len(s)
             ahead == AheadBy(s, key)
             t == SortedByKeys(s, key)
             From(k) == CHOOSE i \in 1..n : Cardinality(ahead[i]) = k - 1
  <1>1. n \in Nat /\ DOMAIN s = 1..n /\ \A i \in 1..n : s[i] \in S
    BY LenProperties, ElementOfSeq
  <1> HIDE DEF n
  <1>2. /\ ahead \in [1..n -> SUBSET (1..n)]
        /\ \A i, j \in 1..n : j \in ahead[i] <=> Precedes(key[j], key[i]) \/ (key[j] = key[i] /\ j < i)
    BY <1>1 DEF AheadBy
  <1>3. \A i \in 1..n : key[i] \in Keys(m)
    BY DEF n
  <1>4. t = [k \in 1..n |-> s[From(k)]]
    BY <1>1 DEF SortedByKeys
  <1> HIDE DEF ahead, t
  <1>5. \A i \in 1..n : i \notin ahead[i]
    BY <1>2, <1>3, PrecedesOrder
  <1>6. \A i, j \in 1..n : i # j => i \in ahead[j] \/ j \in ahead[i]
    BY <1>1, <1>2, <1>3, PrecedesOrder
  <1>7. ASSUME NEW i \in 1..n, NEW j \in 1..n, i \in ahead[j], NEW k \in ahead[i]
        PROVE  k \in ahead[j]
    <2>1. k \in 1..n
      BY <1>2
    <2>2. key[i] \in Keys(m) /\ key[j] \in Keys(m) /\ key[k] \in Keys(m)
      BY <1>3, <2>1
    <2>3. Precedes(key[i], key[j]) \/ (key[i] = key[j] /\ i < j)
      BY <1>2, <1>7
    <2>4. Precedes(key[k], key[i]) \/ (key[k] = key[i] /\ k < i)
      BY <1>2, <1>7, <2>1
    <2>5. CASE key[i] = key[j] /\ i < j /\ key[k] = key[i] /\ k < i
      BY <1>2, <2>1, <2>5
    <2>6. CASE Precedes(key[i], key[j]) /\ Precedes(key[k], key[i])
      <3>1. Precedes(key[k], key[j])
        BY <2>2, <2>6, PrecedesOrder
      <3> QED
        BY <1>2, <2>1, <3>1
    <2>7. CASE Precedes(key[i], key[j]) /\ key[k] = key[i]
      BY <1>2, <2>1, <2>7
    <2>8. CASE key[i] = key[j] /\ Precedes(key[k], key[i])
      BY <1>2, <2>1, <2>8
    <2> QED
      BY <2>3, <2>4, <2>5, <2>6, <2>7, <2>8
  <1>8. /\ \A i, j \in 1..n : Cardinality(ahead[i]) = Cardinality(ahead[j]) => i = j
        /\ \A k \in 1..n : \E i \in 1..n : Cardinality(ahead[i]) = k - 1
    BY <1>1, <1>2, <1>5, <1>6, <1>7, PlacesByCounting
  <1>9. \A k \in 1..n : From(k) \in 1..n /\ Cardinality(ahead[From(k)]) = k - 1
    BY <1>8
  <1>10. \A k, l \in 1..n : From(k) = From(l) => k = l
    <2> SUFFICES ASSUME NEW k \in 1..n, NEW l \in 1..n, From(k) = From(l)
                 PROVE  k = l
      OBVIOUS
    <2>1. k - 1 = l - 1
      BY <1>9
    <2> QED
      BY <1>1, <2>1
  <1> HIDE DEF From
  <1>11. t \in [1..n -> S]
    BY <1>1, <1>4, <1>9
  <1>12. t \in Seq(S) /\ Len(t) = n
    <2>1. t \in Seq(S)
      BY <1>1, <1>11, SeqDef
    <2>2. DOMAIN t = 1..n /\ DOMAIN t = 1..Len(t) /\ Len(t) \in Nat
      BY <1>11, <2>1, LenProperties
    <2> QED
      BY <1>1, <2>1, <2>2
  <1>13. ToSet(t) \subseteq ToSet(s)
    BY <1>1, <1>4, <1>9 DEF ToSet
  <1>14. ASSUME IsInjective(s), NEW k \in 1..n, NEW l \in 1..n, t[k] = t[l]
         PROVE  k = l
    <2>1. s[From(k)] = s[From(l)] /\ From(k) \in DOMAIN s /\ From(l) \in DOMAIN s
      BY <1>1, <1>4, <1>9, <1>14
    <2>2. From(k) = From(l)
      BY <1>14, <2>1 DEF IsInjective
    <2> QED
      BY <1>10, <2>2
  <1>15. IsInjective(s) => IsInjective(t)
    BY <1>11, <1>14 DEF IsInjective
  <1> QED
    BY <1>12, <1>13, <1>15 DEF n, t

\* A finite set is listed without repetitions.
LEMMA ListIs ==
  ASSUME NEW S, IsFiniteSet(S)
  PROVE  /\ SetToSeq(S) \in Seq(S) /\ Len(SetToSeq(S)) = Cardinality(S)
         /\ IsInjective(SetToSeq(S)) /\ Cardinality(S) \in Nat
PROOF
  <1> DEFINE n == Cardinality(S)
             f == SetToSeq(S)
  <1>1. n \in Nat /\ ExistsBijection(1..n, S)
    BY FS_CardinalityType
  <1>2. \E g \in [1..n -> S] : IsInjective(g)
    BY <1>1 DEF ExistsBijection, Bijection, Injection, IsInjective
  <1>3. f \in [1..n -> S] /\ IsInjective(f)
    BY <1>2 DEF SetToSeq
  <1> HIDE DEF n, f
  <1>4. f \in Seq(S)
    BY <1>1, <1>3, SeqDef
  <1>5. DOMAIN f = 1..n /\ DOMAIN f = 1..Len(f) /\ Len(f) \in Nat
    BY <1>3, <1>4, LenProperties
  <1>6. Len(f) = n
    BY <1>1, <1>5
  <1> QED
    BY <1>1, <1>3, <1>4, <1>6 DEF n, f

\* The first of a list are some of it.
LEMMA TakeIs ==
  ASSUME NEW S, NEW s \in Seq(S), NEW k \in Nat
  PROVE  /\ Take(s, k) \in Seq(S) /\ Len(Take(s, k)) <= Len(s)
         /\ ToSet(Take(s, k)) \subseteq ToSet(s)
PROOF
  <1> DEFINE n == IF Len(s) < k THEN Len(s) ELSE k
             t == SubSeq(s, 1, n)
  <1>1. Len(s) \in Nat /\ DOMAIN s = 1..Len(s)
    BY LenProperties
  <1>2. n \in Nat /\ n <= Len(s)
    BY <1>1
  <1>3. Take(s, k) = t
    BY DEF Take
  <1> HIDE DEF n
  <1>4. \A i \in 1..n : i \in 1..Len(s) /\ s[i] \in S
    <2>1. \A i \in 1..n : i \in 1..Len(s)
      BY <1>1, <1>2
    <2> QED
      BY <2>1, ElementOfSeq
  <1>5. t \in Seq(S)
    <2>1. 1 \in Int /\ n \in Int
      BY <1>2
    <2> QED
      BY <1>4, <2>1, SubSeqProperties
  <1>6. Len(t) = n /\ \A i \in 1..n : t[i] = s[i]
    BY <1>1, <1>2, SubSeqProperties
  <1> HIDE DEF t
  <1>7. DOMAIN t = 1..n
    BY <1>5, <1>6, LenProperties
  <1>8. ToSet(t) \subseteq ToSet(s)
    BY <1>1, <1>4, <1>6, <1>7 DEF ToSet
  <1> QED
    BY <1>2, <1>3, <1>5, <1>6, <1>8
-----------------------------------------------------------------------------
(* What the tools return                                                    *)

\* A row of a document that is not superseded, of a company that is asked about.
AskedRow(q, r) == r.effective /\ (q.corps = <<>> \/ r.corp \in ToSet(q.corps))

FigureRows(q) ==
  {f \in db.facts : /\ AskedRow(q, f) /\ f.metric = q.metric /\ f.basis = q.basis
                    /\ q.scope \in {"any", f.scope}}
EventRowsOf(q) == {e \in db.events : AskedRow(q, e)}
SectionRowsOf(q) == {s \in db.sections : AskedRow(q, s)}

LEMMA PairIsKey ==
  ASSUME NEW x \in Int, NEW y \in Int
  PROVE  <<x, y>> \in Keys(2) /\ <<x, - y>> \in Keys(2) /\ <<- x, y>> \in Keys(2)
PROOF
  <1>1. \A a, b \in Int : <<a, b>> \in Keys(2)
    <2> TAKE a, b \in Int
    <2>1. <<a, b>> \in [1..2 -> Int]
      OBVIOUS
    <2> QED
      BY <2>1 DEF Keys
  <1>2. - x \in Int /\ - y \in Int
    OBVIOUS
  <1> QED
    BY <1>1, <1>2

LEMMA FiguresSorted ==
  ASSUME db \in Databases, NEW rows, rows \subseteq db.facts,
         NEW t, t = SortedBy(SetToSeq(rows), LAMBDA r : <<r.corp, - r.fy>>)
  PROVE  t \in Seq(rows) /\ IsInjective(t)
PROOF
  <1> DEFINE s == SetToSeq(rows)
             key == [i \in DOMAIN s |-> <<s[i].corp, - s[i].fy>>]
  <1>1. IsFiniteSet(rows) /\ \A r \in rows : r.corp \in Int /\ r.fy \in Int
    <2>1. IsFiniteSet(db.facts) /\ \A r \in db.facts : r.corp \in Int /\ r.fy \in Int
      BY RowsAssumption
    <2> QED
      BY <2>1, FS_Subset
  <1>2. s \in Seq(rows) /\ IsInjective(s)
    BY <1>1, ListIs
  <1> HIDE DEF s
  <1>3. DOMAIN s = 1..Len(s) /\ \A i \in 1..Len(s) : s[i] \in rows
    BY <1>2, LenProperties, ElementOfSeq
  <1>4. key \in [1..Len(s) -> Keys(2)]
    <2>1. \A i \in 1..Len(s) : s[i].corp \in Int /\ s[i].fy \in Int
      BY <1>1, <1>3
    <2>2. \A i \in 1..Len(s) : <<s[i].corp, - s[i].fy>> \in Keys(2)
      BY <2>1, PairIsKey
    <2> QED
      BY <1>3, <2>2
  <1>5. \A i \in DOMAIN s : key[i] = <<s[i].corp, - s[i].fy>>
    OBVIOUS
  <1> HIDE DEF key
  <1>6. AheadBy(s, key)
          = [i \in DOMAIN s |->
              {j \in DOMAIN s : \/ Precedes(<<s[j].corp, - s[j].fy>>, <<s[i].corp, - s[i].fy>>)
                                \/ <<s[j].corp, - s[j].fy>> = <<s[i].corp, - s[i].fy>> /\ j < i}]
    BY <1>5 DEF AheadBy
  <1>7. t = SortedByKeys(s, key)
    BY <1>6 DEF SortedBy, SortedByKeys, s
  <1> QED
    BY <1>2, <1>4, <1>7, SortedIs

LEMMA LatestFirst ==
  ASSUME NEW rows, IsFiniteSet(rows), \A r \in rows : r.id \in Int /\ r.year \in Int,
         NEW t, t = SortedBy(SetToSeq(rows), LAMBDA r : <<- r.year, r.id>>)
  PROVE  t \in Seq(rows) /\ Len(t) = Cardinality(rows) /\ Cardinality(rows) \in Nat
PROOF
  <1> DEFINE s == SetToSeq(rows)
             key == [i \in DOMAIN s |-> <<- s[i].year, s[i].id>>]
  <1>1. s \in Seq(rows) /\ Len(s) = Cardinality(rows) /\ Cardinality(rows) \in Nat
    BY ListIs
  <1> HIDE DEF s
  <1>2. DOMAIN s = 1..Len(s) /\ \A i \in 1..Len(s) : s[i] \in rows
    BY <1>1, LenProperties, ElementOfSeq
  <1>3. key \in [1..Len(s) -> Keys(2)]
    <2>1. \A i \in 1..Len(s) : s[i].id \in Int /\ s[i].year \in Int
      BY <1>2
    <2>2. \A i \in 1..Len(s) : <<- s[i].year, s[i].id>> \in Keys(2)
      BY <2>1, PairIsKey
    <2> QED
      BY <1>2, <2>2
  <1>4. \A i \in DOMAIN s : key[i] = <<- s[i].year, s[i].id>>
    OBVIOUS
  <1> HIDE DEF key
  <1>5. AheadBy(s, key)
          = [i \in DOMAIN s |->
              {j \in DOMAIN s : \/ Precedes(<<- s[j].year, s[j].id>>, <<- s[i].year, s[i].id>>)
                                \/ <<- s[j].year, s[j].id>> = <<- s[i].year, s[i].id>> /\ j < i}]
    BY <1>4 DEF AheadBy
  <1>6. t = SortedByKeys(s, key)
    BY <1>5 DEF SortedBy, SortedByKeys, s
  <1>7. SortedByKeys(s, key) \in Seq(rows) /\ Len(SortedByKeys(s, key)) = Len(s)
    <2>1. 2 \in Nat
      OBVIOUS
    <2> QED
      BY ONLY <1>1, <1>3, <2>1, SortedIs
  <1> QED
    BY <1>1, <1>6, <1>7

LEMMA EarliestFirst ==
  ASSUME NEW rows, IsFiniteSet(rows), \A r \in rows : r.id \in Int /\ r.year \in Int,
         NEW t, t = SortedBy(SetToSeq(rows), LAMBDA r : <<r.year, r.id>>)
  PROVE  t \in Seq(rows) /\ Len(t) = Cardinality(rows) /\ Cardinality(rows) \in Nat
PROOF
  <1> DEFINE s == SetToSeq(rows)
             key == [i \in DOMAIN s |-> <<s[i].year, s[i].id>>]
  <1>1. s \in Seq(rows) /\ Len(s) = Cardinality(rows) /\ Cardinality(rows) \in Nat
    BY ListIs
  <1> HIDE DEF s
  <1>2. DOMAIN s = 1..Len(s) /\ \A i \in 1..Len(s) : s[i] \in rows
    BY <1>1, LenProperties, ElementOfSeq
  <1>3. key \in [1..Len(s) -> Keys(2)]
    <2>1. \A i \in 1..Len(s) : s[i].id \in Int /\ s[i].year \in Int
      BY <1>2
    <2>2. \A i \in 1..Len(s) : <<s[i].year, s[i].id>> \in Keys(2)
      BY <2>1, PairIsKey
    <2> QED
      BY <1>2, <2>2
  <1>4. \A i \in DOMAIN s : key[i] = <<s[i].year, s[i].id>>
    OBVIOUS
  <1> HIDE DEF key
  <1>5. AheadBy(s, key)
          = [i \in DOMAIN s |->
              {j \in DOMAIN s : \/ Precedes(<<s[j].year, s[j].id>>, <<s[i].year, s[i].id>>)
                                \/ <<s[j].year, s[j].id>> = <<s[i].year, s[i].id>> /\ j < i}]
    BY <1>4 DEF AheadBy
  <1>6. t = SortedByKeys(s, key)
    BY <1>5 DEF SortedBy, SortedByKeys, s
  <1>7. SortedByKeys(s, key) \in Seq(rows) /\ Len(SortedByKeys(s, key)) = Len(s)
    <2>1. 2 \in Nat
      OBVIOUS
    <2> QED
      BY ONLY <1>1, <1>3, <2>1, SortedIs
  <1> QED
    BY <1>1, <1>6, <1>7

\* A figure for the change of an amount, the latest first, or the largest.
LEMMA OneKey ==
  ASSUME NEW x \in Int
  PROVE  <<- x>> \in Keys(1)
PROOF
  <1>1. - x \in Int
    OBVIOUS
  <1>2. <<- x>> \in [1..1 -> Int]
    BY <1>1
  <1> QED
    BY <1>2 DEF Keys

LEMMA LargestFirst ==
  ASSUME NEW rows, NEW s \in Seq(rows), \A r \in rows : r.value \in Int,
         NEW t, t = SortedBy(s, LAMBDA o : <<- o.value>>)
  PROVE  t \in Seq(rows) /\ Len(t) = Len(s)
PROOF
  <1> DEFINE key == [i \in DOMAIN s |-> <<- s[i].value>>]
  <1>1. DOMAIN s = 1..Len(s) /\ \A i \in 1..Len(s) : s[i] \in rows
    BY LenProperties, ElementOfSeq
  <1>2. key \in [1..Len(s) -> Keys(1)]
    <2>1. \A i \in 1..Len(s) : <<- s[i].value>> \in Keys(1)
      BY <1>1, OneKey
    <2> QED
      BY <1>1, <2>1
  <1>3. \A i \in DOMAIN s : key[i] = <<- s[i].value>>
    OBVIOUS
  <1> HIDE DEF key
  <1>4. AheadBy(s, key)
          = [i \in DOMAIN s |->
              {j \in DOMAIN s : \/ Precedes(<<- s[j].value>>, <<- s[i].value>>)
                                \/ <<- s[j].value>> = <<- s[i].value>> /\ j < i}]
    BY <1>3 DEF AheadBy
  <1>5. t = SortedByKeys(s, key)
    BY <1>4 DEF SortedBy, SortedByKeys
  <1> QED
    BY <1>2, <1>5, SortedIs

LEMMA LastYearFirst ==
  ASSUME NEW rows, NEW s \in Seq(rows), \A r \in rows : r.fy \in Int,
         NEW t, t = SortedBy(s, LAMBDA f : <<- f.fy>>)
  PROVE  t \in Seq(rows) /\ Len(t) = Len(s)
PROOF
  <1> DEFINE key == [i \in DOMAIN s |-> <<- s[i].fy>>]
  <1>1. DOMAIN s = 1..Len(s) /\ \A i \in 1..Len(s) : s[i] \in rows
    BY LenProperties, ElementOfSeq
  <1>2. key \in [1..Len(s) -> Keys(1)]
    <2>1. \A i \in 1..Len(s) : <<- s[i].fy>> \in Keys(1)
      BY <1>1, OneKey
    <2> QED
      BY <1>1, <2>1
  <1>3. \A i \in DOMAIN s : key[i] = <<- s[i].fy>>
    OBVIOUS
  <1> HIDE DEF key
  <1>4. AheadBy(s, key)
          = [i \in DOMAIN s |->
              {j \in DOMAIN s : \/ Precedes(<<- s[j].fy>>, <<- s[i].fy>>)
                                \/ <<- s[j].fy>> = <<- s[i].fy>> /\ j < i}]
    BY <1>3 DEF AheadBy
  <1>5. t = SortedByKeys(s, key)
    BY <1>4 DEF SortedBy, SortedByKeys
  <1> QED
    BY <1>2, <1>5, SortedIs

(* One figure for each company and year: of two rows for the same, one     *)
(* precedes the other, and only that one is the best.                      *)
LEMMA BestIsOne ==
  ASSUME db \in Databases, NEW rows, rows \subseteq db.facts,
         NEW r \in Best(rows), NEW o \in Best(rows), r.corp = o.corp, r.fy = o.fy
  PROVE  r = o
PROOF
  <1>1. \A x \in rows : /\ x.place \in Int /\ x.report \in Int /\ x.date \in Int /\ x.id \in Int
    BY RowsAssumption
  <1>2. \A x \in rows : SortKey(x) \in Keys(7)
    <2> TAKE x \in rows
    <2>1. x.place \in Int /\ x.report \in Int /\ - x.date \in Int
      <3>1. x.place \in Int /\ x.report \in Int /\ x.date \in Int
        BY <1>1
      <3> QED
        BY <3>1
    <2>2. \A flag : Preferred(flag) \in Int
      BY DEF Preferred
    <2>3. SortKey(x) \in [1..7 -> Int]
      <3> DEFINE k1 == Preferred(x.base = x.fy)
                 k2 == Preferred(Cumulative(x))
                 k3 == Preferred(x.xbrl)
                 k4 == Preferred(x.sure)
                 d == - x.date
                 p == x.place
                 q == x.report
      <3>1. k1 \in Int /\ k2 \in Int /\ k3 \in Int /\ k4 \in Int /\ d \in Int /\ p \in Int /\ q \in Int
        BY <2>1, <2>2
      <3>2. SortKey(x) = <<p, q, k1, k2, k3, k4, d>>
        BY DEF SortKey
      <3> HIDE DEF k1, k2, k3, k4, d, p, q
      <3>3. <<p, q, k1, k2, k3, k4, d>> \in [1..7 -> Int]
        BY <3>1
      <3> QED
        BY <3>2, <3>3
    <2> QED
      BY <2>3 DEF Keys
  <1>3. SUFFICES ASSUME r # o PROVE FALSE
    OBVIOUS
  <1>4. r \in rows /\ o \in rows
    BY DEF Best
  <1>5. /\ Precedes(SortKey(r), SortKey(o)) \/ (SortKey(r) = SortKey(o) /\ r.id < o.id)
        /\ Precedes(SortKey(o), SortKey(r)) \/ (SortKey(o) = SortKey(r) /\ o.id < r.id)
    BY <1>3, <1>4 DEF Best
  <1>6. SortKey(r) \in Keys(7) /\ SortKey(o) \in Keys(7)
    BY <1>2, <1>4
  <1>7. ~ (Precedes(SortKey(r), SortKey(o)) /\ Precedes(SortKey(o), SortKey(r)))
    BY <1>6, PrecedesOrder
  <1>8. SortKey(r) = SortKey(o) => ~ Precedes(SortKey(r), SortKey(o))
    BY <1>6, PrecedesOrder
  <1>9. r.id \in Int /\ o.id \in Int
    BY <1>1, <1>4
  <1> QED
    BY <1>5, <1>7, <1>8, <1>9

\* Figures, and of each company and year only one.
OneEach(t) == \A i, j \in DOMAIN t : i # j => t[i].corp # t[j].corp \/ t[i].fy # t[j].fy

\* fact_query() returns amounts of documents that are not superseded, of the
\* companies that are asked about, and of each company and year only one.
LEMMA FactsAre ==
  ASSUME db \in Databases, NEW q, NEW years,
         NEW t, t = FactQuery(db, q.corps, q.metric, years, q.basis, q.scope)
  PROVE  t \in Seq(FigureRows(q)) /\ OneEach(t)
PROOF
  <1> DEFINE all == Matching(db, q.corps, q.metric, years, q.basis, q.scope)
             rows == Best(all)
  <1>1. rows \subseteq all /\ all \subseteq db.facts
    BY DEF Best, Matching
  <1>2. all \subseteq FigureRows(q)
    BY DEF Matching, FigureRows, AskedRow
  <1>3. \A r, o \in rows : r.corp = o.corp /\ r.fy = o.fy => r = o
    BY <1>1, BestIsOne
  <1>4. t = SortedBy(SetToSeq(rows), LAMBDA r : <<r.corp, - r.fy>>)
    BY DEF FactQuery
  <1> HIDE DEF rows, all
  <1>5. t \in Seq(rows) /\ IsInjective(t)
    <2>1. rows \subseteq db.facts
      BY <1>1
    <2> QED
      BY <1>4, <2>1, FiguresSorted
  <1>6. \A i \in DOMAIN t : t[i] \in rows
    BY <1>5, LenProperties, ElementOfSeq
  <1>7. \A i, j \in DOMAIN t : i # j => t[i] # t[j]
    BY <1>5 DEF IsInjective
  <1>8. t \in Seq(FigureRows(q))
    <2>1. Len(t) \in Nat /\ t \in [1..Len(t) -> rows]
      BY <1>5, LenProperties
    <2>2. rows \subseteq FigureRows(q)
      BY <1>1, <1>2
    <2>3. t \in [1..Len(t) -> FigureRows(q)]
      BY <2>1, <2>2
    <2> QED
      BY <2>1, <2>3, SeqDef
  <1>9. OneEach(t)
    BY <1>3, <1>6, <1>7 DEF OneEach
  <1> QED
    BY <1>8, <1>9

\* A list of some rows is a list of more rows.
LEMMA ListOfMore ==
  ASSUME NEW S, NEW T, S \subseteq T, NEW t \in Seq(S)
  PROVE  t \in Seq(T)
PROOF
  <1>1. Len(t) \in Nat /\ t \in [1..Len(t) -> S]
    BY LenProperties
  <1>2. t \in [1..Len(t) -> T]
    BY <1>1
  <1> QED
    BY <1>1, <1>2, SeqDef

LEMMA RowsFinite ==
  ASSUME db \in Databases, NEW q
  PROVE  /\ IsFiniteSet(EventRowsOf(q)) /\ Cardinality(EventRowsOf(q)) \in Nat
         /\ \A e \in EventRowsOf(q) : e.id \in Int /\ e.year \in Int
PROOF
  <1>1. IsFiniteSet(db.events) /\ \A e \in db.events : e.id \in Int /\ e.year \in Int
    BY RowsAssumption
  <1>2. EventRowsOf(q) \subseteq db.events
    BY DEF EventRowsOf
  <1>3. IsFiniteSet(EventRowsOf(q))
    BY <1>1, <1>2, FS_Subset
  <1> QED
    BY <1>1, <1>2, <1>3, FS_CardinalityType

\* event_query() returns at most the events of such documents.
LEMMA EventsAre ==
  ASSUME db \in Databases, NEW q, NEW domain, NEW kinds, NEW year,
         NEW t, t = EventQuery(db, q.corps, domain, kinds, year)
  PROVE  t \in Seq(EventRowsOf(q)) /\ Len(t) <= Cardinality(EventRowsOf(q))
PROOF
  <1> DEFINE rows == {e \in db.events :
                        /\ e.effective
                        /\ e.corp \in ToSet(q.corps) /\ e.domain = domain
                        /\ kinds = {} \/ e.kind \in kinds
                        /\ year \in {0, e.year}}
             all == SortedBy(SetToSeq(rows), LAMBDA e : <<- e.year, e.id>>)
  <1>1. rows \subseteq EventRowsOf(q)
    BY DEF EventRowsOf, AskedRow
  <1>2. t = Take(all, EventRows)
    BY DEF EventQuery
  <1> HIDE DEF rows
  <1>3. IsFiniteSet(rows) /\ Cardinality(rows) <= Cardinality(EventRowsOf(q))
    BY <1>1, RowsFinite, FS_Subset
  <1>4. all \in Seq(rows) /\ Len(all) = Cardinality(rows) /\ Cardinality(rows) \in Nat
    <2>1. \A r \in rows : r.id \in Int /\ r.year \in Int
      BY <1>1, RowsFinite
    <2> QED
      BY <1>3, <2>1, LatestFirst
  <1> HIDE DEF all
  <1>5. t \in Seq(rows) /\ Len(t) <= Len(all)
    <2>1. EventRows \in Nat
      BY LimitsAssumption
    <2> QED
      BY <1>2, <1>4, <2>1, TakeIs
  <1>6. Len(t) \in Nat /\ Cardinality(EventRowsOf(q)) \in Nat
    BY <1>5, LenProperties, RowsFinite
  <1>7. Len(t) <= Cardinality(EventRowsOf(q))
    BY <1>3, <1>4, <1>5, <1>6
  <1> QED
    BY <1>1, <1>5, <1>7, ListOfMore

\* trace_chain() returns at most the contracts of such documents.
LEMMA ChainIs ==
  ASSUME db \in Databases, NEW q, q.corps \in Seq(Int), q.corps # <<>>, NEW year,
         NEW t, t = TraceChain(db, q.corps[1], year).linked
  PROVE  t \in Seq(EventRowsOf(q)) /\ Len(t) <= Cardinality(EventRowsOf(q))
PROOF
  <1> DEFINE nodes == {e \in db.events :
                         e.effective /\ e.corp = q.corps[1] /\ e.domain = "contract"
                           /\ year \in {0, e.year}}
             rows == {e \in nodes : e.kind = "terminated"}
  <1>1. q.corps[1] \in ToSet(q.corps)
    <2>1. 1 \in DOMAIN q.corps
      <3>1. Len(q.corps) \in Nat /\ DOMAIN q.corps = 1..Len(q.corps) /\ Len(q.corps) # 0
        BY LenProperties, EmptySeq
      <3> QED
        BY <3>1
    <2> QED
      BY <2>1 DEF ToSet
  <1>2. rows \subseteq EventRowsOf(q)
    BY <1>1 DEF EventRowsOf, AskedRow
  <1>3. t = SortedBy(SetToSeq(rows), LAMBDA e : <<e.year, e.id>>)
    BY DEF TraceChain
  <1> HIDE DEF rows
  <1>4. IsFiniteSet(rows) /\ Cardinality(rows) <= Cardinality(EventRowsOf(q))
    BY <1>2, RowsFinite, FS_Subset
  <1>5. \A r \in rows : r.id \in Int /\ r.year \in Int
    BY <1>2, RowsFinite
  <1>6. t \in Seq(rows) /\ Len(t) = Cardinality(rows) /\ Cardinality(rows) \in Nat
    BY <1>3, <1>4, <1>5, EarliestFirst
  <1> QED
    BY <1>2, <1>4, <1>6, ListOfMore

\* get_section() returns sections of such documents.
LEMMA SectionsAre ==
  ASSUME db \in Databases, NEW q, NEW paths, NEW year, NEW subtype,
         NEW t, t = GetSection(db, q.corps, paths, year, subtype)
  PROVE  t \in Seq(SectionRowsOf(q))
PROOF
  <1> DEFINE rows == {s \in db.sections :
                        /\ s.effective
                        /\ s.corp \in ToSet(q.corps)
                        /\ \E p \in paths : IsPrefix(p, s.path)
                        /\ year \in {0, s.year}
                        /\ subtype \in {"any", s.subtype}}
             all == SortedBy(SetToSeq(rows), LAMBDA s : <<- s.year, s.id>>)
  <1>1. rows \subseteq SectionRowsOf(q) /\ rows \subseteq db.sections
    BY DEF SectionRowsOf, AskedRow
  <1>2. t = Take(all, SectionRows)
    BY DEF GetSection
  <1> HIDE DEF rows
  <1>3. IsFiniteSet(db.sections) /\ \A s \in db.sections : s.id \in Int /\ s.year \in Int
    BY RowsAssumption
  <1>4. IsFiniteSet(rows) /\ \A r \in rows : r.id \in Int /\ r.year \in Int
    BY <1>1, <1>3, FS_Subset
  <1>5. all \in Seq(rows)
    BY <1>4, LatestFirst
  <1> HIDE DEF all
  <1>6. t \in Seq(rows)
    <2>1. SectionRows \in Nat
      BY LimitsAssumption
    <2> QED
      BY <1>2, <1>5, <2>1, TakeIs
  <1> QED
    BY <1>1, <1>6, ListOfMore

\* What was found belongs to the question.
FoundIs(q, f) ==
  /\ f.facts \in Seq(FigureRows(q)) /\ OneEach(f.facts)
  /\ f.events \in Seq(EventRowsOf(q)) /\ Len(f.events) <= Cardinality(EventRowsOf(q))
  /\ f.linked \in Seq(EventRowsOf(q)) /\ Len(f.linked) <= Cardinality(EventRowsOf(q))
  /\ f.sections \in Seq(SectionRowsOf(q))

\* What is computed is computed from it, and a rate from an amount that is not 0.
ComputedIs(f, c) ==
  c.ok =>
    /\ ToSet(c.operands) \subseteq ToSet(f.facts)
    /\ c.op = "delta_pct" =>
         /\ c.operands[1] \in ToSet(f.facts) /\ c.operands[2] \in ToSet(f.facts)
         /\ c.operands[2].value # 0

LEMMA NothingIsFound ==
  ASSUME db \in Databases, NEW q
  PROVE  FoundIs(q, NothingFound)
PROOF
  <1>1. \A S : <<>> \in Seq(S)
    BY EmptySeq
  <1>2. Len(<<>>) = 0 /\ DOMAIN <<>> = {}
    OBVIOUS
  <1>3. Cardinality(EventRowsOf(q)) \in Nat
    BY RowsFinite
  <1>4. 0 <= Cardinality(EventRowsOf(q))
    BY <1>3
  <1>5. /\ NothingFound.facts = <<>> /\ NothingFound.events = <<>> /\ NothingFound.linked = <<>>
        /\ NothingFound.sections = <<>>
    BY DEF NothingFound
  <1> QED
    BY <1>1, <1>2, <1>4, <1>5 DEF FoundIs, OneEach

LEMMA EvidenceIs ==
  ASSUME db \in Databases, NEW q, q.corps \in Seq(Int), NEW f \in Evidence(q)
  PROVE  FoundIs(q, f)
PROOF
  <1> DEFINE direct == Addressed(q)
  <1>1. /\ f.facts = direct.facts /\ f.events = direct.events /\ f.linked = direct.linked
        /\ f.sections = direct.sections
    BY DEF Evidence, Addressed, NothingFound
  <1>2. /\ direct.facts = FactsFor(q) /\ direct.events = EventsFor(q)
        /\ direct.linked = ChainFor(q).linked
        /\ direct.sections = IF q.paths = {} THEN <<>>
                             ELSE GetSection(db, q.corps, q.paths, q.year, q.subtype)
    BY DEF Addressed, NothingFound
  <1> HIDE DEF direct
  <1>3. /\ <<>> \in Seq(FigureRows(q)) /\ <<>> \in Seq(EventRowsOf(q)) /\ <<>> \in Seq(SectionRowsOf(q))
        /\ Len(<<>>) <= Cardinality(EventRowsOf(q)) /\ DOMAIN <<>> = {}
    <2>1. Cardinality(EventRowsOf(q)) \in Nat /\ Len(<<>>) = 0 /\ DOMAIN <<>> = {}
      BY RowsFinite
    <2>2. Len(<<>>) <= Cardinality(EventRowsOf(q))
      BY <2>1
    <2> QED
      BY <2>1, <2>2, EmptySeq
  <1>4. FactsFor(q) \in Seq(FigureRows(q)) /\ OneEach(FactsFor(q))
    <2>1. CASE FactsFor(q) = <<>>
      BY <1>3, <2>1 DEF OneEach
    <2>2. CASE FactsFor(q) # <<>>
      <3> DEFINE years == IF q.years = {} THEN DefaultYears ELSE q.years
      <3>1. FactsFor(q) = FactQuery(db, q.corps, q.metric, years, q.basis, q.scope)
        BY <2>2 DEF FactsFor
      <3> DEFINE t == FactsFor(q)
      <3>2. t = FactQuery(db, q.corps, q.metric, years, q.basis, q.scope)
        BY <3>1
      <3> HIDE DEF years, t
      <3>3. t \in Seq(FigureRows(q)) /\ OneEach(t)
        BY <3>2, FactsAre
      <3> QED
        BY <3>3 DEF t
    <2> QED
      BY <2>1, <2>2
  <1>5. EventsFor(q) \in Seq(EventRowsOf(q)) /\ Len(EventsFor(q)) <= Cardinality(EventRowsOf(q))
    <2>1. EventsFor(q) = EventQuery(db, q.corps, q.event, q.kinds, q.year) \/ EventsFor(q) = <<>>
      BY DEF EventsFor
    <2> QED
      BY <1>3, <2>1, EventsAre
  <1>6. /\ ChainFor(q).linked \in Seq(EventRowsOf(q))
        /\ Len(ChainFor(q).linked) <= Cardinality(EventRowsOf(q))
    <2>1. CASE Classify(q) = "lifecycle" /\ q.corps # <<>>
      <3>1. ChainFor(q).linked = TraceChain(db, q.corps[1], q.year).linked
        BY <2>1 DEF ChainFor
      <3> QED
        BY <2>1, <3>1, ChainIs
    <2>2. CASE ~ (Classify(q) = "lifecycle" /\ q.corps # <<>>)
      <3>1. ChainFor(q).linked = <<>>
        BY <2>2 DEF ChainFor
      <3> QED
        BY <1>3, <3>1
    <2> QED
      BY <2>1, <2>2
  <1>7. f.sections \in Seq(SectionRowsOf(q))
    BY <1>1, <1>2, <1>3, SectionsAre
  <1> QED
    BY <1>1, <1>2, <1>4, <1>5, <1>6, <1>7 DEF FoundIs

LEMMA RowsTyped ==
  ASSUME db \in Databases, NEW q
  PROVE  \A r \in FigureRows(q) : r.value \in Int /\ r.fy \in Int
PROOF
  <1>1. \A r \in db.facts : r.value \in Int /\ r.fy \in Int
    BY RowsAssumption
  <1> QED
    BY <1>1 DEF FigureRows

LEMMA ComputedFrom ==
  ASSUME db \in Databases, NEW q, NEW f, FoundIs(q, f)
  PROVE  ComputedIs(f, Computed(q, f.facts))
PROOF
  <1> DEFINE s == f.facts
             rows == ToSet(s)
             latest == SortedBy(s, LAMBDA r : <<- r.fy>>)
             c == Computed(q, s)
  <1>1. s \in Seq(FigureRows(q)) /\ s \in Seq(rows) /\ \A r \in rows : r.value \in Int /\ r.fy \in Int
    <2>1. s \in Seq(FigureRows(q))
      BY DEF FoundIs
    <2>2. Len(s) \in Nat /\ DOMAIN s = 1..Len(s) /\ s \in [1..Len(s) -> FigureRows(q)]
      BY <2>1, LenProperties
    <2>3. s \in [1..Len(s) -> rows] /\ rows \subseteq FigureRows(q)
      BY <2>2 DEF ToSet
    <2> HIDE DEF s, rows
    <2>4. s \in Seq(rows)
      BY <2>2, <2>3, SeqDef
    <2> QED
      BY <2>1, <2>3, <2>4, RowsTyped
  <1>2. \A t \in Seq(rows) : ToSet(t) \subseteq rows
    <2> TAKE t \in Seq(rows)
    <2>1. \A i \in DOMAIN t : t[i] \in rows
      BY LenProperties, ElementOfSeq
    <2> QED
      BY <2>1 DEF ToSet
  <1>3. ASSUME c.ok
        PROVE  \/ c = Compute("compare", s)
               \/ Len(s) >= 2 /\ c = Compute("delta_pct", SubSeq(latest, 1, 2))
    <2>1. Len(s) \in Nat
      BY <1>1, LenProperties
    <2>2. ~ (Classify(q) # "compare" \/ Len(s) < 2)
      BY <1>3 DEF Computed, NotComputed
    <2>3. Len(s) >= 2
      <3>1. ~ (Len(s) < 2)
        BY <2>2
      <3> QED
        BY <2>1, <3>1
    <2>4. c = Compute("delta_pct", SubSeq(latest, 1, 2)) \/ c = Compute("compare", s)
      BY <2>2 DEF Computed
    <2> QED
      BY <2>3, <2>4
  <1> HIDE DEF s, rows, c
  <1>4. ASSUME c.ok, c = Compute("compare", s)
        PROVE  ToSet(c.operands) \subseteq rows /\ c.op = "compare"
    <2>1. c.op = "compare" /\ Computable("compare", s)
      BY <1>4 DEF Compute
    <2>2. c.operands = SortedBy(s, LAMBDA o : <<- o.value>>)
      BY <1>4, <2>1 DEF Compute
    <2>3. c.operands \in Seq(rows)
      BY <1>1, <2>2, LargestFirst
    <2> QED
      BY <1>2, <2>1, <2>3
  <1>5. ASSUME c.ok, Len(s) >= 2, c = Compute("delta_pct", SubSeq(latest, 1, 2))
        PROVE  /\ ToSet(c.operands) \subseteq rows
               /\ c.operands[1] \in rows /\ c.operands[2] \in rows /\ c.operands[2].value # 0
    <2> DEFINE two == SubSeq(latest, 1, 2)
    <2>1. c.operands = two /\ Computable("delta_pct", two)
      BY <1>5 DEF Compute
    <2>2. two[2].value # 0
      BY <2>1 DEF Computable
    <2>3. latest \in Seq(rows) /\ Len(latest) = Len(s)
      BY <1>1, LastYearFirst
    <2> HIDE DEF latest
    <2>4. Len(s) \in Nat
      BY <1>1, LenProperties
    <2>5. 1 \in 1..Len(latest) /\ 2 \in 1..Len(latest)
      BY <1>5, <2>3, <2>4
    <2>6. \A i \in 1..2 : latest[i] \in rows
      <3>1. \A i \in 1..2 : i \in 1..Len(latest)
        BY <2>5
      <3> QED
        BY <2>3, <3>1, ElementOfSeq
    <2>7. two \in Seq(rows) /\ two[1] = latest[1] /\ two[2] = latest[2]
      <3>1. 1 \in Int /\ 2 \in Int /\ 1 \in 1..2 /\ 2 \in 1..2
        OBVIOUS
      <3>2. two \in Seq(rows)
        BY <2>6, <3>1, SubSeqProperties
      <3>3. two[1] = latest[1] /\ two[2] = latest[2]
        BY <2>3, <2>5
      <3> QED
        BY <3>2, <3>3
    <2>8. two[1] \in rows /\ two[2] \in rows
      BY <2>6, <2>7
    <2> QED
      BY <1>2, <2>1, <2>2, <2>7, <2>8
  <1> QED
    BY <1>3, <1>4, <1>5 DEF ComputedIs, s, rows, c
-----------------------------------------------------------------------------
(* Every number has a source                                                *)

\* The numbers that follow from the documents, one kind after the other.
LEMMA SupportIs ==
  ASSUME NEW q
  PROVE  LET N == SupportedNums(q)
             known == {e \in EventRowsOf(q) : e.known}
         IN  /\ \A r \in FigureRows(q) : Exact(r.value) \in N /\ Readable(r.value) \in N
             /\ \A e \in known : Readable(e.amount) \in N
             /\ \A S \in SUBSET known : Exact(SumOf(S)) \in N /\ Readable(SumOf(S)) \in N
             /\ \A a, b \in FigureRows(q) :
                  b.value # 0 => [digits |-> Magnitude(Change(a, b)), unit |-> "percent"] \in N
             /\ \A n \in 0..Cardinality(EventRowsOf(q)) : Count(n) \in N
             /\ \A s \in SectionRowsOf(q) : s.nums \subseteq N
PROOF
  <1> DEFINE N == SupportedNums(q)
             figures == {r.value : r \in FigureRows(q)}
             events == EventRowsOf(q)
             known == {e \in events : e.known}
             amounts == figures \cup {e.amount : e \in known} \cup {SumOf(S) : S \in SUBSET known}
             Rated(a, b) == ((a - b) * 100) \div Magnitude(b)
             changes == {Rated(a, b) : a \in figures, b \in figures \ {0}}
  <1>1. N = {Exact(v) : v \in amounts} \cup {Readable(v) : v \in amounts}
              \cup {[digits |-> Magnitude(c), unit |-> "percent"] : c \in changes}
              \cup {Count(n) : n \in 0..Cardinality(events)}
              \cup UNION {s.nums : s \in SectionRowsOf(q)}
    BY DEF SupportedNums, FigureRows, EventRowsOf, SectionRowsOf, AskedRow
  <1>2. \A r \in FigureRows(q) : r.value \in figures
    OBVIOUS
  <1>3. \A a, b \in FigureRows(q) : b.value # 0 => Change(a, b) \in changes
    <2> TAKE a, b \in FigureRows(q)
    <2> HAVE b.value # 0
    <2>1. b.value \in figures \ {0} /\ a.value \in figures
      BY <1>2
    <2>2. Change(a, b) = Rated(a.value, b.value)
      BY DEF Change
    <2> HIDE DEF Rated
    <2>3. Rated(a.value, b.value) \in changes
      BY <2>1
    <2> QED
      BY <2>2, <2>3
  <1>4. /\ \A e \in known : e.amount \in amounts
        /\ \A S \in SUBSET known : SumOf(S) \in amounts
        /\ figures \subseteq amounts
    OBVIOUS
  <1> HIDE DEF N, figures, events, known, amounts, changes
  <1>5. /\ \A v \in amounts : Exact(v) \in N /\ Readable(v) \in N
        /\ \A c \in changes : [digits |-> Magnitude(c), unit |-> "percent"] \in N
        /\ \A n \in 0..Cardinality(events) : Count(n) \in N
        /\ \A s \in SectionRowsOf(q) : s.nums \subseteq N
    BY <1>1
  <1>6. \A r \in FigureRows(q) : Exact(r.value) \in N /\ Readable(r.value) \in N
    BY <1>2, <1>4, <1>5
  <1>7. \A a, b \in FigureRows(q) :
          b.value # 0 => [digits |-> Magnitude(Change(a, b)), unit |-> "percent"] \in N
    BY <1>3, <1>5
  <1>8. /\ \A e \in known : Readable(e.amount) \in N
        /\ \A S \in SUBSET known : Exact(SumOf(S)) \in N /\ Readable(SumOf(S)) \in N
    BY <1>4, <1>5
  <1> QED
    BY <1>5, <1>6, <1>7, <1>8 DEF N, events, known

LEMMA NumsWithin ==
  ASSUME NEW text, NEW N, \A s \in text : s.nums \subseteq N
  PROVE  Nums(text) \subseteq N
PROOF
  BY DEF Nums

\* The rows of what was found, and the first of them.
LEMMA FoundRows ==
  ASSUME NEW q, NEW f, FoundIs(q, f)
  PROVE  /\ ToSet(f.facts) \subseteq FigureRows(q)
         /\ ToSet(f.events) \subseteq EventRowsOf(q)
         /\ ToSet(f.sections) \subseteq SectionRowsOf(q)
         /\ Len(f.events) \in Nat /\ Len(f.linked) \in Nat
         /\ DOMAIN f.events = 1..Len(f.events)
         /\ \A k \in Nat : /\ ToSet(Take(f.facts, k)) \subseteq FigureRows(q)
                           /\ ToSet(Take(f.linked, k)) \subseteq EventRowsOf(q)
PROOF
  <1>1. \A S : \A t \in Seq(S) : ToSet(t) \subseteq S /\ Len(t) \in Nat /\ DOMAIN t = 1..Len(t)
    <2> TAKE S
    <2> TAKE t \in Seq(S)
    <2>1. \A i \in DOMAIN t : t[i] \in S
      BY LenProperties, ElementOfSeq
    <2> QED
      BY <2>1, LenProperties DEF ToSet
  <1>2. /\ f.facts \in Seq(FigureRows(q)) /\ f.events \in Seq(EventRowsOf(q))
        /\ f.linked \in Seq(EventRowsOf(q)) /\ f.sections \in Seq(SectionRowsOf(q))
    BY DEF FoundIs
  <1>3. \A k \in Nat : /\ Take(f.facts, k) \in Seq(FigureRows(q))
                       /\ Take(f.linked, k) \in Seq(EventRowsOf(q))
    BY <1>2, TakeIs
  <1> QED
    BY <1>1, <1>2, <1>3

\* The lines of the events: each total is that of some of them.
LEMMA EventTextSourced ==
  ASSUME db \in Databases, NEW q, NEW f, FoundIs(q, f)
  PROVE  Nums(EventText(f)) \subseteq SupportedNums(q)
PROOF
  <1> DEFINE N == SupportedNums(q)
             events == f.events
             known == {e \in EventRowsOf(q) : e.known}
             group(k) == {i \in DOMAIN events : events[i].kind = k}
             paid(k) == {i \in group(k) : events[i].known /\ events[i].amount # 0}
             total(k) == Total(events, paid(k))
             readable(k) == IF paid(k) = {} THEN {} ELSE {Readable(total(k))}
             exact(k) == IF paid(k) = {} THEN {} ELSE {Exact(total(k))}
             nums(k) == {Count(Cardinality(group(k)))} \cup readable(k) \cup exact(k)
             cites(k) == {Len(f.facts) + i : i \in {j \in group(k) : j <= EventsCited}}
  <1>1. ASSUME NEW s \in EventText(f)
        PROVE  \/ s = Sentence({Count(Len(events))}, {}, {}, {})
               \/ \E k : s = Sentence(nums(k), readable(k), cites(k), {k})
    BY DEF EventText
  <1>2. Len(events) \in Nat /\ DOMAIN events = 1..Len(events)
        /\ Len(events) <= Cardinality(EventRowsOf(q)) /\ Cardinality(EventRowsOf(q)) \in Nat
        /\ \A i \in DOMAIN events : events[i] \in EventRowsOf(q)
    BY FoundRows, RowsFinite DEF FoundIs, ToSet
  <1>3. \A n \in 0..Len(events) : Count(n) \in N
    <2>1. \A n \in 0..Len(events) : n \in 0..Cardinality(EventRowsOf(q))
      BY <1>2
    <2> QED
      BY <2>1, SupportIs
  <1>4. \A k : Cardinality(group(k)) \in 0..Len(events)
    <2> TAKE k
    <2>1. group(k) \subseteq 1..Len(events)
      BY <1>2
    <2>2. IsFiniteSet(1..Len(events)) /\ Cardinality(1..Len(events)) = Len(events)
      <3> DEFINE m == Len(events)
      <3>1. m \in Nat /\ 1 \in Int /\ m \in Int
        BY <1>2
      <3> HIDE DEF m
      <3>2. IsFiniteSet(1..m) /\ Cardinality(1..m) = IF 1 > m THEN 0 ELSE m - 1 + 1
        BY <3>1, FS_Interval
      <3>3. Cardinality(1..m) = m
        BY <3>1, <3>2
      <3> QED
        BY <3>2, <3>3 DEF m
    <2> HIDE DEF group
    <2>3. IsFiniteSet(group(k)) /\ Cardinality(group(k)) <= Len(events)
      BY <2>1, <2>2, FS_Subset
    <2>4. Cardinality(group(k)) \in Nat
      BY <2>3, FS_CardinalityType
    <2> QED
      BY <1>2, <2>3, <2>4
  <1>5. \A k : Exact(total(k)) \in N /\ Readable(total(k)) \in N
    <2> TAKE k
    <2> DEFINE S == {events[i] : i \in paid(k)}
    <2>1. S \in SUBSET known
      BY <1>2
    <2>2. total(k) = SumOf(S)
      BY DEF Total
    <2> HIDE DEF S, total
    <2> QED
      BY <2>1, <2>2, SupportIs
  <1> HIDE DEF N, group, total
  <1>6. \A k : nums(k) \subseteq N
    BY <1>3, <1>4, <1>5
  <1>7. {Count(Len(events))} \subseteq N
    <2>1. Len(events) \in 0..Len(events)
      BY <1>2
    <2> QED
      BY <1>3, <2>1
  <1> HIDE DEF nums, events
  <1>8. \A s \in EventText(f) : s.nums \subseteq N
    BY <1>1, <1>6, <1>7 DEF Sentence
  <1> QED
    BY <1>8, NumsWithin DEF N

\* The amounts of a comparison, and the rate of a change.
LEMMA AmountsSourced ==
  ASSUME db \in Databases, NEW q, NEW f, FoundIs(q, f), NEW c, ComputedIs(f, c)
  PROVE  /\ Nums(FactText(f)) \subseteq SupportedNums(q)
         /\ c.ok => Nums(ComparedText(f, c)) \subseteq SupportedNums(q)
         /\ c.ok /\ c.op = "delta_pct" => Nums(ChangeText(f, c)) \subseteq SupportedNums(q)
PROOF
  <1> DEFINE N == SupportedNums(q)
  <1>1. \A r \in FigureRows(q) : Exact(r.value) \in N /\ Readable(r.value) \in N
    BY SupportIs
  <1>2. c.ok => {Readable(o.value) : o \in ToSet(c.operands)} \subseteq N
    BY <1>1, FoundRows DEF ComputedIs
  <1>3. c.ok /\ c.op = "delta_pct" => Rate(c) \in N
    <2> HAVE c.ok /\ c.op = "delta_pct"
    <2>1. /\ c.operands[1] \in FigureRows(q) /\ c.operands[2] \in FigureRows(q)
          /\ c.operands[2].value # 0
      BY FoundRows DEF ComputedIs
    <2> QED
      BY <2>1, SupportIs DEF Rate
  <1> HIDE DEF N
  <1>4. \A s \in FactText(f) : s.nums \subseteq N
    <2> TAKE s \in FactText(f)
    <2>1. PICK o \in ToSet(Take(f.facts, 6)) :
            s.nums = {Exact(o.value)} \cup IF o.known THEN {Readable(o.value)} ELSE {}
      BY DEF FactText, Sentence
    <2>2. o \in FigureRows(q)
      <3>1. 6 \in Nat
        OBVIOUS
      <3> QED
        BY <2>1, <3>1, FoundRows
    <2> QED
      BY <1>1, <2>1, <2>2
  <1>5. ASSUME c.ok
        PROVE  \A s \in ComparedText(f, c) : s.nums \subseteq N
    BY <1>2, <1>5 DEF ComparedText, Sentence
  <1>6. ASSUME c.ok /\ c.op = "delta_pct"
        PROVE  \A s \in ChangeText(f, c) : s.nums \subseteq N
    BY <1>2, <1>3, <1>6 DEF ChangeText, Sentence
  <1> QED
    BY <1>4, <1>5, <1>6, NumsWithin DEF N

\* The amounts of contracts, and the numbers of the sections shown.
LEMMA RestSourced ==
  ASSUME db \in Databases, NEW q, NEW f, FoundIs(q, f)
  PROVE  /\ Nums(ChainText(f)) \subseteq SupportedNums(q)
         /\ Nums(SectionText(q, f)) \subseteq SupportedNums(q)
PROOF
  <1> DEFINE N == SupportedNums(q)
  <1>1. /\ \A e \in EventRowsOf(q) : e.known => Readable(e.amount) \in N
        /\ \A s \in SectionRowsOf(q) : s.nums \subseteq N
    BY SupportIs
  <1>2. Count(Len(f.linked)) \in N
    <2>1. Len(f.linked) \in Nat /\ Cardinality(EventRowsOf(q)) \in Nat
      BY FoundRows, RowsFinite
    <2>2. Len(f.linked) <= Cardinality(EventRowsOf(q))
      BY DEF FoundIs
    <2>3. Len(f.linked) \in 0..Cardinality(EventRowsOf(q))
      BY <2>1, <2>2
    <2> QED
      BY <2>3, SupportIs
  <1>3. ToSet(Take(f.linked, 5)) \subseteq EventRowsOf(q)
    <2>1. 5 \in Nat
      OBVIOUS
    <2> QED
      BY <2>1, FoundRows
  <1> HIDE DEF N
  <1>4. \A s \in ChainText(f) : s.nums \subseteq N
    <2> TAKE s \in ChainText(f)
    <2> DEFINE amount(e) == IF e.known THEN {Readable(e.amount)} ELSE {}
    <2>1. \/ s = Sentence({}, {}, {}, {"not confirmed"})
          \/ s = Sentence({Count(Len(f.linked))}, {}, {}, {"terminated"})
          \/ \E e \in ToSet(Take(f.linked, 5)) :
               s = Sentence(amount(e), {}, {}, {})
      <3>1. f.nodes # <<>>
        BY DEF ChainText
      <3> QED
        BY <3>1 DEF ChainText
    <2>2. CASE s = Sentence({}, {}, {}, {"not confirmed"})
      BY <2>2 DEF Sentence
    <2>3. CASE s = Sentence({Count(Len(f.linked))}, {}, {}, {"terminated"})
      BY <1>2, <2>3 DEF Sentence
    <2>4. ASSUME NEW e \in ToSet(Take(f.linked, 5)), s = Sentence(amount(e), {}, {}, {})
          PROVE  s.nums \subseteq N
      <3>1. s.nums = amount(e)
        BY <2>4 DEF Sentence
      <3>2. amount(e) \subseteq N
        BY <1>1, <1>3
      <3> QED
        BY <3>1, <3>2
    <2> HIDE DEF amount
    <2> QED
      BY <2>1, <2>2, <2>3, <2>4
  <1>5. \A s \in SectionText(q, f) : s.nums \subseteq N
    <2> TAKE s \in SectionText(q, f)
    <2> DEFINE shown(x) == IF x.personal THEN x.nums \ x.private ELSE x.nums
    <2>1. PICK x \in ToSet(f.sections) :
            s = Sentence(shown(x), {}, {SectionCite(f, x)}, x.words \cup {Word(x.corp)})
      <3>1. f.facts = <<>>
        BY DEF SectionText
      <3> QED
        BY <3>1 DEF SectionText
    <2>2. s.nums = shown(x)
      BY <2>1 DEF Sentence
    <2>3. x.nums \subseteq N
      BY <1>1, <2>1, FoundRows
    <2> QED
      BY <2>2, <2>3
  <1> QED
    BY <1>4, <1>5, NumsWithin DEF N

\* The composed text has no other numbers.
LEMMA ComposedSourced ==
  ASSUME db \in Databases, NEW q, NEW f, FoundIs(q, f), NEW c, ComputedIs(f, c)
  PROVE  Nums(Compose(q, f, c)) \subseteq SupportedNums(q)
PROOF
  <1> DEFINE N == SupportedNums(q)
             amounts == CASE Classify(q) = "compare" /\ c.ok /\ c.op = "compare" -> ComparedText(f, c)
                          [] Classify(q) = "compare" /\ c.ok /\ c.op = "delta_pct" -> ChangeText(f, c)
                          [] OTHER -> FactText(f)
             lines == amounts \cup EventText(f) \cup ChainText(f) \cup SectionText(q, f)
  <1>1. Nums(amounts) \subseteq N
    <2>1. CASE Classify(q) = "compare" /\ c.ok /\ c.op = "compare"
      <3>1. amounts = ComparedText(f, c)
        BY <2>1
      <3> QED
        BY <2>1, <3>1, AmountsSourced
    <2>2. CASE Classify(q) = "compare" /\ c.ok /\ c.op = "delta_pct"
      <3>1. amounts = ChangeText(f, c)
        BY <2>2
      <3> QED
        BY <2>2, <3>1, AmountsSourced
    <2>3. CASE ~ (Classify(q) = "compare" /\ c.ok /\ c.op \in {"compare", "delta_pct"})
      <3>1. amounts = FactText(f)
        BY <2>3
      <3> QED
        BY <3>1, AmountsSourced
    <2> QED
      BY <2>1, <2>2, <2>3
  <1>2. Compose(q, f, c) = lines \/ Nums(Compose(q, f, c)) = {}
    <2>1. \/ Compose(q, f, c) = lines
          \/ Compose(q, f, c) = {Sentence({}, {}, {1}, {"see the evidence"})}
          \/ Compose(q, f, c) = {Sentence({}, {}, {}, {"not confirmed"})}
      BY DEF Compose
    <2>2. /\ Nums({Sentence({}, {}, {1}, {"see the evidence"})}) = {}
          /\ Nums({Sentence({}, {}, {}, {"not confirmed"})}) = {}
      <3>1. \A x : x.nums = {} => Nums({x}) = {}
        BY DEF Nums
      <3>2. \A cites, words : Sentence({}, {}, cites, words).nums = {}
        BY DEF Sentence
      <3> QED
        BY <3>1, <3>2
    <2> QED
      BY <2>1, <2>2
  <1> HIDE DEF N, amounts
  <1>3. Nums(lines) \subseteq N
    <2>1. /\ Nums(EventText(f)) \subseteq N /\ Nums(ChainText(f)) \subseteq N
          /\ Nums(SectionText(q, f)) \subseteq N
      BY EventTextSourced, RestSourced DEF N
    <2> QED
      BY <1>1, <2>1 DEF Nums
  <1> QED
    BY <1>2, <1>3 DEF N

\* The invariant: the tools return rows for the question, what is computed is
\* computed from them, and the text has the numbers that follow from them.
Sourced ==
  /\ TypeOK
  /\ FoundIs(question, found)
  /\ stage \in {"asked", "understood"} => found = NothingFound
  /\ stage \in {"evidence", "composed", "narrated"} => ComputedIs(found, comp)
  /\ stage \in {"composed", "narrated"} => Nums(body) \subseteq SupportedNums(question)
  /\ EveryNumberSupported

\* The database is read only: what belongs to a question goes on to do so.
LEMMA SourcedFrame ==
  ASSUME UNCHANGED db
  PROVE  /\ UNCHANGED question => SupportedNums(question)' = SupportedNums(question)
         /\ FoundIs(question, found)' <=> FoundIs(question', found')
PROOF
  <1>1. UNCHANGED question => SupportedNums(question)' = SupportedNums(question)
    BY DEF SupportedNums
  <1>2. FoundIs(question, found)' <=> FoundIs(question', found')
    BY DEF FoundIs, FigureRows, EventRowsOf, SectionRowsOf, AskedRow
  <1> QED
    BY <1>1, <1>2

\* What was asked is one of the questions, but for the addresses.
LEMMA AskedTyped ==
  ASSUME TypeOK
  PROVE  /\ question.corps \in Seq(Int)
         /\ \A P : /\ \E q \in Questions : [question EXCEPT !.paths = P] = [q EXCEPT !.paths = P]
                   /\ [question EXCEPT !.paths = P].paths = P
PROOF
  <1>1. PICK q \in Questions : question = [q EXCEPT !.paths = question.paths]
    BY DEF TypeOK
  <1>2. {"paths", "corps"} \subseteq DOMAIN q /\ q.corps \in Seq(Int)
    BY QuestionAssumption
  <1>3. question.corps = q.corps
    BY <1>1, <1>2
  <1>4. \A P : [question EXCEPT !.paths = P] = [q EXCEPT !.paths = P]
    BY <1>1
  <1>5. \A P : [q EXCEPT !.paths = P].paths = P
    BY <1>2
  <1> QED
    BY <1>2, <1>3, <1>4, <1>5

\* The refusal has amounts of figures that were found.
LEMMA RefusalSourced ==
  ASSUME NEW q, NEW f, FoundIs(q, f), NEW reason
  PROVE  Nums(Refusal(reason, f.facts)) \subseteq SupportedNums(q)
PROOF
  <1> DEFINE amount(r) == IF r.known THEN {Readable(r.value)} ELSE {}
  <1>1. ASSUME NEW r \in ToSet(Take(f.facts, 3))
        PROVE  amount(r) \subseteq SupportedNums(q)
    <2>1. 3 \in Nat
      OBVIOUS
    <2>2. r \in FigureRows(q)
      BY <2>1, FoundRows
    <2> QED
      BY <2>2, SupportIs
  <1>2. ASSUME NEW s \in Refusal(reason, f.facts)
        PROVE  s.nums \subseteq SupportedNums(q)
    <2>1. \/ s = Sentence({}, {}, {}, {reason})
          \/ \E r \in ToSet(Take(f.facts, 3)) :
               s = Sentence(amount(r), {}, {}, {r.label, Word(r.fy)})
      BY DEF Refusal
    <2>2. CASE s = Sentence({}, {}, {}, {reason})
      BY <2>2 DEF Sentence
    <2>3. ASSUME NEW r \in ToSet(Take(f.facts, 3)),
                 s = Sentence(amount(r), {}, {}, {r.label, Word(r.fy)})
          PROVE  s.nums \subseteq SupportedNums(q)
      <3>1. s.nums = amount(r)
        BY <2>3 DEF Sentence
      <3> QED
        BY <1>1, <3>1
    <2> QED
      BY <2>1, <2>2, <2>3
  <1> QED
    BY <1>2, NumsWithin

LEMMA SourcedInvariant == Spec => []Sourced
PROOF
  <1>1. Init => Sourced
    <2> SUFFICES ASSUME Init PROVE Sourced
      OBVIOUS
    <2>1. FoundIs(question, found) /\ found = NothingFound
      BY NothingIsFound DEF Init
    <2>2. TypeOK
      <3>1. \E q \in Questions : question = [q EXCEPT !.paths = question.paths]
        <4>1. question \in Questions
          BY DEF Init
        <4>2. question = [question EXCEPT !.paths = question.paths]
          <5>1. question = [field \in DOMAIN question |-> question[field]]
            BY <4>1, QuestionAssumption
          <5> QED
            BY <5>1
        <4> QED
          BY <4>1, <4>2
      <3>2. found.facts = <<>>
        BY <2>1 DEF NothingFound
      <3>3. ToSet(found.facts) = {} /\ DOMAIN found.facts = {}
        BY <3>2 DEF ToSet
      <3>4. answer.confidence = "low"
        BY DEF Init, Reply
      <3> QED
        BY <3>1, <3>3, <3>4 DEF Init, TypeOK, Stages
    <2>3. stage = "asked"
      BY DEF Init
    <2> QED
      BY <2>1, <2>2, <2>3 DEF Sourced, EveryNumberSupported
  <1>2. Sourced /\ [Next]_vars => Sourced'
    <2> SUFFICES ASSUME Sourced, [Next]_vars PROVE Sourced'
      OBVIOUS
    <2>1. /\ TypeOK /\ FoundIs(question, found) /\ db \in Databases
          /\ question.corps \in Seq(Int)
      BY AskedTyped DEF Sourced, TypeOK
    <2> DEFINE N == SupportedNums(question)
               Asked == \E q \in Questions : question = [q EXCEPT !.paths = question.paths]
    <2>2. CASE Understand
      <3>1. /\ stage = "asked" /\ stage' = "understood"
            /\ UNCHANGED <<db, provider, found, comp, composed, body, why, answer>>
            /\ \E P : question' = [question EXCEPT !.paths = P]
        BY <2>2 DEF Understand
      <3>2. found' = NothingFound /\ found = NothingFound
        BY <3>1 DEF Sourced
      <3>3. FoundIs(question, found)'
        BY <2>1, <3>1, <3>2, NothingIsFound, SourcedFrame
      <3>4. Asked'
        BY <2>1, <3>1, AskedTyped
      <3>5. TypeOK'
        BY <2>1, <3>1, <3>4 DEF TypeOK, Stages
      <3> QED
        BY <3>1, <3>2, <3>3, <3>5 DEF Sourced, EveryNumberSupported
    <2>3. CASE RunTools
      <3>1. /\ stage' = "evidence" /\ found' \in Evidence(question)
            /\ comp' = Computed(question, found'.facts)
            /\ UNCHANGED <<db, provider, question, composed, body, why, answer>>
        BY <2>3 DEF RunTools
      <3>2. FoundIs(question, found')
        BY <2>1, <3>1, EvidenceIs
      <3>3. ComputedIs(found', comp')
        BY <2>1, <3>1, <3>2, ComputedFrom
      <3>4. FoundIs(question, found)'
        BY <3>1, <3>2, SourcedFrame
      <3>5. ToSet(found'.facts) \subseteq db.facts
        BY <3>2, FoundRows DEF FigureRows
      <3>6. OneEach(found'.facts)
        BY <3>2 DEF FoundIs
      <3>7. TypeOK'
        BY <2>1, <3>1, <3>5, <3>6 DEF TypeOK, OneEach, Stages
      <3>8. ComputedIs(found, comp)'
        BY <3>3 DEF ComputedIs
      <3> QED
        BY <3>1, <3>4, <3>7, <3>8 DEF Sourced, EveryNumberSupported
    <2>4. ASSUME UNCHANGED <<db, provider, question, found, comp>>,
                 stage' = "answered" \/ (stage \in {"evidence", "composed"}
                                            /\ stage' \in {"composed", "narrated"}),
                 why' \in {"none", "stub", "injection", "failed", "rejected", "applied"},
                 answer'.confidence \in {"low", "medium", "high"},
                 stage' \in {"composed", "narrated"} => Nums(body') \subseteq N,
                 stage' = "answered" => Nums(answer'.text) \subseteq N
          PROVE  Sourced'
      <3>1. FoundIs(question, found)' /\ SupportedNums(question)' = N
        BY <2>1, <2>4, SourcedFrame
      <3>2. TypeOK'
        BY <2>1, <2>4 DEF TypeOK, Stages
      <3>3. stage' # "answered" => ComputedIs(found, comp)'
        BY <2>4 DEF Sourced, ComputedIs
      <3> HIDE DEF N
      <3> QED
        BY <2>4, <3>1, <3>2, <3>3 DEF Sourced, EveryNumberSupported, Nums
    <2>5. why \in {"none", "stub", "injection", "failed", "rejected", "applied"}
      BY DEF Sourced, TypeOK
    <2>6. CASE Abstain
      <3>1. /\ UNCHANGED <<db, provider, question, found, comp, why>> /\ stage' = "answered"
            /\ answer'.confidence = "low"
            /\ \E reason : answer'.text = Refusal(reason, found.facts)
        BY <2>6 DEF Abstain, Reply
      <3>2. Nums(answer'.text) \subseteq N
        BY <2>1, <3>1, RefusalSourced
      <3> QED
        BY <2>4, <2>5, <3>1, <3>2
    <2>7. CASE Break
      <3>1. /\ UNCHANGED <<db, provider, question, found, comp, why>> /\ stage' = "answered"
            /\ answer'.confidence = "low"
            /\ answer'.text = {Sentence({}, {}, {}, {"internal_error"})}
        BY <2>7 DEF Break, Reply
      <3>2. Nums(answer'.text) \subseteq N
        <4>1. \A s \in answer'.text : s.nums \subseteq N
          BY <3>1 DEF Sentence
        <4> QED
          BY <4>1, NumsWithin
      <3> QED
        BY <2>4, <2>5, <3>1, <3>2
    <2>8. CASE ComposeText
      <3>1. /\ UNCHANGED <<db, provider, question, found, comp, why, answer>>
            /\ stage = "evidence" /\ stage' = "composed"
            /\ body' = Compose(question, found, comp)
        BY <2>8 DEF ComposeText
      <3>2. Nums(body') \subseteq N
        BY <2>1, <3>1, ComposedSourced DEF Sourced
      <3>3. answer'.confidence \in {"low", "medium", "high"}
        BY <3>1 DEF Sourced, TypeOK
      <3> QED
        BY <2>4, <2>5, <3>1, <3>2, <3>3
    <2>9. CASE Narrate
      <3>1. /\ UNCHANGED <<db, provider, question, found, comp, answer>>
            /\ stage = "composed" /\ stage' = "narrated"
        BY <2>9 DEF Narrate
      <3>2. /\ body' = body \/ Accepted(body, body', question.words, MayDrop(question))
            /\ why' \in {"none", "stub", "injection", "failed", "rejected", "applied"}
        BY <2>9 DEF Narrate, NoCall, Call, Keep
      <3>3. Nums(body') \subseteq Nums(body)
        BY <3>2 DEF Accepted, Added
      <3>4. Nums(body') \subseteq N
        BY <3>1, <3>3 DEF Sourced
      <3>5. answer'.confidence \in {"low", "medium", "high"}
        BY <3>1 DEF Sourced, TypeOK
      <3> QED
        BY <2>4, <3>1, <3>2, <3>4, <3>5
    <2>10. CASE Check
      <3>1. /\ UNCHANGED <<db, provider, question, found, comp, why>>
            /\ stage = "narrated" /\ stage' = "answered"
        BY <2>10 DEF Check
      <3>2. answer'.text \subseteq body
        <4> DEFINE ctx == Context(found)
                   first == Verify(body, ctx, Requirements(question), Derived(found, comp))
                   cleaned == Strip(body, first, ctx)
        <4>1. /\ Passed(first) => answer'.text = body
              /\ ~ Passed(first) => answer'.text = IF cleaned = {} THEN body ELSE cleaned
          BY <2>10, CheckStep
        <4>2. cleaned \subseteq body
          BY DEF Strip
        <4> HIDE DEF cleaned, first
        <4> QED
          BY <4>1, <4>2
      <3>3. Nums(answer'.text) \subseteq N
        <4>1. Nums(answer'.text) \subseteq Nums(body)
          BY <3>2, NumsMonotone
        <4> QED
          BY <3>1, <4>1 DEF Sourced
      <3>4. answer'.confidence \in {"low", "medium", "high"}
        BY <2>10 DEF Check, Reply, Confidence
      <3> QED
        BY <2>4, <2>5, <3>1, <3>3, <3>4
    <2>11. CASE UNCHANGED vars
      <3>1. UNCHANGED <<db, provider, stage, question, found, comp, body, why, answer>>
        BY <2>11 DEF vars
      <3>2. FoundIs(question, found)' /\ SupportedNums(question)' = N
        BY <2>1, <3>1, SourcedFrame
      <3>3. TypeOK'
        BY <2>1, <3>1 DEF TypeOK, Stages
      <3>4. ComputedIs(found, comp)' <=> ComputedIs(found, comp)
        BY <3>1 DEF ComputedIs
      <3> HIDE DEF N
      <3> QED
        BY <3>1, <3>2, <3>3, <3>4 DEF Sourced, EveryNumberSupported, Nums, N
    <2> QED
      BY <2>2, <2>3, <2>6, <2>7, <2>8, <2>9, <2>10, <2>11 DEF Next
  <1> QED
    BY <1>1, <1>2, PTL DEF Spec

\* TypeOK, and with it what fact_query() promises: of each company and year
\* one figure.
THEOREM TypeCorrect == Spec => []TypeOK
PROOF
  <1>1. Sourced => TypeOK
    BY DEF Sourced
  <1> QED
    BY <1>1, SourcedInvariant, PTL

\* EveryNumberSupported: whatever the LLM writes, a number of an answer or of a
\* refusal, with its unit, follows from documents that are not superseded.
THEOREM EveryNumberIsSupported == Spec => []EveryNumberSupported
PROOF
  <1>1. Sourced => EveryNumberSupported
    BY DEF Sourced
  <1> QED
    BY <1>1, SourcedInvariant, PTL
=============================================================================
