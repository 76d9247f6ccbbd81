--------------------------- MODULE AnswerPipeline ---------------------------
(***************************************************************************)
(* Orchestrator._run(): a question is understood, the tools collect        *)
(* evidence, the abstention gate refuses or lets pass, a text is composed  *)
(* from the evidence, an LLM may rewrite it, and the verifier judges the   *)
(* result and may remove sentences.  A request keeps its state to itself,  *)
(* so each stage is one step.                                              *)
(*                                                                         *)
(* What the patterns of agent/orchestrator.py and agent/abstention.py find *)
(* in a question is given by the fields of its record.  What the LLM       *)
(* answers is any text one edit away from the one it was given.            *)
(***************************************************************************)
EXTENDS Tools, Verifier, TLC

CONSTANTS
  Questions,     \* what may be asked
  Databases,     \* what the tools may read
  Catalog,       \* section addresses the LLM may choose (route_section.CATALOG)
  Period,        \* years of the corpus
  DefaultYears,  \* years that are queried when the question names none
  EventsCited,   \* the first events, sections and hits are put in the context
  SectionsCited,
  TopK,
  Orders,        \* words that give orders to an LLM (_INJECTION)
  StrangeNums,   \* numbers and words the LLM may add
  StrangeWords,
  Scale          \* of the readable form of an amount

ASSUME PipelineAssumption ==
  /\ EventsCited \in Nat /\ SectionsCited \in Nat /\ TopK \in Nat
  /\ Scale \in Nat \ {0}

\* The tables are finite, and by these fields their rows are chosen and sorted.
ASSUME RowsAssumption ==
  \A d \in Databases :
    /\ IsFiniteSet(d.facts) /\ IsFiniteSet(d.sections) /\ IsFiniteSet(d.events)
    /\ \A r \in d.facts : {r.id, r.corp, r.fy, r.value, r.place, r.report, r.date} \subseteq Int
    /\ \A r \in d.sections \cup d.events : {r.id, r.year} \subseteq Int

\* A question is a record with the companies it names and the addresses found.
\* parse_period() finds no year where parse_years() finds none: the year of a
\* question without years is none, so q.year never stands in for q.years.
ASSUME QuestionAssumption ==
  \A q \in Questions :
    /\ q = [field \in DOMAIN q |-> q[field]]
    /\ {"paths", "corps"} \subseteq DOMAIN q /\ q.corps \in Seq(Int)
    /\ q.years = {} => q.year = 0

VARIABLES
  db, provider,  \* the database; whether an LLM is configured
  stage,         \* of _run()
  question,      \* with the addresses found for it
  found,         \* what the tools returned
  comp,          \* what was computed
  composed,      \* the composed text, kept to be compared with the answer
  body,          \* the text
  why,           \* narrate()'s reason
  answer         \* the Answer

vars == <<db, provider, stage, question, found, comp, composed, body, why, answer>>
-----------------------------------------------------------------------------
(* Understanding the question *)

Named(q) == q.corps # <<>> \/ q.sector \/ q.unknown \/ q.generic

\* The types in the order of _classify(), each with its condition.
Types(q) ==
  << <<"lifecycle", q.lifecycle>>,
     <<"event", q.event \in {"capital", "holding"} \/ (q.event = "contract" /\ q.metric = "none")>>,
     <<"timeseries", q.trend /\ Cardinality(q.years) >= 2>>,
     <<"compare", (Len(q.corps) >= 2 \/ q.sector) /\ (q.compares \/ q.metric # "none")>>,
     <<"compare", q.delta /\ q.metric # "none">>,
     <<"section", q.metric = "none" /\ q.paths # {}>>,
     <<"fact", TRUE>> >>

Classify(q) == SelectSeq(Types(q), LAMBDA t : t[2])[1][1]

\* A year or a company, as a word.
Word(n) == ToString(n)

\* What V3 looks for: the metric's name, with each year that is asked for.
Requirements(q) ==
  IF q.metric = "none" THEN {}
  ELSE IF q.years = {} THEN {{q.metric}} ELSE {{Word(y), q.metric} : y \in q.years}

\* The LLM chooses addresses when no rule found any, and names at most two
\* of the catalog; a failure or a refusal is no address.
Routed(q) ==
  IF provider /\ q.paths = {} /\ Named(q) /\ q.metric = "none"
  THEN {P \in SUBSET Catalog : Cardinality(P) <= 2}
  ELSE {q.paths}

Understand ==
  /\ stage = "asked"
  /\ \E P \in Routed(question) : question' = [question EXCEPT !.paths = P]
  /\ stage' = "understood"
  /\ UNCHANGED <<db, provider, found, comp, composed, body, why, answer>>
-----------------------------------------------------------------------------
(* Running the tools *)

NothingFound ==
  [facts |-> <<>>, events |-> <<>>, sections |-> <<>>, hits |-> <<>>, relevant |-> FALSE,
   nodes |-> <<>>, linked |-> <<>>]

FactsFor(q) ==
  IF Classify(q) \in {"fact", "compare", "timeseries"} /\ q.metric # "none"
  THEN FactQuery(db, q.corps, q.metric, IF q.years = {} THEN DefaultYears ELSE q.years,
                 q.basis, q.scope)
  ELSE <<>>

EventsFor(q) ==
  IF Classify(q) = "event" THEN EventQuery(db, q.corps, q.event, q.kinds, q.year) ELSE <<>>

ChainFor(q) ==
  IF Classify(q) = "lifecycle" /\ q.corps # <<>>
  THEN TraceChain(db, q.corps[1], q.year)
  ELSE [nodes |-> <<>>, linked |-> <<>>]

HasEvidence(f) ==
  f.facts # <<>> \/ f.events # <<>> \/ f.sections # <<>> \/ f.nodes # <<>>

\* The index, kept in step with the database, returns some of the sections in
\* any order. Whether the best score reaches the threshold is all that the
\* scores decide.
Searches(q) ==
  LET eligible == {s \in db.sections : /\ s.effective
                                       /\ q.corps = <<>> \/ s.corp \in ToSet(q.corps)
                                       /\ q.years = {} \/ s.year \in q.years}
      lists == UNION {{h \in [1..n -> eligible] : IsInjective(h)} : n \in 0..TopK}
  IN {[hits |-> h, relevant |-> good] : h \in lists, good \in BOOLEAN}

Addressed(q) ==
  LET chain == ChainFor(q)
  IN [NothingFound EXCEPT
        !.facts = FactsFor(q), !.events = EventsFor(q),
        !.nodes = chain.nodes, !.linked = chain.linked,
        !.sections = IF q.paths = {} THEN <<>>
                     ELSE GetSection(db, q.corps, q.paths, q.year, q.subtype)]

\* Documents are searched only if nothing was found by address.
Evidence(q) ==
  LET direct == Addressed(q)
  IN IF HasEvidence(direct) THEN {direct}
     ELSE {[direct EXCEPT !.hits = s.hits, !.relevant = s.relevant /\ s.hits # <<>>] :
             s \in Searches(q)}

\* A rate is computed for one company from its last two years, otherwise
\* the amounts are compared.
Computed(q, facts) ==
  LET one == \A i, j \in DOMAIN facts : facts[i].corp = facts[j].corp
      latest == SortedBy(facts, LAMBDA f : <<- f.fy>>)
  IN IF Classify(q) # "compare" \/ Len(facts) < 2 THEN NotComputed
     ELSE IF q.delta /\ one THEN Compute("delta_pct", SubSeq(latest, 1, 2))
          ELSE Compute("compare", facts)

RunTools ==
  /\ stage = "understood"
  /\ \E f \in Evidence(question) :
       /\ found' = f
       /\ comp' = Computed(question, f.facts)
  /\ stage' = "evidence"
  /\ UNCHANGED <<db, provider, question, composed, body, why, answer>>
-----------------------------------------------------------------------------
(* The context: what can be cited, in the order of its numbers *)

Exact(v) == [digits |-> v, unit |-> "raw"]
Readable(v) == [digits |-> v \div Scale, unit |-> "eok"]
Count(n) == [digits |-> n, unit |-> "count"]

Item(source, doc, corp, path, nums, words) ==
  [source |-> source, doc |-> doc, corp |-> corp, path |-> path, nums |-> nums, words |-> words]

FactItem(f) == Item("fact", f.doc, f.corp, <<>>, {Exact(f.value)}, {f.label})
EventItem(e) ==
  Item("event", e.doc, e.corp, <<>>, IF e.known THEN {Readable(e.amount)} ELSE {}, {e.kind})
\* Personal data are masked in every section, in some the phone numbers only.
SectionItem(s) == Item("section", s.doc, s.corp, s.path, s.nums \ s.private, s.words)
HitItem(s) == Item("search", s.doc, s.corp, s.path, s.nums \ s.private, s.words)
ChainItem(linked) ==
  Item("chain", 0, 0, <<>>,
       {Readable(e.amount) : e \in {l \in ToSet(Take(linked, 6)) : l.known}}, {})

Context(f) ==
  LET events == Take(f.events, EventsCited)
      sections == Take(f.sections, SectionsCited)
      hits == Take(f.hits, SectionsCited)
  IN [i \in DOMAIN f.facts |-> FactItem(f.facts[i])]
       \o [i \in DOMAIN events |-> EventItem(events[i])]
       \o [i \in DOMAIN sections |-> SectionItem(sections[i])]
       \o [i \in DOMAIN hits |-> HitItem(hits[i])]
       \o (IF f.linked = <<>> THEN <<>> ELSE <<ChainItem(f.linked)>>)
-----------------------------------------------------------------------------
(* The abstention gate *)

Unsure(facts) == \E i \in DOMAIN facts : ~ facts[i].sure

\* The reasons to abstain, the most certain first.
Reasons(q, f, c) ==
  << <<"forbidden_prediction", q.prediction>>,
     <<"forbidden_judgment", q.judgment>>,
     <<"unsupported_doctype", q.unsupported>>,
     <<"out_of_universe", q.unknown /\ q.corps = <<>> >>,
     <<"out_of_period", q.years # {} /\ q.years \cap Period = {}>>,
     <<"low_unit_confidence", Classify(q) = "compare" /\ Unsure(f.facts)>>,
     <<"no_comparison_metric", Classify(q) = "compare" /\ q.metric = "none" /\ Len(q.corps) >= 2>>,
     <<"no_metric", q.metric = "none" /\ ~ HasEvidence(f) /\ ~ f.relevant>>,
     <<"no_evidence", ~ HasEvidence(f) /\ ~ f.relevant>>,
     <<"ambiguous", q.corps = <<>> /\ ~ Named(q)>>,
     <<"low_unit_confidence", c.op # "none" /\ ~ c.ok>> >>

Applicable(q, f, c) == SelectSeq(Reasons(q, f, c), LAMBDA r : r[2])

\* The refusal with up to three facts that can be confirmed.
Refusal(reason, facts) ==
  {Sentence({}, {}, {}, {reason})}
    \cup {Sentence(IF f.known THEN {Readable(f.value)} ELSE {}, {}, {}, {f.label, Word(f.fy)}) :
            f \in ToSet(Take(facts, 3))}

NoReport == Verify({}, <<>>, {}, {})

Reply(text, confidence, abstained, rep, degraded) ==
  [text |-> text, confidence |-> confidence, abstained |-> abstained, report |-> rep,
   degraded |-> degraded]

Abstain ==
  /\ stage = "evidence"
  /\ LET reasons == Applicable(question, found, comp)
     IN /\ reasons # <<>>
        /\ answer' = Reply(Refusal(reasons[1][1], found.facts), "low", TRUE, NoReport, FALSE)
  /\ stage' = "answered"
  /\ UNCHANGED <<db, provider, question, found, comp, composed, body, why>>

\* An exception of any stage: an error text instead of an answer.
Break ==
  /\ stage # "answered"
  /\ answer' = Reply({Sentence({}, {}, {}, {"internal_error"})}, "low", TRUE, NoReport, FALSE)
  /\ stage' = "answered"
  /\ UNCHANGED <<db, provider, question, found, comp, composed, body, why>>
-----------------------------------------------------------------------------
(* Composing the text. The tools' numbers are used as they are. *)

Place(s, x) == CHOOSE i \in DOMAIN s : s[i] = x

\* Facts come first in the context.
FactCite(f, fact) == Place(f.facts, fact)

ComparedText(f, c) ==
  LET all == ToSet(c.operands)
  IN { Sentence({}, {}, {}, {"larger", Word(c.operands[1].corp)}),
       Sentence({Readable(o.value) : o \in all}, {}, {FactCite(f, o) : o \in all},
                UNION {{Word(o.corp), Word(o.fy), o.label} : o \in all}) }

Direction(c) == IF Change(c.operands[1], c.operands[2]) >= 0 THEN "increase" ELSE "decrease"

Rate(c) == [digits |-> Magnitude(Change(c.operands[1], c.operands[2])), unit |-> "percent"]

ChangeText(f, c) ==
  LET all == ToSet(c.operands)
  IN { Sentence({Readable(o.value) : o \in all} \cup {Rate(c)}, {}, {FactCite(f, o) : o \in all},
                {Direction(c)} \cup UNION {{Word(o.corp), Word(o.fy), o.label} : o \in all}) }

FactText(f) ==
  {LET readable == IF o.known THEN {Readable(o.value)} ELSE {}
   IN Sentence({Exact(o.value)} \cup readable, readable, {FactCite(f, o)},
               {Word(o.corp), Word(o.fy), o.basis, o.label}) :
     o \in ToSet(Take(f.facts, 6))}

SumOf(rows) == MapThenSumSet(LAMBDA e : e.amount, rows)

\* No event is listed twice.
Total(events, I) == SumOf({events[i] : i \in I})

\* One line for each of the first eight kinds, with a total.
EventText(f) ==
  LET events == f.events
      First(k) == CHOOSE i \in DOMAIN events :
                    events[i].kind = k /\ \A j \in 1..(i - 1) : events[j].kind # k
      kinds == {e.kind : e \in ToSet(events)}
      Line(k) ==
        LET group == {i \in DOMAIN events : events[i].kind = k}
            paid == {i \in group : events[i].known /\ events[i].amount # 0}
            total == Total(events, paid)
            readable == IF paid = {} THEN {} ELSE {Readable(total)}
        IN Sentence({Count(Cardinality(group))} \cup readable
                      \cup (IF paid = {} THEN {} ELSE {Exact(total)}),
                    readable,
                    {Len(f.facts) + i : i \in {j \in group : j <= EventsCited}}, {k})
  IN IF events = <<>> THEN {}
     ELSE {Sentence({Count(Len(events))}, {}, {}, {})}
            \cup {Line(k) : k \in {l \in kinds :
                     Cardinality({events[j].kind : j \in 1..(First(l) - 1)}) < 8}}

\* No line of the life of a contract has a citation.
ChainText(f) ==
  IF f.nodes = <<>> THEN {}
  ELSE IF f.linked = <<>> THEN {Sentence({}, {}, {}, {"not confirmed"})}
       ELSE {Sentence({Count(Len(f.linked))}, {}, {}, {"terminated"})}
              \cup {Sentence(IF e.known THEN {Readable(e.amount)} ELSE {}, {}, {}, {}) :
                      e \in ToSet(Take(f.linked, 5))}

\* The sections shown: three, but at least one of each company that is
\* asked about, none twice and none without text.
Shown(q, sections) ==
  LET quota == IF Len(q.corps) < 2 THEN 3 ELSE IF Len(q.corps) > 3 THEN 1 ELSE 3 \div Len(q.corps)
      Of(corp, s) == Cardinality({i \in DOMAIN s : s[i].corp = corp})
      Full(s) == Len(s) >= 3 /\ (Len(q.corps) < 2 \/ Cardinality({e.corp : e \in ToSet(s)}) >= Len(q.corps))
      Skipped(s, x) == \/ Full(s)
                       \/ \E i \in DOMAIN s : s[i].corp = x.corp /\ s[i].path = x.path
                       \/ Len(q.corps) >= 2 /\ Of(x.corp, s) >= quota
                       \/ x.blank
  IN FoldLeft(LAMBDA s, x : IF Skipped(s, x) THEN s ELSE Append(s, x), <<>>, sections)

\* The citation of a section, or the first one if the section was not put
\* in the context.
SectionCite(f, s) ==
  LET ctx == Context(f)
      own == {i \in DOMAIN ctx : ctx[i].source = "section" /\ ctx[i].doc = s.doc
                                   /\ IsPrefix(s.path, ctx[i].path)}
  IN IF own = {} THEN 1 ELSE CHOOSE i \in own : \A j \in own : i <= j

SectionText(q, f) ==
  IF f.facts # <<>> THEN {}
  ELSE {Sentence(IF s.personal THEN s.nums \ s.private ELSE s.nums, {}, {SectionCite(f, s)},
                 s.words \cup {Word(s.corp)}) :
          s \in {x \in ToSet(f.sections) : Contains(Shown(q, f.sections), x)}}

Compose(q, f, c) ==
  LET amounts == CASE Classify(q) = "compare" /\ c.ok /\ c.op = "compare" -> ComparedText(f, c)
                   [] Classify(q) = "compare" /\ c.ok /\ c.op = "delta_pct" -> ChangeText(f, c)
                   [] OTHER -> FactText(f)
      lines == amounts \cup EventText(f) \cup ChainText(f) \cup SectionText(q, f)
  IN IF lines # {} THEN lines
     ELSE IF f.hits # <<>> THEN {Sentence({}, {}, {1}, {"see the evidence"})}
          ELSE {Sentence({}, {}, {}, {"not confirmed"})}

ComposeText ==
  /\ stage = "evidence"
  /\ Applicable(question, found, comp) = <<>>
  /\ body' = Compose(question, found, comp)
  /\ composed' = body'
  /\ stage' = "composed"
  /\ UNCHANGED <<db, provider, question, found, comp, why, answer>>
-----------------------------------------------------------------------------
(* The LLM's text *)

Reworded(s, vocabulary) ==
  {[s EXCEPT !.nums = @ \ {n}] : n \in s.nums}
    \cup {[s EXCEPT !.nums = @ \cup {n}] : n \in StrangeNums}
    \cup {[s EXCEPT !.cites = @ \ {c}] : c \in s.cites}
    \cup {[s EXCEPT !.cites = @ \cup {c}] : c \in 1..3}
    \cup {[s EXCEPT !.words = (@ \ {w}) \cup new] :
            w \in s.words, new \in {{}} \cup {{v} : v \in vocabulary}}
    \cup {[s EXCEPT !.words = @ \cup {v}] : v \in vocabulary}

\* The text itself, without a sentence, or with one changed.
Rewritten(text) ==
  {text} \cup {text \ {s} : s \in text}
    \cup UNION {{(text \ {s}) \cup {r} : r \in Reworded(s, StrangeWords \cup Words(text))} :
                   s \in text}

\* Summaries may lose numbers.
MayDrop(q) == Classify(q) \in {"section", "timeseries", "event", "lifecycle"}

Keep(reason) == why' = reason /\ UNCHANGED body

NoCall ==
  \/ ~ provider /\ Keep("stub")
  \/ provider /\ (question.injected \/ Words(body) \cap Orders # {}) /\ Keep("injection")

\* The call may fail, or its text be useless.
Call ==
  /\ provider /\ ~ question.injected /\ Words(body) \cap Orders = {}
  /\ \/ Keep("failed")
     \/ \E out \in Rewritten(body) :
          IF Accepted(body, out, question.words, MayDrop(question))
          THEN body' = out /\ why' = "applied"
          ELSE Keep("rejected")

Narrate ==
  /\ stage = "composed"
  /\ NoCall \/ Call
  /\ stage' = "narrated"
  /\ UNCHANGED <<db, provider, question, found, comp, composed, answer>>
-----------------------------------------------------------------------------
(* Verifying the text *)

\* What was derived from the evidence, by the program and not by the LLM.
Derived(f, c) ==
  LET Kind(k) == {i \in DOMAIN f.events : f.events[i].kind = k /\ f.events[i].known}
      totals == {Total(f.events, Kind(e.kind)) : e \in {x \in ToSet(f.events) : x.known}}
      amounts == {e.amount : e \in {x \in ToSet(f.events) : x.known}} \cup totals
                   \cup {o.value : o \in {x \in ToSet(f.facts) : x.known}}
      computed == IF ~ c.ok THEN {}
                  ELSE IF c.op = "delta_pct" THEN {Rate(c).digits}
                       ELSE {Readable(c.operands[1].value).digits}
  IN {o.value : o \in ToSet(f.facts)} \cup amounts \cup {Readable(a).digits : a \in amounts}
       \cup computed \cup {Len(f.events)}
       \cup (IF f.linked = <<>> THEN {} ELSE {Len(f.linked)})

Judged(text) == Verify(text, Context(found), Requirements(question), Derived(found, comp))

Confidence(passed, degraded) ==
  IF ~ passed THEN "low" ELSE IF found.facts # <<>> /\ ~ degraded THEN "high" ELSE "medium"

\* A text that fails is verified again without the sentences that fail, but
\* it is kept if there is no other.
Check ==
  /\ stage = "narrated"
  /\ LET first == Judged(body)
         cleaned == Strip(body, first, Context(found))
         rep == IF Passed(first) THEN first ELSE Judged(cleaned)
         text == IF Passed(first) \/ cleaned = {} THEN body ELSE cleaned
         degraded == why \notin {"applied", "stub"}
     IN answer' = Reply(text, Confidence(Passed(rep), degraded), FALSE, rep, degraded)
  /\ stage' = "answered"
  /\ UNCHANGED <<db, provider, question, found, comp, composed, body, why>>
-----------------------------------------------------------------------------
Init ==
  /\ db \in Databases /\ provider \in BOOLEAN /\ question \in Questions
  /\ stage = "asked"
  /\ found = NothingFound /\ comp = NotComputed
  /\ composed = {} /\ body = {} /\ why = "none"
  /\ answer = Reply({}, "low", FALSE, NoReport, FALSE)

Next == Understand \/ RunTools \/ Abstain \/ ComposeText \/ Narrate \/ Check \/ Break

Spec == Init /\ [][Next]_vars
-----------------------------------------------------------------------------
(* Properties *)

Stages == {"asked", "understood", "evidence", "composed", "narrated", "answered"}

\* The type of the state. There is one figure for each company and year, as
\* fact_query() promises to resolve duplicates, and a context with nothing
\* cited twice.
TypeOK ==
  /\ db \in Databases /\ provider \in BOOLEAN
  /\ stage \in Stages
  /\ \E q \in Questions : question = [q EXCEPT !.paths = question.paths]
  /\ ToSet(found.facts) \subseteq db.facts
  /\ \A i, j \in DOMAIN found.facts :
       i # j => found.facts[i].corp # found.facts[j].corp \/ found.facts[i].fy # found.facts[j].fy
  /\ why \in {"none", "stub", "injection", "failed", "rejected", "applied"}
  /\ answer.confidence \in {"low", "medium", "high"}

Answered == stage = "answered" /\ ~ answer.abstained

\* Confidence "high" is earned by the very text that is sent: it passes the
\* verifier, it has figures, and the LLM did its part or there is none.  The
\* text that was verified last is not always the one that is sent.
HighMeansVerified ==
  Answered /\ answer.confidence = "high" =>
    /\ Passed(Judged(answer.text))
    /\ found.facts # <<>>
    /\ ~ answer.degraded

\* The numbers that follow from effective documents of the companies that
\* are asked about, whichever tool reads them.
SupportedNums(q) ==
  LET Asked(r) == r.effective /\ (q.corps = <<>> \/ r.corp \in ToSet(q.corps))
      figures == {r.value : r \in {f \in db.facts : Asked(f) /\ f.metric = q.metric /\ f.basis = q.basis
                                                     /\ q.scope \in {"any", f.scope}}}
      events == {e \in db.events : Asked(e)}
      known == {e \in events : e.known}
      amounts == figures \cup {e.amount : e \in known} \cup {SumOf(S) : S \in SUBSET known}
      changes == {((a - b) * 100) \div Magnitude(b) : a \in figures, b \in figures \ {0}}
  IN {Exact(v) : v \in amounts} \cup {Readable(v) : v \in amounts}
       \cup {[digits |-> Magnitude(c), unit |-> "percent"] : c \in changes}
       \cup {Count(n) : n \in 0..Cardinality(events)}
       \cup UNION {s.nums : s \in {x \in db.sections : Asked(x)}}

\* Whatever the LLM writes and the verifier removes, a number of the answer,
\* with its unit, follows from documents that are not superseded.
EveryNumberSupported ==
  stage = "answered" => Nums(answer.text) \subseteq SupportedNums(question)

\* Between the composed text and the answer no claim and no first hedge is
\* added, and, unless the verifier removed sentences, no negation, basis or
\* period, citation or figure is lost.
MeaningKept ==
  Answered =>
    /\ Words(answer.text) \cap (Content \cup Risky) \subseteq Words(composed) \cup question.words
    /\ Words(composed) \cap Hedges = {} => Words(answer.text) \cap Hedges = {}
    /\ answer.text = body =>
         /\ Words(composed) \cap Critical \subseteq Words(answer.text)
         /\ Cites(composed) \subseteq Cites(answer.text)
         /\ ~ MayDrop(question) => Nums(composed) \ Aliases(composed) \subseteq Nums(answer.text)

\* The removal is neither stricter nor more lenient than the verifier: a
\* sentence that would pass alone stays, and what stays has no number and
\* no phrase the verifier rejects.
OnlyFailuresRemoved ==
  Answered =>
    LET alone(s) == Judged({s})
    IN /\ \A s \in body \ answer.text : alone(s).ungrounded # {} \/ alone(s).disallowed # {}
       /\ answer.text # body =>
            Judged(answer.text).ungrounded = {} /\ Judged(answer.text).disallowed = {}

\* What the report says of the answer is true of the text that is sent: an
\* answer reported as verified passes the verifier.
VerifiedMeansVerified == Answered /\ Passed(answer.report) => Passed(Judged(answer.text))

\* Amounts that are compared are all cumulative or all of three months, which
\* fact_query() promises not to mix.
LikePeriods ==
  Answered /\ comp.ok =>
    \A i, j \in DOMAIN comp.operands :
      Cumulative(comp.operands[i]) <=> Cumulative(comp.operands[j])

\* The verdict of a comparison that is sent with confidence is the one that
\* was computed: the direction of a change and the larger company.
VerdictIsComputed ==
  Answered /\ answer.confidence = "high" /\ comp.ok =>
    IF comp.op = "delta_pct"
    THEN Words(answer.text) \cap {"increase", "decrease"} = {Direction(comp)}
    ELSE \A s \in answer.text :
           "larger" \in s.words =>
             s.words \cap {Word(o.corp) : o \in ToSet(comp.operands)} = {Word(comp.operands[1].corp)}
=============================================================================
