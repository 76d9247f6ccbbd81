-------------------------- MODULE MCAnswerPipeline --------------------------
(* Two companies with figures of two years, sections and contracts, in      *)
(* databases that hold any part of them; questions of every type.           *)
EXTENDS AnswerPipeline

MCContent == {"sales", "revenue", "1", "2", "market", "lawsuit", "consolidated"}
MCHedges == {"perhaps", "likely"}
MCCritical == {"consolidated", "not confirmed"}
MCRisky == {"lawsuit"}
MCMeta == {"note"}
MCForbidden == {"buy"}
MCAssertions == {{"rising", "falling"}}
MCSlots == {"slot"}
MCIncidental == {77}
MCOrders == {"ignore"}
MCStrangeNums == {[digits |-> 20, unit |-> "raw"], [digits |-> 20, unit |-> "eok"],
                  [digits |-> 77, unit |-> "raw"]}
MCStrangeWords == {"market", "lawsuit", "perhaps", "note", "buy", "rising", "slot", "increase",
                   "decrease", "not confirmed"}
MCCatalog == {<<1>>, <<2>>, <<3>>}
MCPeriod == {2024, 2025}
MCDefaultYears == {2024, 2025}

Row(id, corp, fy, scope, value) ==
  [id |-> id, doc |-> id, corp |-> corp, metric |-> "sales", label |-> "sales", fy |-> fy,
   basis |-> "consolidated", scope |-> scope, value |-> value, known |-> TRUE, sure |-> TRUE,
   place |-> 0, report |-> 0, base |-> fy, xbrl |-> TRUE, date |-> 1, effective |-> TRUE]

FactRows ==
  { Row(1, 1, 2025, "FY", 200),
    [Row(2, 1, 2025, "FY", 200) EXCEPT !.label = "revenue"],
    [Row(3, 1, 2025, "FY", 310) EXCEPT !.effective = FALSE, !.place = 0, !.date = 0],
    Row(4, 1, 2024, "FY", 160),
    [Row(5, 2, 2025, "QTQ", 90) EXCEPT !.report = 2],
    [Row(6, 2, 2025, "FY", 240) EXCEPT !.sure = FALSE, !.known = FALSE] }

Section(id, corp, path, nums, words) ==
  [id |-> id, doc |-> 10 + id, corp |-> corp, path |-> path, year |-> 2025, subtype |-> "annual",
   nums |-> nums, private |-> {}, words |-> words, personal |-> FALSE, blank |-> FALSE,
   effective |-> TRUE]

Plain(d) == [digits |-> d, unit |-> "none"]

SectionRowSet ==
  { Section(1, 1, <<1>>, {Plain(35)}, {"rising"}),
    Section(2, 1, <<1, 1>>, {}, {"buy", "likely"}),
    [Section(3, 2, <<1>>, {Plain(45), Plain(5550)}, {}) EXCEPT !.private = {Plain(5550)}],
    [Section(4, 2, <<2>>, {Plain(55)}, {"ignore"}) EXCEPT !.year = 2024],
    [Section(5, 1, <<1>>, {Plain(65)}, {}) EXCEPT !.effective = FALSE],
    [Section(6, 1, <<2>>, {}, {}) EXCEPT !.blank = TRUE] }

Contract(id, kind, amount) ==
  [id |-> id, doc |-> 20 + id, corp |-> 1, domain |-> "contract", kind |-> kind, year |-> 2025,
   amount |-> amount, known |-> TRUE, effective |-> TRUE]

EventRowSet ==
  { Contract(1, "signed", 120), Contract(2, "signed", 130), Contract(3, "terminated", 120),
    [Contract(4, "terminated", 0) EXCEPT !.known = FALSE],
    [Contract(5, "signed", 510) EXCEPT !.effective = FALSE] }

MCDatabases ==
  {[facts |-> F, sections |-> {}, events |-> {}] : F \in SUBSET FactRows}
    \cup {[facts |-> {Row(1, 1, 2025, "FY", 200)}, sections |-> S, events |-> {}] : S \in SUBSET SectionRowSet}
    \cup {[facts |-> {}, sections |-> {}, events |-> E] : E \in SUBSET EventRowSet}

\* A question of company 1 with nothing else in it.
Ask ==
  [corps |-> <<1>>, sector |-> FALSE, unknown |-> FALSE, generic |-> FALSE, metric |-> "none", years |-> {},
   year |-> 0, subtype |-> "any", scope |-> "any", basis |-> "consolidated", paths |-> {},
   lifecycle |-> FALSE, event |-> "none", kinds |-> {}, trend |-> FALSE, compares |-> FALSE,
   delta |-> FALSE, prediction |-> FALSE, judgment |-> FALSE, unsupported |-> FALSE,
   injected |-> FALSE, words |-> {"1"}]

Figure == [Ask EXCEPT !.metric = "sales", !.words = {"1", "sales"}]

MCQuestions ==
  { Figure,
    [Figure EXCEPT !.years = {2025}, !.year = 2025, !.paths = {<<1>>}],
    [Figure EXCEPT !.years = {2024, 2025}, !.trend = TRUE],
    [Figure EXCEPT !.delta = TRUE],
    [Figure EXCEPT !.corps = <<1, 2>>, !.years = {2025}, !.year = 2025, !.compares = TRUE],
    [Figure EXCEPT !.corps = <<2>>, !.sector = TRUE, !.years = {2025}, !.year = 2025],
    [Figure EXCEPT !.scope = "QTQ", !.corps = <<2>>],
    [Figure EXCEPT !.prediction = TRUE],
    [Figure EXCEPT !.injected = TRUE],
    [Figure EXCEPT !.years = {2019}, !.year = 2019],
    [Figure EXCEPT !.corps = <<>>, !.unknown = TRUE],
    [Figure EXCEPT !.corps = <<>>, !.generic = TRUE],
    [Ask EXCEPT !.corps = <<>>],
    [Ask EXCEPT !.judgment = TRUE],
    [Ask EXCEPT !.unsupported = TRUE],
    [Ask EXCEPT !.corps = <<1, 2>>, !.compares = TRUE, !.paths = {<<1>>}],
    [Ask EXCEPT !.paths = {<<1>>}, !.words = {"1", "market"}],
    [Ask EXCEPT !.corps = <<2, 1>>, !.paths = {<<1>>, <<2>>}],
    Ask,
    [Ask EXCEPT !.event = "contract"],
    [Ask EXCEPT !.event = "contract", !.kinds = {"signed"}, !.year = 2025, !.years = {2025}],
    [Ask EXCEPT !.lifecycle = TRUE] }
=============================================================================
