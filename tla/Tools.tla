------------------------------- MODULE Tools -------------------------------
(***************************************************************************)
(* The tools of agent/tools.py, through which every answer gets its data.  *)
(* They only read the database.  A row of db.facts, db.sections or         *)
(* db.events is a row of the table with the columns of its document that   *)
(* the queries join to it.  A company is the place of its name in the      *)
(* alphabet, an amount that could not be converted is unknown.             *)
(***************************************************************************)
EXTENDS Integers, Sequences, FiniteSets, SequencesExt

CONSTANTS
  SectionRows,   \* LIMIT of get_section
  EventRows      \* LIMIT of event_query

ASSUME LimitsAssumption == SectionRows \in Nat \ {0} /\ EventRows \in Nat \ {0}

Precedes(a, b) ==
  \E i \in DOMAIN a : a[i] < b[i] /\ \A j \in 1..(i - 1) : a[j] = b[j]

Preferred(flag) == IF flag THEN 0 ELSE 1

\* ORDER BY and sorted(): rows of equal keys stay in the order they have.
SortedBy(s, Key(_)) ==
  LET ahead == [i \in DOMAIN s |-> {j \in DOMAIN s : \/ Precedes(Key(s[j]), Key(s[i]))
                                                     \/ Key(s[j]) = Key(s[i]) /\ j < i}]
  IN [n \in DOMAIN s |-> s[CHOOSE i \in DOMAIN s : Cardinality(ahead[i]) = n - 1]]
-----------------------------------------------------------------------------
(* fact_query *)

\* An amount of a year or of its months so far, and not of three months.
Cumulative(r) == r.scope \in {"FY", "HYA", "QTA"}

\* The order in which rows for the same figure are preferred: statement
\* before notes, annual reports, the report of the year itself, cumulative
\* figures, tagged data, certain units, the last one submitted.
SortKey(r) ==
  << r.place, r.report, Preferred(r.base = r.fy), Preferred(Cumulative(r)),
     Preferred(r.xbrl), Preferred(r.sure), - r.date >>

\* The tools as a plausible bug would have them, for the mutated runs: AnyVersion
\* also reads superseded reports, BestByKey leaves ties.
AnyVersion(db, corps, metric, years, basis, scope) ==
  {r \in db.facts :
     /\ r.metric = metric /\ r.corp \in ToSet(corps) /\ r.fy \in years /\ r.basis = basis
     /\ scope = "any" \/ r.scope = scope}

Matching(db, corps, metric, years, basis, scope) ==
  {r \in db.facts :
     /\ r.effective
     /\ r.metric = metric /\ r.corp \in ToSet(corps) /\ r.fy \in years /\ r.basis = basis
     /\ scope = "any" \/ r.scope = scope}

BestByKey(rows) ==
  {r \in rows :
     \A o \in rows \ {r} :
       o.corp = r.corp /\ o.fy = r.fy =>
         Precedes(SortKey(r), SortKey(o)) \/ SortKey(r) = SortKey(o)}

\* One row for each company and year; of equal ones the first.
Best(rows) ==
  {r \in rows :
     \A o \in rows \ {r} :
       o.corp = r.corp /\ o.fy = r.fy =>
         \/ Precedes(SortKey(r), SortKey(o))
         \/ SortKey(r) = SortKey(o) /\ r.id < o.id}

FactQuery(db, corps, metric, years, basis, scope) ==
  SortedBy(SetToSeq(Best(Matching(db, corps, metric, years, basis, scope))),
           LAMBDA r : <<r.corp, - r.fy>>)
-----------------------------------------------------------------------------
(* get_section, event_query, trace_chain; year 0 is no year *)

Take(s, n) == SubSeq(s, 1, IF Len(s) < n THEN Len(s) ELSE n)

\* Sections of periodic reports under the addresses, the latest report first.
GetSection(db, corps, paths, year, subtype) ==
  LET found == {s \in db.sections :
                  /\ s.effective
                  /\ s.corp \in ToSet(corps)
                  /\ \E p \in paths : IsPrefix(p, s.path)
                  /\ year \in {0, s.year}
                  /\ subtype \in {"any", s.subtype}}
  IN Take(SortedBy(SetToSeq(found), LAMBDA s : <<- s.year, s.id>>), SectionRows)

EventQuery(db, corps, domain, kinds, year) ==
  LET found == {e \in db.events :
                  /\ e.effective
                  /\ e.corp \in ToSet(corps) /\ e.domain = domain
                  /\ kinds = {} \/ e.kind \in kinds
                  /\ year \in {0, e.year}}
  IN Take(SortedBy(SetToSeq(found), LAMBDA e : <<- e.year, e.id>>), EventRows)

\* The contracts of a company, and of them those that were terminated. The
\* signing each of these is matched to appears in no answer.
TraceChain(db, corp, year) ==
  LET nodes == {e \in db.events :
                  e.effective /\ e.corp = corp /\ e.domain = "contract" /\ year \in {0, e.year}}
      Ordered(rows) == SortedBy(SetToSeq(rows), LAMBDA e : <<e.year, e.id>>)
  IN [nodes |-> Ordered(nodes), linked |-> Ordered({e \in nodes : e.kind = "terminated"})]
-----------------------------------------------------------------------------
(* compute; an operand is a row of FactQuery *)

NotComputed == [op |-> "none", ok |-> FALSE, operands |-> <<>>]

Magnitude(x) == IF x < 0 THEN - x ELSE x

\* The change in percent from the second operand to the first.
Change(a, b) == ((a.value - b.value) * 100) \div Magnitude(b.value)

\* What is computed: amounts that are known, in units that are certain.
Computable(op, operands) ==
  /\ operands # <<>>
  /\ \A i \in DOMAIN operands : operands[i].known /\ operands[i].sure
  /\ op = "delta_pct" => Len(operands) = 2 /\ operands[2].value # 0

Compute(op, operands) ==
  [op |-> op, ok |-> Computable(op, operands),
   operands |-> IF op = "compare" /\ Computable(op, operands)
                THEN SortedBy(operands, LAMBDA o : <<- o.value>>)
                ELSE operands]
=============================================================================
