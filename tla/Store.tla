------------------------------- MODULE Store -------------------------------
(***************************************************************************)
(* One database file of the program: what store/schema.sql,                *)
(* store/repository.py, store/alias.py and retrieval/fts_index.py put into *)
(* it and read from it, as operators from one committed state to the next. *)
(* The processes that commit are in BuildIndex and ServerStart.            *)
(*                                                                         *)
(* A row is known by the table and document it belongs to, the file it was *)
(* parsed from and its number there; key is what the table's uniqueness is *)
(* about (the path of a section, the fields of a fact).  The text that is  *)
(* indexed of a section, whatever its content class, is that of its row.   *)
(* Corrections has the search for the original of a correction in detail;  *)
(* here Original is its result.                                            *)
(***************************************************************************)
EXTENDS Integers, Sequences, FiniteSets

CONSTANTS
  Docs,        \* doc_ids
  Files,       \* what the file of a document may contain
  Keys,        \* paths of sections, fields that make a fact unique
  Parsed,      \* Parsed[f][t]: the keys of the rows of table t a parser
               \* returns for f, in order
  Original,    \* Original[d]: the document that d corrects or follows
  Names,       \* normalized company names
  Corps,       \* corp_codes
  CorpOf,      \* CorpOf[d]: the company of a document
  Modes,       \* modes of the tokenizer: "kiwi", "ngram"
  BatchRows,   \* the rows that build_fts() inserts at a time: 2,000
  None         \* NULL, or nothing

Events == {"contract_event", "capital_event", "holding_event"}
Tables == {"fin_fact", "section", "correction_diff", "registry_row"} \cup Events

\* A mutant's: the table added last is forgotten.
ClearedWithoutRegistry == Tables \ {"registry_row"}

\* The tables that clear_doc() empties.
ClearedTables == Tables

Row ==
  [table : Tables, doc : Docs, file : Files, key : Keys \cup {None},
   nr : Nat \ {0}, rowid : Nat]

\* Of a document's own row the builder never updates more than parse_warnings:
\* meta is the file of its first load, warnings that of its last.
Document ==
  [meta : Files, warnings : Files, points : Docs \cup {None}, effective : BOOLEAN]

ASSUME StoreAssumption ==
  /\ Parsed \in [Files -> [Tables -> Seq(Keys \cup {None})]]
  /\ Original \in [Docs -> Docs \cup {None}]
  /\ CorpOf \in [Docs -> Corps]
  /\ BatchRows \in Nat \ {0}
  /\ None \notin Docs \cup Files \cup Keys \cup Corps \cup Modes
  /\ None \notin {"builder", "server"}
  /\ None \notin Document

Database ==
  [schema : BOOLEAN,                       \* init_schema() came as far as the sections
   companies : SUBSET Corps,
   alias : [Names -> Corps \cup {None}],
   docs : [Docs -> Document \cup {None}],
   rows : SUBSET Row,
   fts : (SUBSET Row) \cup {None},         \* the indexed rows, None without the table
   mark : Modes \cup {None},               \* fts_tokenizer_mode of index_meta
   counted : (SUBSET Docs) \cup {None},    \* doc_count of build_meta
   sections : Nat \cup {None},             \* bm25_sections of build_meta
   fresh : SUBSET {"builder", "server"},   \* whose open SELECT sees the last commit
   lock : {"builder", "server", None}]     \* whose write transaction is open

EmptyFile ==
  [schema |-> FALSE, companies |-> {}, alias |-> [n \in Names |-> None],
   docs |-> [d \in Docs |-> None], rows |-> {}, fts |-> None, mark |-> None,
   counted |-> None, sections |-> None, fresh |-> {}, lock |-> None]
-----------------------------------------------------------------------------
(* connect() for writing and init_schema() *)

WithSchema(db) == [db EXCEPT !.schema = TRUE]

\* The SELECTs other connections have open are of the state before a commit.
Committed(db, who) == [db EXCEPT !.fresh = @ \cap {who}]

Released(db, who) ==
  [db EXCEPT !.lock = IF @ = who THEN None ELSE @, !.fresh = @ \ {who}]

\* Another connection is in the middle of a write transaction: a write waits
\* and fails after five seconds.
LockedOut(db, who) == db.lock \notin {who, None}
-----------------------------------------------------------------------------
(* build_alias_table(): a universe is a set of <<name, company>>, of which   *)
(* the names added by hand count only if the company is there otherwise.     *)

NamesOf(universe, manual) ==
  universe \cup {m \in manual : \E u \in universe : u[2] = m[2]}

\* A mutant's: the last universe wins.
NoAliasConflict(db, names) == FALSE

\* A name that is already another company's, in the file or in the universe.
AliasConflict(db, names) ==
  \/ \E n \in names : db.alias[n[1]] \notin {n[2], None}
  \/ \E n, m \in names : n[1] = m[1] /\ n[2] # m[2]

\* A mutant's: the columns are swapped.
OwnerSwapped(db, names, n) ==
  IF \E m \in names : m[1] = n THEN (CHOOSE m \in names : m[1] = n)[1] ELSE db.alias[n]

OwnerOf(db, names, n) ==
  IF \E m \in names : m[1] = n THEN (CHOOSE m \in names : m[1] = n)[2] ELSE db.alias[n]

WithCompanies(db, names) ==
  [db EXCEPT !.companies = @ \cup {n[2] : n \in names},
             !.alias = [n \in Names |-> OwnerOf(db, names, n)]]
-----------------------------------------------------------------------------
(* clear_doc() and store() of repository.py *)

\* The UNIQUE constraints: of a table row that is NULL in one of its fields
\* any number is stored, and two tables have no constraint.
Conflict(q, r) ==
  /\ q.table = r.table
  /\ q.doc = r.doc
  /\ \/ r.table = "section" /\ q.key = r.key
     \/ r.table = "fin_fact" /\ q.key = r.key /\ q.key # None
     \/ r.table \in Events

RowsOf(d, f) ==
  UNION {{[table |-> t, doc |-> d, file |-> f, key |-> Parsed[f][t][n], nr |-> n, rowid |-> 0] :
            n \in DOMAIN Parsed[f][t]} : t \in Tables}

\* ON CONFLICT DO NOTHING: the first row stays.
Accepted(stored, new) ==
  {r \in new : /\ \A q \in stored : ~ Conflict(q, r)
               /\ \A q \in new : Conflict(q, r) => q.nr >= r.nr}

Sections(rows) == {r \in rows : r.table = "section"}

LastRowid(rows) ==
  IF Sections(rows) = {} THEN 0
  ELSE CHOOSE i \in {r.rowid : r \in Sections(rows)} : \A q \in Sections(rows) : q.rowid <= i

\* The table of sections has implicit rowids: the highest one in use plus 1.
WithRowids(stored, new) ==
  {IF r.table # "section" THEN r
   ELSE [r EXCEPT !.rowid =
           LastRowid(stored) + Cardinality({q \in Sections(new) : q.nr <= r.nr})] : r \in new}

Cleared(db, d) ==
  [db EXCEPT !.rows = {r \in @ : ~ (r.doc = d /\ r.table \in ClearedTables)}]

Upserted(db, d, f) ==
  IF db.docs[d] # None THEN [db.docs[d] EXCEPT !.warnings = f]
  ELSE [meta |-> f, warnings |-> f, points |-> None, effective |-> TRUE]

Stored(db, d, f) ==
  [db EXCEPT !.docs[d] = Upserted(db, d, f),
             !.rows = @ \cup WithRowids(@, Accepted(@, RowsOf(d, f)))]

\* The foreign key of document refuses a company that no universe had.
Storable(db, d) == CorpOf[d] \in db.companies

-----------------------------------------------------------------------------
(* resolve_chains(): a pointer is set, never reset *)

\* The rows that name what a document corrects, or the report before it.
Corrects(db, d) ==
  \E r \in db.rows : r.doc = d /\ r.table \in {"correction_diff", "holding_event"}

Points(db, d) ==
  IF Corrects(db, d) /\ Original[d] # None /\ db.docs[Original[d]] # None THEN Original[d]
  ELSE db.docs[d].points

Superseded(db) == {Points(db, d) : d \in {e \in Docs : db.docs[e] # None}} \ {None}

Resolved(db) ==
  [db EXCEPT !.docs = [d \in Docs |->
     IF @[d] = None THEN None
     ELSE [@[d] EXCEPT !.points = Points(db, d), !.effective = d \notin Superseded(db)]]]
-----------------------------------------------------------------------------
(* build_fts(): DROP and CREATE commit themselves, the rows and the mark     *)
(* follow in one transaction.                                                *)

Dropped(db) == [db EXCEPT !.fts = None]
Created(db) == [db EXCEPT !.fts = {}]

Effective(db, d) == db.docs[d] # None /\ db.docs[d].effective

\* The SELECT of build_fts() and of load_index().
Indexable(db) == {r \in Sections(db.rows) : Effective(db, r.doc)}

Rowids(rows) == {r.rowid : r \in rows}

\* The INSERTs of the rows a scan has found: without the table, or with a rowid
\* taken by another process that filled it meanwhile, they fail.  Rows that fit
\* in one batch are inserted when the SELECT has ended, however old they are by
\* then; of more rows the first batch comes within the SELECT, and fails if there
\* was a commit since.
Fillable(db, found, who) ==
  /\ db.fts # None
  /\ Rowids(db.fts) \cap Rowids(found) = {}
  /\ Cardinality(found) > BatchRows => who \in db.fresh

\* A mutant's: INSERT OR IGNORE.
FilledKeepingMark(db, found, mode) ==
  [db EXCEPT !.fts = @ \cup found, !.mark = IF @ = None THEN mode ELSE @]

Filled(db, found, mode) == [db EXCEPT !.fts = @ \cup found, !.mark = mode]

\* A mutant's: a table without rows is ready.
FtsReadyEvenEmpty(db, mode) == db.fts # None /\ db.mark = mode

\* fts_ready()
FtsReady(db, mode) == db.fts \notin {None, {}} /\ db.mark = mode

\* A mutant's: without d.is_effective=1.
FtsHitsUnfiltered(db) ==
  IF db.fts = None THEN {}
  ELSE {h \in db.fts \X Sections(db.rows) : h[1].rowid = h[2].rowid}

\* FtsIndex.search() before its other filters, ranking and LIMIT: what was
\* indexed joined by rowid to what is stored now.  A hit is both.
FtsHits(db) ==
  IF db.fts = None THEN {}
  ELSE {h \in db.fts \X Sections(db.rows) :
          h[1].rowid = h[2].rowid /\ Effective(db, h[2].doc)}
-----------------------------------------------------------------------------
(* What a database file that only complete transactions reached looks like. *)

Unnumbered(rows) == {[r EXCEPT !.rowid = 0] : r \in rows}

\* The rows of a file loaded into an empty database.
RowsAlone == [d \in Docs |-> [f \in Files |-> Accepted({}, RowsOf(d, f))]]

\* A document's rows are those of its last loaded file, without gaps,
\* leftovers or duplicates.
DocumentIsWhole(db, d) ==
  Unnumbered({r \in db.rows : r.doc = d}) =
    IF db.docs[d] = None THEN {} ELSE RowsAlone[d][db.docs[d].warnings]

RowidsUnique(db) == \A q, r \in Sections(db.rows) : q.rowid = r.rowid => q = r

\* What searches can find is each section of an effective document, as it is
\* stored, and nothing else.
SearchIsCurrent(db) == FtsHits(db) = {<<r, r>> : r \in Indexable(db)}
=============================================================================
