------------------------- MODULE ServerIndexProofs -------------------------
(***************************************************************************)
(* The index of builder and server, for every corpus, parser and number of *)
(* runs: what a finished run leaves, what a server finds in it, and what a *)
(* start that nothing disturbs leaves.                                     *)
(*                                                                         *)
(* Both build the same table without a lock around DROP, CREATE and the    *)
(* rows, and the server may insert rows it scanned long ago.  What holds   *)
(* between them is that a process in its last transaction has the lock of  *)
(* its file and a table without the rowids it adds, and that from the end  *)
(* of that transaction of the builder's a table is empty or has every      *)
(* section of an effective document, whatever else it has: a server that   *)
(* empties it afterwards scans what the builder has left.                  *)
(***************************************************************************)
EXTENDS ServerStartProofs

\* Effective are the documents that no other points to.
ChainsOK(db) ==
  \A d \in Docs : db.docs[d] # None =>
    /\ db.docs[d].points # None => db.docs[db.docs[d].points] # None
    /\ db.docs[d].effective <=> ~ \E e \in Docs : db.docs[e] # None /\ db.docs[e].points = d

UniqueIds(rows) == \A q, r \in rows : q.rowid = r.rowid => q = r

\* What is in a table, or what a scan has found.
RowsOK(rows) == rows \in SUBSET Row /\ IsFiniteSet(rows) /\ UniqueIds(rows)

DbOK(db) ==
  /\ db \in Database
  /\ IsFiniteSet(db.rows)
  /\ db.fts # None => RowsOK(db.fts)
  /\ ChainsOK(db)
-----------------------------------------------------------------------------
(***************************************************************************)
(* A document has finitely many rows.                                      *)
(***************************************************************************)
LEMMA RowsOfIsFinite ==
  ASSUME NEW d \in Docs, NEW f \in Files
  PROVE  IsFiniteSet(RowsAlone[d][f])
<1> DEFINE Of(t) == {r \in RowsOf(d, f) : r.table = t}
<1>1. ASSUME NEW t \in Tables
      PROVE  IsFiniteSet(Of(t))
  <2> DEFINE n == Len(Parsed[f][t])
             S == Of(t)
             nr == [r \in S |-> r.nr]
  <2>1. Parsed[f][t] \in Seq(Keys \cup {None})
    BY StoreAssumption
  <2>2. n \in Int /\ 1 \in Int
    BY <2>1
  <2>3. IsFiniteSet(1..n)
    <3> HIDE DEF n
    <3> QED BY <2>2, FS_Interval
  <2>4. \A r \in S : /\ r.nr \in 1..n
                     /\ r = [table |-> t, doc |-> d, file |-> f,
                             key |-> Parsed[f][t][r.nr], nr |-> r.nr, rowid |-> 0]
    BY RowsOfShape
  <2>5. \A q, r \in S : q.nr = r.nr => q = r
    BY <2>4
  <2> HIDE DEF S, n
  <2>6. nr \in [S -> 1..n] /\ \A q, r \in S : nr[q] = nr[r] => q = r
    BY <2>4, <2>5
  <2>7. nr \in Injection(S, 1..n)
    BY <2>6 DEF Injection, IsInjective
  <2>8. IsFiniteSet(S)
    BY <2>3, <2>7, FS_Injection
  <2> QED BY <2>8 DEF S
<1> HIDE DEF Of
<1> DEFINE all == Of("fin_fact") \cup Of("section") \cup Of("correction_diff")
                    \cup Of("registry_row") \cup Of("contract_event") \cup Of("capital_event")
                    \cup Of("holding_event")
<1>2. Tables = {"fin_fact", "section", "correction_diff", "registry_row", "contract_event",
                "capital_event", "holding_event"}
  BY DEF Tables, Events
<1>3. IsFiniteSet(all)
  BY <1>1, <1>2, FS_Union
<1>4. RowsAlone[d][f] \in SUBSET all
  <2>1. \A r \in RowsOf(d, f) : r.table \in Tables
    BY RowsOfShape DEF Row
  <2> QED BY <1>2, <2>1, AloneShape DEF Of
<1> HIDE DEF all
<1> QED BY <1>3, <1>4, FS_Subset

LEMMA NumberingIsFinite ==
  ASSUME NEW old, NEW new, IsFiniteSet(new)
  PROVE  IsFiniteSet(WithRowids(old, new))
<1> DEFINE Place(r) == LastRowid(old) + Cardinality({q \in Sections(new) : q.nr <= r.nr})
           Numbered(r) == IF r.table # "section" THEN r ELSE [r EXCEPT !.rowid = Place(r)]
           T == {Numbered(r) : r \in new}
           f == [r \in new |-> Numbered(r)]
<1>1. T = WithRowids(old, new)
  BY DEF WithRowids
<1> HIDE DEF Numbered
<1>2. f \in Surjection(new, T)
  BY DEF Surjection
<1>3. IsFiniteSet(T)
  <2> HIDE DEF T, f
  <2> QED BY <1>2, FS_Surjection
<1> QED BY <1>1, <1>3
-----------------------------------------------------------------------------
(***************************************************************************)
(* Commits that leave rows and documents alone.                            *)
(***************************************************************************)
Whose == {"builder", "server"}

SameContent(db, new) == new.rows = db.rows /\ new.docs = db.docs

LEMMA ContentDecides ==
  ASSUME NEW db, NEW new, SameContent(db, new)
  PROVE  /\ Indexable(new) = Indexable(db)
         /\ ChainsOK(db) => ChainsOK(new)
BY DEF SameContent, Indexable, Effective, ChainsOK

LEMMA SameContentKeeps ==
  ASSUME NEW db, NEW new, DbOK(db), new \in Database, SameContent(db, new),
         new.fts = db.fts
  PROVE  DbOK(new)
BY ContentDecides DEF DbOK, SameContent

LEMMA Fields ==
  ASSUME NEW db \in Database
  PROVE  /\ db.schema \in BOOLEAN /\ db.companies \in SUBSET Corps
         /\ db.alias \in [Names -> Corps \cup {None}]
         /\ db.docs \in [Docs -> Document \cup {None}]
         /\ db.rows \in SUBSET Row
         /\ db.fts \in (SUBSET Row) \cup {None}
         /\ db.mark \in Modes \cup {None}
         /\ db.counted \in (SUBSET Docs) \cup {None}
         /\ db.sections \in Nat \cup {None}
         /\ db.fresh \in SUBSET Whose
         /\ db.lock \in {"builder", "server", None}
BY DEF Database, Whose

LEMMA FreshChanges ==
  ASSUME NEW db \in Database, NEW x \in SUBSET Whose, NEW new, new = [db EXCEPT !.fresh = x]
  PROVE  /\ new \in Database /\ new.fresh = x
         /\ SameContent(db, new) /\ new.fts = db.fts /\ new.lock = db.lock /\ new.mark = db.mark
         /\ new.companies = db.companies /\ new.alias = db.alias
BY DEF Database, Whose, SameContent

LEMMA LockChanges ==
  ASSUME NEW db \in Database, NEW x \in {"builder", "server", None}, NEW new,
         new = [db EXCEPT !.lock = x]
  PROVE  /\ new \in Database /\ new.fresh = db.fresh
         /\ SameContent(db, new) /\ new.fts = db.fts /\ new.lock = x /\ new.mark = db.mark
BY DEF Database, SameContent

LEMMA FtsChanges ==
  ASSUME NEW db \in Database, NEW x \in (SUBSET Row) \cup {None}, NEW new,
         new = [db EXCEPT !.fts = x]
  PROVE  /\ new \in Database /\ new.fresh = db.fresh
         /\ SameContent(db, new) /\ new.fts = x /\ new.lock = db.lock /\ new.mark = db.mark
BY DEF Database, SameContent

LEMMA MarkChanges ==
  ASSUME NEW db \in Database, NEW x \in Modes, NEW new, new = [db EXCEPT !.mark = x]
  PROVE  /\ new \in Database /\ new.fresh = db.fresh
         /\ SameContent(db, new) /\ new.fts = db.fts /\ new.lock = db.lock /\ new.mark = x
BY DEF Database, SameContent

LEMMA MetaChanges ==
  ASSUME NEW db \in Database, NEW x \in SUBSET Docs, NEW n \in Nat, NEW new,
         \/ new = [db EXCEPT !.counted = x]
         \/ new = [db EXCEPT !.sections = n]
         \/ new = [db EXCEPT !.schema = TRUE]
  PROVE  /\ new \in Database /\ new.fresh = db.fresh
         /\ SameContent(db, new) /\ new.fts = db.fts /\ new.lock = db.lock
<1>1. CASE new = [db EXCEPT !.counted = x]
  BY <1>1 DEF Database, SameContent
<1>2. CASE new = [db EXCEPT !.sections = n]
  BY <1>2 DEF Database, SameContent
<1>3. CASE new = [db EXCEPT !.schema = TRUE]
  BY <1>3 DEF Database, SameContent
<1> QED BY <1>1, <1>2, <1>3

LEMMA CommittedKeeps ==
  ASSUME NEW db, DbOK(db), NEW who \in Whose, NEW new, new = Committed(db, who)
  PROVE  /\ DbOK(new) /\ SameContent(db, new) /\ new.fts = db.fts /\ new.lock = db.lock
         /\ new.mark = db.mark
<1>1. db \in Database
  BY DEF DbOK
<1>2. db.fresh \cap {who} \in SUBSET Whose
  BY <1>1, Fields
<1>3. new = [db EXCEPT !.fresh = db.fresh \cap {who}]
  BY DEF Committed
<1>4. /\ new \in Database
      /\ SameContent(db, new) /\ new.fts = db.fts /\ new.lock = db.lock
      /\ new.mark = db.mark
  BY <1>1, <1>2, <1>3, FreshChanges
<1> QED BY <1>4, SameContentKeeps

LEMMA ReleasedKeeps ==
  ASSUME NEW db, DbOK(db), NEW who \in Whose, NEW new, new = Released(db, who)
  PROVE  /\ DbOK(new) /\ SameContent(db, new) /\ new.fts = db.fts /\ new.mark = db.mark
         /\ new.lock = IF db.lock = who THEN None ELSE db.lock
<1> DEFINE lock == IF db.lock = who THEN None ELSE db.lock
           free == [db EXCEPT !.lock = lock]
<1>1. db \in Database
  BY DEF DbOK
<1>2. lock \in {"builder", "server", None} /\ db.fresh \ {who} \in SUBSET Whose
  BY <1>1, Fields
<1>3. new = [free EXCEPT !.fresh = db.fresh \ {who}]
  BY DEF Released
<1> HIDE DEF free, lock
<1>4. /\ free \in Database /\ free.fresh = db.fresh
      /\ SameContent(db, free) /\ free.fts = db.fts /\ free.lock = lock /\ free.mark = db.mark
  BY <1>1, <1>2, LockChanges DEF free
<1>5. /\ new \in Database
      /\ SameContent(free, new) /\ new.fts = free.fts /\ new.lock = free.lock
      /\ new.mark = free.mark
  BY <1>2, <1>3, <1>4, FreshChanges
<1>6. SameContent(db, new) /\ new.fts = db.fts /\ new.lock = lock /\ new.mark = db.mark
  BY <1>4, <1>5 DEF SameContent
<1> QED BY <1>5, <1>6, SameContentKeeps DEF lock

\* What may be indexed are stored sections, finitely many, each of its rowid.
LEMMA IndexableRows ==
  ASSUME NEW db, DbOK(db)
  PROVE  /\ Indexable(db) \in SUBSET Row /\ IsFiniteSet(Indexable(db))
         /\ RowidsUnique(db) => RowsOK(Indexable(db))
<1>1. Indexable(db) \in SUBSET db.rows /\ Indexable(db) \in SUBSET Sections(db.rows)
  BY DEF Indexable, Sections
<1>2. IsFiniteSet(db.rows) /\ db.rows \in SUBSET Row
  BY Fields DEF DbOK
<1> HIDE DEF Indexable
<1>3. Indexable(db) \in SUBSET Row /\ IsFiniteSet(Indexable(db))
  BY <1>1, <1>2, FS_Subset
<1>4. RowidsUnique(db) => UniqueIds(Indexable(db))
  BY <1>1 DEF RowidsUnique, UniqueIds
<1> QED BY <1>3, <1>4 DEF RowsOK

LEMMA TableChanges ==
  ASSUME NEW db, DbOK(db), NEW x, x = None \/ RowsOK(x),
         NEW new, new = [db EXCEPT !.fts = x]
  PROVE  DbOK(new) /\ SameContent(db, new) /\ new.fts = x /\ new.lock = db.lock
<1>1. db \in Database /\ x \in (SUBSET Row) \cup {None}
  BY DEF DbOK, RowsOK
<1>2. /\ new \in Database
      /\ SameContent(db, new) /\ new.fts = x /\ new.lock = db.lock
  BY <1>1, FtsChanges
<1>3. IsFiniteSet(new.rows) /\ ChainsOK(new)
  BY <1>2, ContentDecides DEF DbOK, SameContent
<1> QED BY <1>2, <1>3 DEF DbOK

\* The rows of a scan may be added to a table.
Apart(rows, found) == Rowids(rows) \cap Rowids(found) = {}

LEMMA NoRowsAreOK == RowsOK({})
BY FS_EmptySet DEF RowsOK, UniqueIds

LEMMA FilledKeeps ==
  ASSUME NEW db, DbOK(db), db.fts # None, NEW found, RowsOK(found), Apart(db.fts, found),
         NEW mode \in Modes, NEW new, new = Filled(db, found, mode)
  PROVE  /\ DbOK(new) /\ SameContent(db, new)
         /\ new.fts = db.fts \cup found
         /\ new.lock = db.lock /\ new.mark = mode
<1> DEFINE all == db.fts \cup found
           full == [db EXCEPT !.fts = all]
<1>1. db \in Database /\ RowsOK(db.fts)
  BY DEF DbOK
<1>2. RowsOK(all)
  <2>1. all \in SUBSET Row /\ IsFiniteSet(all)
    BY <1>1, FS_Union DEF RowsOK
  <2>2. \A q \in db.fts, r \in found : q.rowid # r.rowid
    BY DEF Apart, Rowids
  <2>3. UniqueIds(all)
    BY <1>1, <2>2 DEF RowsOK, UniqueIds
  <2> QED BY <2>1, <2>3 DEF RowsOK
<1>3. new = [full EXCEPT !.mark = mode]
  BY DEF Filled
<1> HIDE DEF all, full
<1>4. DbOK(full) /\ SameContent(db, full) /\ full.fts = all /\ full.lock = db.lock
  BY <1>2, TableChanges DEF full
<1>5. /\ new \in Database
      /\ SameContent(full, new) /\ new.fts = full.fts /\ new.lock = full.lock
      /\ new.mark = mode
  BY <1>3, <1>4, MarkChanges DEF DbOK
<1>6. SameContent(db, new)
  BY <1>4, <1>5 DEF SameContent
<1> QED BY <1>4, <1>5, <1>6, SameContentKeeps DEF all
-----------------------------------------------------------------------------
(***************************************************************************)
(* Commits of the builder that change names, rows or documents.            *)
(***************************************************************************)
LEMMA NamesOfAreNames ==
  ASSUME universe \in Universes \cup {{}}
  PROVE  NamesOf(universe, Manual) \in SUBSET (Names \X Corps)
BY BuildAssumption DEF NamesOf

LEMMA WithCompaniesKeeps ==
  ASSUME NEW db, DbOK(db), NEW names \in SUBSET (Names \X Corps), NEW new,
         new = WithCompanies(db, names)
  PROVE  /\ DbOK(new) /\ SameContent(db, new) /\ new.fts = db.fts /\ new.lock = db.lock
<1> DEFINE companies == db.companies \cup {n[2] : n \in names}
           alias == [n \in Names |-> OwnerOf(db, names, n)]
           half == [db EXCEPT !.companies = companies]
<1>1. db \in Database
  BY DEF DbOK
<1>2. companies \in SUBSET Corps
  <2>1. db.companies \in SUBSET Corps
    BY <1>1, Fields
  <2> QED BY <2>1
<1>3. ASSUME NEW n \in Names
      PROVE  OwnerOf(db, names, n) \in Corps \cup {None}
  <2>1. db.alias[n] \in Corps \cup {None}
    BY <1>1, Fields
  <2> QED BY <2>1 DEF OwnerOf
<1>4. alias \in [Names -> Corps \cup {None}]
  BY <1>3
<1>5. new = [half EXCEPT !.alias = alias]
  BY DEF WithCompanies
<1> HIDE DEF companies, alias
<1>6. half \in Database /\ SameContent(db, half) /\ half.fts = db.fts /\ half.lock = db.lock
  BY <1>1, <1>2 DEF Database, SameContent
<1> HIDE DEF half
<1>7. /\ new \in Database /\ SameContent(half, new) /\ new.fts = half.fts
      /\ new.lock = half.lock
  BY <1>4, <1>5, <1>6 DEF Database, SameContent
<1>8. SameContent(db, new) /\ new.fts = db.fts /\ new.lock = db.lock
  BY <1>6, <1>7 DEF SameContent
<1> QED BY <1>7, <1>8, SameContentKeeps

LEMMA StoredKeeps ==
  ASSUME NEW db, DbOK(db), FileOK(db), NEW d \in Docs, NEW f \in Files, NEW new,
         new = Stored(Cleared(db, d), d, f)
  PROVE  DbOK(new) /\ new.fts = db.fts /\ new.lock = db.lock
<1> DEFINE others == {r \in db.rows : ~ (r.doc = d /\ r.table \in ClearedTables)}
           cleared == Cleared(db, d)
           document == Upserted(cleared, d, f)
           docs == [db.docs EXCEPT ![d] = document]
           rows == others \cup WithRowids(others, RowsAlone[d][f])
           half == [cleared EXCEPT !.docs = docs]
<1>1. db \in Database /\ IsFiniteSet(db.rows)
  BY DEF DbOK
<1>2. others = Others(db, d)
  BY <1>1 DEF Database, Row, ClearedTables, Others
<1>3. others \in SUBSET Row /\ IsFiniteSet(others)
  <2>1. others \in SUBSET db.rows /\ db.rows \in SUBSET Row
    BY <1>1, Fields
  <2> HIDE DEF others
  <2> QED BY <1>1, <2>1, FS_Subset
<1>4. /\ cleared \in Database /\ cleared.rows = others /\ cleared.docs = db.docs
      /\ cleared.fts = db.fts /\ cleared.lock = db.lock
  <2>1. cleared = [db EXCEPT !.rows = others]
    BY DEF Cleared
  <2> HIDE DEF others, cleared
  <2> QED BY <1>1, <1>3, <2>1 DEF Database
<1>5. Accepted(others, RowsOf(d, f)) = RowsAlone[d][f]
  <2>1. \A q \in others : q.doc # d
    BY <1>2 DEF Others
  <2> QED BY <2>1, AcceptedAlone
<1>6. rows \in SUBSET Row /\ IsFiniteSet(rows)
  <2>1. RowsAlone[d][f] \in SUBSET Row /\ IsFiniteSet(RowsAlone[d][f])
    BY AloneShape, RowsOfShape, RowsOfIsFinite
  <2>2. IsFiniteSet(WithRowids(others, RowsAlone[d][f]))
    BY <2>1, NumberingIsFinite
  <2>3. PICK n \in Nat : \A r \in Sections(others) : r.rowid <= n
    BY <1>2 DEF FileOK, RowidsBounded, Sections, Others
  <2>4. WithRowids(others, RowsAlone[d][f]) \in SUBSET Row
    BY <1>3, <2>3, NewRowids
  <2> HIDE DEF others
  <2> QED BY <1>3, <2>2, <2>4, FS_Union
<1>7. db.docs \in [Docs -> Document \cup {None}]
  BY <1>1, Fields
<1>8. /\ document \in Document
      /\ db.docs[d] # None => /\ document.points = db.docs[d].points
                              /\ document.effective = db.docs[d].effective
      /\ db.docs[d] = None => document.points = None /\ document.effective = TRUE
  <2> HIDE DEF cleared
  <2> QED BY <1>4, <1>7 DEF Upserted, Document
<1> HIDE DEF document
<1>9. docs \in [Docs -> Document \cup {None}] /\ docs[d] = document /\ document # None
  BY <1>7, <1>8, StoreAssumption
<1>10. \A e \in Docs \ {d} : docs[e] = db.docs[e]
  BY <1>7
<1>11. new = [half EXCEPT !.rows = rows]
  BY <1>4, <1>5 DEF Stored, document
<1> HIDE DEF cleared, rows, docs
<1>12. /\ half \in Database /\ half.docs = docs /\ half.fts = db.fts /\ half.lock = db.lock
  BY <1>4, <1>9 DEF Database
<1> HIDE DEF half
<1>13. /\ new \in Database /\ new.docs = docs /\ new.rows = rows
       /\ new.fts = db.fts /\ new.lock = db.lock
  BY <1>6, <1>11, <1>12 DEF Database
<1>14. ChainsOK(new)
  <2>1. ChainsOK(db)
    BY DEF DbOK
  <2>2. \A e \in Docs : db.docs[e] # None => db.docs[e].points \in Docs \cup {None}
    BY <1>7 DEF Document
  <2>3. \A e \in Docs : docs[e] = None <=> (e # d /\ db.docs[e] = None)
    BY <1>9, <1>10
  <2>4. None \notin Docs
    BY StoreAssumption
  <2>5. \A e, p \in Docs : docs[e] # None /\ docs[e].points = p
                             <=> db.docs[e] # None /\ db.docs[e].points = p
    BY <1>8, <1>9, <1>10, <2>4
  <2>6. \A e \in Docs : docs[e] # None /\ docs[e].points # None => docs[docs[e].points] # None
    BY <1>8, <1>9, <1>10, <2>1, <2>2, <2>3 DEF ChainsOK
  <2>7. \A e \in Docs : docs[e] # None =>
          (docs[e].effective <=> ~ \E c \in Docs : docs[c] # None /\ docs[c].points = e)
    <3> SUFFICES ASSUME NEW e \in Docs, docs[e] # None
                 PROVE  docs[e].effective <=>
                          ~ \E c \in Docs : db.docs[c] # None /\ db.docs[c].points = e
      BY <2>5
    <3>1. CASE db.docs[e] # None
      <4>1. docs[e].effective = db.docs[e].effective
        BY <1>8, <1>9, <1>10, <3>1
      <4> QED BY <2>1, <3>1, <4>1 DEF ChainsOK
    <3>2. CASE db.docs[e] = None
      <4>1. e = d /\ docs[e].effective = TRUE
        BY <1>8, <1>9, <1>10, <3>2
      <4>2. \A c \in Docs : db.docs[c] # None => db.docs[c].points # e
        BY <2>1, <2>4, <3>2 DEF ChainsOK
      <4> QED BY <4>1, <4>2
    <3> QED BY <3>1, <3>2
  <2> QED BY <1>13, <2>6, <2>7 DEF ChainsOK
<1> QED BY <1>6, <1>13, <1>14 DEF DbOK

LEMMA ResolvedKeeps ==
  ASSUME NEW db, DbOK(db), NEW new, new = Resolved(db)
  PROVE  DbOK(new) /\ new.fts = db.fts /\ new.lock = db.lock
<1> DEFINE document(d) == [db.docs[d] EXCEPT !.points = Points(db, d),
                                             !.effective = d \notin Superseded(db)]
           docs == [d \in Docs |-> IF db.docs[d] = None THEN None ELSE document(d)]
<1>1. db \in Database
  BY DEF DbOK
<1>2. db.docs \in [Docs -> Document \cup {None}]
  BY <1>1, Fields
<1>3. ASSUME NEW d \in Docs, db.docs[d] # None
      PROVE  /\ Points(db, d) \in Docs \cup {None}
             /\ Points(db, d) # None => db.docs[Points(db, d)] # None
  <2>1. db.docs[d] \in Document
    BY <1>2, <1>3
  <2>2. ChainsOK(db)
    BY DEF DbOK
  <2> QED BY <1>3, <2>1, <2>2, StoreAssumption DEF Points, Document, ChainsOK
<1>4. ASSUME NEW d \in Docs, db.docs[d] # None
      PROVE  /\ document(d) \in Document /\ document(d) # None
             /\ document(d).points = Points(db, d)
             /\ document(d).effective <=> d \notin Superseded(db)
  <2>1. db.docs[d] \in Document
    BY <1>2, <1>4
  <2>2. (d \notin Superseded(db)) \in BOOLEAN
    OBVIOUS
  <2>3. /\ document(d) \in Document
        /\ document(d).points = Points(db, d)
        /\ document(d).effective = (d \notin Superseded(db))
    BY <1>3, <1>4, <2>1, <2>2 DEF Document
  <2> HIDE DEF document
  <2> QED BY <2>3, StoreAssumption
<1> HIDE DEF document
<1>5. \A d \in Docs : /\ docs[d] \in Document \cup {None}
                      /\ docs[d] = None <=> db.docs[d] = None
                      /\ db.docs[d] # None => docs[d] = document(d)
  BY <1>4
<1>6. docs \in [Docs -> Document \cup {None}]
  <2>1. docs = [d \in Docs |-> docs[d]] /\ DOMAIN docs = Docs
    OBVIOUS
  <2> HIDE DEF docs
  <2> QED BY <1>5, <2>1
<1>7. new = [db EXCEPT !.docs = docs]
  BY DEF Resolved, document
<1> HIDE DEF docs
<1>8. /\ new \in Database /\ new.docs = docs /\ new.rows = db.rows /\ new.fts = db.fts
      /\ new.lock = db.lock
  BY <1>1, <1>6, <1>7 DEF Database
<1>9. ChainsOK(new)
  <2>1. \A d \in Docs : docs[d] # None /\ docs[d].points # None => docs[docs[d].points] # None
    BY <1>3, <1>4, <1>5
  <2>2. \A d \in Docs : d \in Superseded(db) <=>
                          \E e \in Docs : docs[e] # None /\ docs[e].points = d
    <3> SUFFICES ASSUME NEW d \in Docs
                 PROVE  d \in Superseded(db) <=>
                          \E e \in Docs : docs[e] # None /\ docs[e].points = d
      OBVIOUS
    <3>1. d # None
      BY StoreAssumption
    <3>2. d \in Superseded(db) <=> \E e \in Docs : db.docs[e] # None /\ Points(db, e) = d
      BY <3>1 DEF Superseded
    <3> QED BY <1>4, <1>5, <3>2
  <2>3. \A d \in Docs : docs[d] # None => (docs[d].effective <=> d \notin Superseded(db))
    BY <1>4, <1>5
  <2> QED BY <1>8, <2>1, <2>2, <2>3 DEF ChainsOK
<1> QED BY <1>8, <1>9 DEF DbOK
-----------------------------------------------------------------------------
(***************************************************************************)
(* The inductive invariant.                                                *)
(***************************************************************************)
FilesOK ==
  /\ \A i \in Inodes : DbOK(disk[i])
  /\ pickle # None => IsFiniteSet(pickle.rows)
  /\ RowsOK(builder.found) /\ RowsOK(server.found)

\* Whoever is about to commit an index has the lock and a table for its rows.
MayFill(db, who, found) == db.lock = who /\ db.fts # None /\ Apart(db.fts, found)

Locks ==
  /\ builder.pc = "commit" => MayFill(DB, "builder", builder.found)
  /\ server.pc = "commit" => MayFill(Rw, "server", server.found)

\* Which process has a file open, the builder the one that --db names; a server
\* that runs has a tokenizer.
Where ==
  /\ server.pc # "off" => server.mode \in Modes
  /\ builder.inode # 0 <=> builder.pc \in Steps \ {"start", "connect"}
  /\ builder.inode # 0 => path = builder.inode
  /\ builder.pc = "done" => path # 0
  /\ server.rw # 0 <=> server.pc \in SelfBuild \ {"rw"}
  /\ server.pc \in {"check", "count", "legacy", "sections", "up"} \cup SelfBuild =>
       server.conn # 0

\* Nothing is missing in a table, unless it is empty.
Covers(db) == db.fts # None => Indexable(db) \subseteq db.fts
Complete(db) == db.fts = {} \/ Covers(db)

\* Nor will be when the server has filled it: what it has scanned before the
\* builder's rows were there is added to them, else it has scanned them all.
Settled(i) ==
  /\ Complete(disk[i])
  /\ server.rw = i /\ server.pc \in {"insert", "commit"} =>
       server.found = Indexable(disk[i]) \/ Covers(disk[i])

IndexPart ==
  /\ builder.pc \in {"insert", "commit", "count"} => builder.found = Indexable(DB)
  /\ builder.pc \in {"count", "pickle"} => Settled(builder.inode)
  /\ builder.pc = "done" => Settled(path)

\* What a start that nothing disturbs has reached.
Built(db) == Covers(db) /\ db.mark = server.mode

Alone ==
  server.alone =>
    /\ server.pc \in {"check", "count", "legacy", "sections"} \cup SelfBuild =>
         server.conn = path
    /\ server.rw # 0 => server.rw = server.conn
    /\ server.pc = "count" => FtsReady(disk[server.conn], server.mode)
    /\ server.pc = "legacy" => ~ FtsReady(disk[server.conn], server.mode)
    /\ server.pc \in {"insert", "commit"} => server.found = Indexable(Rw)
    /\ server.pc = "recount" => Built(Rw)

IndexInv == TypeOK /\ FilesOK /\ Locks /\ Where /\ IndexPart /\ Alone /\ StartRepairs
-----------------------------------------------------------------------------
(***************************************************************************)
(* What a step of either process does to a file.                           *)
(***************************************************************************)
BuilderWay(db, new) ==
  /\ DbOK(new)
  /\ db.lock = "server" => new.lock = "server" /\ new.fts = db.fts

ServerWay(db, new) ==
  /\ DbOK(new)
  /\ SameContent(db, new)
  /\ db.lock = "builder" => new.lock = "builder" /\ new.fts = db.fts

BuilderDisk == disk' \in [Inodes -> Database] /\ \A i \in Inodes : BuilderWay(disk[i], disk'[i])
ServerDisk == disk' \in [Inodes -> Database] /\ \A i \in Inodes : ServerWay(disk[i], disk'[i])

LEMMA Unlocked ==
  ASSUME NEW db, NEW who \in Whose, ~ LockedOut(db, who)
  PROVE  \A other \in Whose : db.lock = other => other = who
BY StoreAssumption DEF LockedOut, Whose

LEMMA BuilderOneFile ==
  ASSUME TypeOK, FilesOK, NEW k \in Inodes, NEW x, disk' = [disk EXCEPT ![k] = x],
         BuilderWay(disk[k], x)
  PROVE  BuilderDisk /\ disk'[k] = x
<1>1. disk \in [Inodes -> Database] /\ x \in Database
  BY DEF TypeOK, BuildTypeOK, BuilderWay, DbOK
<1>2. disk' \in [Inodes -> Database] /\ disk'[k] = x /\ \A i \in Inodes \ {k} : disk'[i] = disk[i]
  BY <1>1
<1>3. ASSUME NEW i \in Inodes
      PROVE  BuilderWay(disk[i], disk'[i])
  <2>1. CASE i = k
    BY <1>2, <2>1
  <2>2. CASE i # k
    BY <1>2, <2>2 DEF BuilderWay, FilesOK
  <2> QED BY <2>1, <2>2
<1> QED BY <1>2, <1>3 DEF BuilderDisk

LEMMA ServerOneFile ==
  ASSUME TypeOK, FilesOK, NEW k \in Inodes, NEW x, disk' = [disk EXCEPT ![k] = x],
         ServerWay(disk[k], x)
  PROVE  ServerDisk /\ disk'[k] = x
<1>1. disk \in [Inodes -> Database] /\ x \in Database
  BY DEF TypeOK, BuildTypeOK, ServerWay, DbOK
<1>2. disk' \in [Inodes -> Database] /\ disk'[k] = x /\ \A i \in Inodes \ {k} : disk'[i] = disk[i]
  BY <1>1
<1>3. ASSUME NEW i \in Inodes
      PROVE  ServerWay(disk[i], disk'[i])
  <2>1. CASE i = k
    BY <1>2, <2>1
  <2>2. CASE i # k
    BY <1>2, <2>2 DEF ServerWay, FilesOK, SameContent
  <2> QED BY <2>1, <2>2
<1> QED BY <1>2, <1>3 DEF ServerDisk

LEMMA NoFileChanges ==
  ASSUME TypeOK, FilesOK, disk' = disk
  PROVE  BuilderDisk /\ ServerDisk
BY DEF TypeOK, BuildTypeOK, FilesOK, BuilderDisk, ServerDisk, BuilderWay, ServerWay, SameContent

\* The files in use are files.
LEMMA OpenFiles ==
  ASSUME TypeOK, Where
  PROVE  /\ builder.pc \in Steps \ {"start", "connect"} =>
              builder.inode \in Inodes /\ path = builder.inode
         /\ builder.pc = "done" => path \in Inodes
         /\ server.pc \in SelfBuild \ {"rw"} => server.rw \in Inodes
         /\ server.pc \in {"check", "count", "legacy", "sections", "up"} \cup SelfBuild =>
              server.conn \in Inodes
         /\ 0 \notin Inodes /\ builder.inode \in Inodes \cup {0} /\ server.rw \in Inodes \cup {0}
<1>1. /\ builder.inode \in Inodes \cup {0} /\ path \in Inodes \cup {0}
      /\ server.rw \in Inodes \cup {0} /\ server.conn \in Inodes \cup {0}
  BY DEF TypeOK, BuildTypeOK
<1>2. 0 \notin Inodes
  BY BuildAssumption DEF Inodes
<1> QED BY <1>1, <1>2 DEF Where

LEMMA OpenedFile ==
  ASSUME BuildTypeOK, Opened
  PROVE  /\ path' \in Inodes /\ inodes' \in 0..MaxInodes
         /\ path # 0 => path' = path
<1>1. MaxInodes \in Nat /\ inodes \in 0..MaxInodes /\ path \in Inodes \cup {0}
  BY BuildAssumption DEF BuildTypeOK
<1>2. path = 0 => inodes' = inodes + 1 /\ path' = inodes' /\ inodes < MaxInodes
  BY DEF Opened
<1>3. path # 0 => path' = path /\ inodes' = inodes
  BY DEF Opened
<1>4. CASE path = 0
  BY <1>1, <1>2, <1>4 DEF Inodes
<1>5. CASE path # 0
  BY <1>1, <1>3, <1>5
<1> QED BY <1>4, <1>5
-----------------------------------------------------------------------------
(***************************************************************************)
(* The builder's steps.                                                    *)
(***************************************************************************)
LEMMA BuilderCommits ==
  ASSUME TypeOK, FilesOK, builder.inode \in Inodes, NEW db, NEW x,
         disk' = [disk EXCEPT ![builder.inode] = x], x = Committed(db, "builder"), DbOK(db),
         DB.lock = "server" => db.lock = "server" /\ db.fts = DB.fts
  PROVE  /\ BuilderDisk
         /\ LET new == disk'[builder.inode]
            IN SameContent(db, new) /\ new.fts = db.fts /\ new.lock = db.lock
<1>1. "builder" \in Whose
  BY DEF Whose
<1>2. DbOK(x) /\ SameContent(db, x) /\ x.fts = db.fts /\ x.lock = db.lock
  BY <1>1, CommittedKeeps
<1>3. BuilderWay(DB, x)
  BY <1>2 DEF BuilderWay
<1>4. BuilderDisk /\ disk'[builder.inode] = x
  BY <1>3, BuilderOneFile DEF DB
<1> QED BY <1>2, <1>4

LEMMA BuilderReleases ==
  ASSUME TypeOK, FilesOK, builder.inode \in Inodes, NEW x,
         disk' = [disk EXCEPT ![builder.inode] = x], x = Released(DB, "builder")
  PROVE  BuilderDisk
<1>1. "builder" \in Whose /\ DbOK(DB)
  BY DEF Whose, FilesOK, DB
<1>2. /\ DbOK(x) /\ SameContent(DB, x) /\ x.fts = DB.fts
      /\ x.lock = IF DB.lock = "builder" THEN None ELSE DB.lock
  BY <1>1, ReleasedKeeps
<1>3. BuilderWay(DB, x)
  BY <1>2 DEF BuilderWay
<1> QED BY <1>3, BuilderOneFile DEF DB

LEMMA BuilderUnlocked ==
  ASSUME ~ LockedOut(DB, "builder")
  PROVE  DB.lock # "server"
<1>1. "builder" \in Whose /\ "server" \in Whose
  BY DEF Whose
<1> QED BY <1>1, Unlocked

\* The steps before the index.
LEMMA LoadingFiles ==
  ASSUME TypeOK, FilesOK, Where, IInv,
         CreateTables \/ LoadAliases \/ LoadDoc \/ ResolveChains
  PROVE  BuilderDisk
<1> DEFINE k == builder.inode
<1>1. CASE CreateTables
  <2> DEFINE with == WithSchema(DB)
             x == Committed(with, "builder")
  <2>1. /\ builder.pc = "schema" /\ DB.lock # "server"
        /\ disk' = [disk EXCEPT ![k] = x]
    BY <1>1, BuilderUnlocked DEF CreateTables, Commit
  <2>2. k \in Inodes
    BY <2>1, OpenFiles DEF Steps
  <2>3. DbOK(DB) /\ DB \in Database
    BY <2>2 DEF FilesOK, DbOK, DB
  <2>4. with = [DB EXCEPT !.schema = TRUE]
    BY DEF WithSchema
  <2> HIDE DEF with
  <2>5. DbOK(with)
    <3>1. 0 \in Nat /\ {} \in SUBSET Docs
      OBVIOUS
    <3>2. /\ with \in Database /\ SameContent(DB, with) /\ with.fts = DB.fts
      BY <2>3, <2>4, <3>1, MetaChanges
    <3> QED BY <2>3, <3>2, SameContentKeeps
  <2> QED BY <2>1, <2>2, <2>5, BuilderCommits
<1>2. ASSUME builder.pc \in {"aliases", "load", "resolve"}
      PROVE  k \in Inodes /\ DbOK(DB) /\ FileOK(DB)
  <2>1. k \in Inodes
    BY <1>2, OpenFiles DEF Steps
  <2> QED BY <2>1 DEF FilesOK, DB, IInv
<1>3. CASE LoadAliases
  <2> DEFINE names == NamesOf(universe, Manual)
             db == WithCompanies(DB, names)
             x == Committed(db, "builder")
  <2>1. /\ builder.pc = "aliases" /\ DB.lock # "server"
        /\ disk' = [disk EXCEPT ![k] = x]
    BY <1>3, BuilderUnlocked DEF LoadAliases, Commit
  <2>2. names \in SUBSET (Names \X Corps)
    BY NamesOfAreNames DEF TypeOK, BuildTypeOK
  <2>3. DbOK(db)
    BY <1>2, <2>1, <2>2, WithCompaniesKeeps
  <2> HIDE DEF db
  <2> QED BY <1>2, <2>1, <2>3, BuilderCommits
<1>4. CASE LoadDoc
  <2> DEFINE db == Stored(Cleared(DB, Current), Current, corpus[Current])
             x == Committed(db, "builder")
  <2>1. /\ builder.pc = "load" /\ builder.todo # {} /\ DB.lock # "server"
        /\ disk' = [disk EXCEPT ![k] = x]
    BY <1>4, BuilderUnlocked DEF LoadDoc
  <2>2. Current \in Docs /\ corpus[Current] \in Files
    BY <2>1, LinesOfTodo DEF IInv
  <2>3. DbOK(db)
    BY <1>2, <2>1, <2>2, StoredKeeps
  <2> HIDE DEF db
  <2> QED BY <1>2, <2>1, <2>3, BuilderCommits
<1>5. CASE ResolveChains
  <2> DEFINE db == Resolved(DB)
             x == Committed(db, "builder")
  <2>1. /\ builder.pc = "resolve" /\ DB.lock # "server"
        /\ disk' = [disk EXCEPT ![k] = x]
    BY <1>5, BuilderUnlocked DEF ResolveChains, Commit
  <2>2. DbOK(db)
    BY <1>2, <2>1, ResolvedKeeps
  <2> HIDE DEF db
  <2> QED BY <1>2, <2>1, <2>2, BuilderCommits
<1> QED BY <1>1, <1>3, <1>4, <1>5

\* The steps of the index, and what each makes of the table.
LEMMA IndexingFiles ==
  ASSUME TypeOK, FilesOK, Where, Locks, NEW new, new = disk'[builder.inode]
  PROVE  /\ WriteMeta => BuilderDisk
         /\ Drop => BuilderDisk /\ new.fts = None
         /\ Create => BuilderDisk /\ new.fts = {}
         /\ Scan => BuilderDisk /\ SameContent(DB, new) /\ new.fts = DB.fts
         /\ Insert => /\ BuilderDisk /\ SameContent(DB, new) /\ new.fts = DB.fts
                      /\ MayFill(new, "builder", builder.found)
         /\ CommitIndex => /\ BuilderDisk /\ SameContent(DB, new)
                           /\ new.fts = DB.fts \cup builder.found
         /\ CountSections => BuilderDisk /\ SameContent(DB, new) /\ new.fts = DB.fts
<1> DEFINE k == builder.inode
<1>1. ASSUME builder.pc \in Steps \ {"start", "connect"}
      PROVE  k \in Inodes /\ DbOK(DB) /\ DB \in Database
  <2>1. k \in Inodes
    BY <1>1, OpenFiles
  <2> QED BY <2>1 DEF FilesOK, DB, DbOK
<1>2. ASSUME NEW db, NEW x, builder.pc \in Steps \ {"start", "connect"}, DB.lock # "server",
             disk' = [disk EXCEPT ![k] = x], x = Committed(db, "builder"),
             db \in Database, SameContent(DB, db), db.fts = DB.fts
      PROVE  BuilderDisk /\ SameContent(DB, new) /\ new.fts = DB.fts
  <2>1. DbOK(db)
    BY <1>1, <1>2, SameContentKeeps
  <2>2. BuilderDisk /\ SameContent(db, new) /\ new.fts = db.fts
    BY <1>1, <1>2, <2>1, BuilderCommits
  <2> QED BY <1>2, <2>2 DEF SameContent
<1>3. ASSUME WriteMeta
      PROVE  BuilderDisk
  <2> DEFINE db == [DB EXCEPT !.counted = builder.loaded]
             x == Committed(db, "builder")
  <2>1. builder.pc = "meta" /\ DB.lock # "server" /\ disk' = [disk EXCEPT ![k] = x]
    BY <1>3, BuilderUnlocked DEF WriteMeta, Commit
  <2>2. builder.loaded \in SUBSET Docs /\ 0 \in Nat
    BY DEF TypeOK, BuildTypeOK
  <2>3. DB \in Database
    BY <1>1, <2>1 DEF Steps
  <2>4. db \in Database /\ SameContent(DB, db) /\ db.fts = DB.fts
    BY <2>2, <2>3, MetaChanges
  <2> HIDE DEF db
  <2> QED BY <1>2, <2>1, <2>4 DEF Steps
<1>4. ASSUME Drop
      PROVE  BuilderDisk /\ new.fts = None
  <2> DEFINE db == Dropped(DB)
             x == Committed(db, "builder")
  <2>1. builder.pc = "drop" /\ DB.lock # "server" /\ disk' = [disk EXCEPT ![k] = x]
    BY <1>4, BuilderUnlocked DEF Drop, Commit
  <2>2. DbOK(db) /\ db.fts = None
    BY <1>1, <2>1, TableChanges DEF Steps, Dropped
  <2> HIDE DEF db
  <2> QED BY <1>1, <2>1, <2>2, BuilderCommits DEF Steps
<1>5. ASSUME Create
      PROVE  BuilderDisk /\ new.fts = {}
  <2> DEFINE db == Created(DB)
             x == Committed(db, "builder")
  <2>1. builder.pc = "create" /\ DB.lock # "server" /\ disk' = [disk EXCEPT ![k] = x]
    BY <1>5, BuilderUnlocked DEF Create, Commit
  <2>2. DbOK(db) /\ db.fts = {}
    BY <1>1, <2>1, TableChanges, NoRowsAreOK DEF Steps, Created
  <2> HIDE DEF db
  <2> QED BY <1>1, <2>1, <2>2, BuilderCommits DEF Steps
<1>6. ASSUME Scan
      PROVE  BuilderDisk /\ SameContent(DB, new) /\ new.fts = DB.fts
  <2> DEFINE x == [DB EXCEPT !.fresh = DB.fresh \cup {"builder"}]
  <2>1. builder.pc = "scan" /\ disk' = [disk EXCEPT ![k] = x]
    BY <1>6 DEF Scan, DB
  <2>2. k \in Inodes /\ DbOK(DB) /\ DB \in Database
    BY <1>1, <2>1 DEF Steps
  <2>3. DB.fresh \cup {"builder"} \in SUBSET Whose
    BY <2>2, Fields DEF Whose
  <2>4. x \in Database /\ SameContent(DB, x) /\ x.fts = DB.fts /\ x.lock = DB.lock
    BY <2>2, <2>3, FreshChanges
  <2> HIDE DEF x
  <2>5. BuilderWay(DB, x)
    BY <2>2, <2>4, SameContentKeeps DEF BuilderWay
  <2> QED BY <2>1, <2>2, <2>4, <2>5, BuilderOneFile DEF DB
<1>7. ASSUME Insert
      PROVE  /\ BuilderDisk /\ SameContent(DB, new) /\ new.fts = DB.fts
             /\ MayFill(new, "builder", builder.found)
  <2> DEFINE x == [DB EXCEPT !.lock = "builder"]
  <2>1. /\ builder.pc = "insert" /\ DB.lock # "server" /\ DB.fts # None
        /\ Apart(DB.fts, builder.found)
        /\ disk' = [disk EXCEPT ![k] = x]
    BY <1>7, BuilderUnlocked DEF Insert, Fillable, Apart, DB
  <2>2. k \in Inodes /\ DbOK(DB) /\ DB \in Database
    BY <1>1, <2>1 DEF Steps
  <2>3. x \in Database /\ SameContent(DB, x) /\ x.fts = DB.fts /\ x.lock = "builder"
    BY <2>2, LockChanges
  <2> HIDE DEF x
  <2>4. BuilderWay(DB, x)
    BY <2>1, <2>2, <2>3, SameContentKeeps DEF BuilderWay
  <2> QED BY <2>1, <2>2, <2>3, <2>4, BuilderOneFile DEF DB, MayFill
<1>8. ASSUME CommitIndex
      PROVE  /\ BuilderDisk /\ SameContent(DB, new)
             /\ new.fts = DB.fts \cup builder.found
  <2> DEFINE full == Filled(DB, builder.found, BuilderMode)
             db == Released(full, "builder")
             x == Committed(db, "builder")
  <2>1. builder.pc = "commit" /\ disk' = [disk EXCEPT ![k] = x]
    BY <1>8 DEF CommitIndex, Commit
  <2>2. /\ DB.lock = "builder" /\ DB.fts # None /\ "builder" \in Whose
        /\ Apart(DB.fts, builder.found)
    BY <2>1 DEF Locks, MayFill, Whose
  <2>3. k \in Inodes /\ DbOK(DB) /\ RowsOK(builder.found)
    BY <1>1, <2>1 DEF Steps, FilesOK
  <2>4. /\ DbOK(full) /\ SameContent(DB, full)
        /\ full.fts = DB.fts \cup builder.found
    BY <2>2, <2>3, BuildAssumption, FilledKeeps
  <2> HIDE DEF full
  <2>5. DbOK(db) /\ SameContent(full, db) /\ db.fts = full.fts
    BY <2>2, <2>4, ReleasedKeeps
  <2> HIDE DEF db
  <2>6. BuilderDisk /\ SameContent(db, new) /\ new.fts = db.fts
    BY <2>1, <2>2, <2>3, <2>5, BuilderCommits
  <2> QED BY <2>4, <2>5, <2>6 DEF SameContent
<1>9. ASSUME CountSections
      PROVE  BuilderDisk /\ SameContent(DB, new) /\ new.fts = DB.fts
  <2> DEFINE n == Cardinality(builder.found)
             db == [DB EXCEPT !.sections = n]
             x == Committed(db, "builder")
  <2>1. builder.pc = "count" /\ DB.lock # "server" /\ disk' = [disk EXCEPT ![k] = x]
    BY <1>9, BuilderUnlocked DEF CountSections, Commit
  <2>2. DB \in Database /\ n \in Nat /\ {} \in SUBSET Docs
    BY <1>1, <2>1, FS_CardinalityType DEF Steps, FilesOK, RowsOK
  <2> HIDE DEF n
  <2>3. db \in Database /\ SameContent(DB, db) /\ db.fts = DB.fts
    BY <2>2, MetaChanges
  <2> HIDE DEF db
  <2> QED BY <1>2, <2>1, <2>3 DEF Steps
<1> QED BY <1>3, <1>4, <1>5, <1>6, <1>7, <1>8, <1>9

LEMMA BuilderFiles ==
  ASSUME IndexInv, IInv, BuildNext
  PROVE  BuilderDisk
<1> USE DEF IndexInv
<1>1. CASE CreateTables \/ LoadAliases \/ LoadDoc \/ ResolveChains
  BY <1>1, LoadingFiles
<1>2. CASE WriteMeta \/ Drop \/ Create \/ Scan \/ Insert \/ CommitIndex \/ CountSections
  BY <1>2, IndexingFiles
<1>3. CASE \/ Unlink \/ Connect \/ TablesAreThere \/ ConflictOfAliases \/ ParseFails
           \/ StoreFails \/ NothingSelected \/ SavePickle \/ \E c \in Choices : Start(c)
  <2>1. disk' = disk
    BY <1>3 DEF Unlink, Connect, TablesAreThere, ConflictOfAliases, ParseFails, StoreFails, NothingSelected, SavePickle,
                Start, fileVars
  <2> QED BY <2>1, NoFileChanges
<1>4. CASE Fails \/ Kill
  <2> DEFINE x == Released(DB, "builder")
  <2>1. \/ disk' = disk
        \/ builder.inode # 0 /\ disk' = [disk EXCEPT ![builder.inode] = x]
    <3>1. CASE Kill
      BY <3>1 DEF Kill, DB
    <3>2. CASE Fails
      <4>1. builder.pc \in Steps \ {"start", "connect"}
        BY <3>2 DEF Fails, Steps
      <4>2. builder.inode # 0
        BY <4>1, OpenFiles
      <4> QED BY <3>2, <4>2 DEF Fails, DB
    <3> QED BY <1>4, <3>1, <3>2
  <2>2. builder.inode \in Inodes \cup {0}
    BY OpenFiles
  <2> QED BY <2>1, <2>2, NoFileChanges, BuilderReleases
<1> QED BY <1>1, <1>2, <1>3, <1>4 DEF BuildNext, BuildStep

\* The builder's position, its file and what it counts.
LEMMA BuilderTypes ==
  ASSUME IndexInv, IInv, BuildNext
  PROVE  /\ BuildTypeOK'
         /\ pickle' # None => IsFiniteSet(pickle'.rows)
         /\ builder'.inode # 0 <=> builder'.pc \in Steps \ {"start", "connect"}
         /\ builder'.inode # 0 => path' = builder'.inode
         /\ builder'.pc = "done" => path' # 0
         /\ RowsOK(builder'.found)
<1> USE DEF IndexInv, TypeOK
<1>1. disk' \in [Inodes -> Database]
  BY BuilderFiles DEF BuilderDisk
<1> DEFINE Rest == /\ path' \in Inodes \cup {0} /\ inodes' \in 0..MaxInodes
                   /\ corpus' \in [Docs -> Files \cup {None}]
                   /\ universe' \in Universes \cup {{}}
           SavedOK == /\ pickle' = None \/ pickle' \in [mode : Modes, rows : SUBSET Row]
                      /\ pickle' # None => IsFiniteSet(pickle'.rows)
           Process == [pc : Steps \cup Ended, runs : 0..MaxRuns, inode : Inodes \cup {0},
                       rebuild : BOOLEAN, todo : SUBSET DOMAIN Manifest,
                       loaded : SUBSET Docs, also : BOOLEAN, found : SUBSET Row]
           Place == /\ builder'.inode # 0 <=> builder'.pc \in Steps \ {"start", "connect"}
                    /\ builder'.inode # 0 => path' = builder'.inode
                    /\ builder'.pc = "done" => path' # 0
                    /\ RowsOK(builder'.found)
<1>2. /\ path \in Inodes \cup {0} /\ inodes \in 0..MaxInodes
      /\ corpus \in [Docs -> Files \cup {None}] /\ universe \in Universes \cup {{}}
      /\ pickle = None \/ pickle \in [mode : Modes, rows : SUBSET Row]
      /\ pickle # None => IsFiniteSet(pickle.rows)
      /\ builder \in Process /\ RowsOK(builder.found)
  BY DEF BuildTypeOK, FilesOK
<1>3. /\ builder.inode # 0 <=> builder.pc \in Steps \ {"start", "connect"}
      /\ builder.inode # 0 => path = builder.inode
      /\ builder.pc = "done" => path # 0
      /\ 0 \notin Inodes
  BY OpenFiles DEF Where
<1>4. SUFFICES Rest /\ SavedOK /\ builder' \in Process /\ Place
  BY <1>1 DEF BuildTypeOK
<1> HIDE DEF IndexInv, TypeOK
<1>5. \A how \in {"done", "dead"} :
        /\ Over(how) \in Process /\ Over(how).inode = 0 /\ Over(how).pc = how
        /\ RowsOK(Over(how).found)
  BY <1>2, NoRowsAreOK DEF Over, Ended
<1>6. ASSUME NEW step \in (Steps \ {"start", "connect"}) \cup {"done"},
             Goto(step), builder.pc \in Steps \ {"start", "connect"}, path' = path
      PROVE  builder' \in Process /\ Place
  <2>1. path # 0
    BY <1>3, <1>6
  <2>2. CASE step = "done"
    BY <1>5, <1>6, <2>1, <2>2 DEF Goto, Ended, Steps
  <2>3. CASE step # "done"
    <3>1. builder' = [builder EXCEPT !.pc = step]
      BY <1>6, <2>3 DEF Goto, Ended, Steps
    <3> QED BY <1>2, <1>3, <1>6, <2>3, <3>1
  <2> QED BY <2>2, <2>3
<1>7. ASSUME UNCHANGED <<path, inodes, pickle, corpusVars>>
      PROVE  Rest /\ SavedOK
  BY <1>2, <1>7 DEF corpusVars
<1>8. CASE \E c \in Choices : Start(c)
  <2>1. PICK c \in Choices : Start(c)
    BY <1>8
  <2>2. /\ corpus' \in Corpora /\ universe' \in Universes
        /\ builder' = [builder EXCEPT !.pc = "start", !.runs = @ + 1, !.rebuild = c.rebuild,
                                      !.todo = Selected(corpus', c), !.also = c.also]
        /\ builder.pc \in Ended /\ builder.runs < MaxRuns
        /\ UNCHANGED <<path, inodes, pickle>>
    BY <2>1 DEF Start, fileVars
  <2>3. Rest /\ SavedOK
    BY <1>2, <2>2, BuildAssumption
  <2>4. c.rebuild \in BOOLEAN /\ c.also \in BOOLEAN
    BY BuildAssumption
  <2>5. Selected(corpus', c) \in SUBSET DOMAIN Manifest
    BY DEF Selected
  <2>6. builder.runs + 1 \in 0..MaxRuns
    BY <1>2, <2>2, BuildAssumption
  <2>7. builder' \in Process
    BY <1>2, <2>2, <2>4, <2>5, <2>6 DEF Steps
  <2>8. /\ builder'.inode = builder.inode /\ builder'.pc = "start"
        /\ builder'.found = builder.found
    BY <1>2, <2>2
  <2>9. builder.inode = 0
    BY <1>3, <2>2 DEF Ended, Steps
  <2> QED BY <1>2, <2>3, <2>7, <2>8, <2>9 DEF Steps
<1>9. CASE Unlink
  <2>1. /\ builder.pc = "start" /\ builder' = [builder EXCEPT !.pc = "connect"]
        /\ path' \in {0, path} /\ UNCHANGED <<inodes, pickle, corpus, universe>>
    BY <1>9 DEF Unlink, Goto, Ended, corpusVars
  <2> QED BY <1>2, <1>3, <2>1 DEF Steps
<1>10. CASE Connect
  <2>1. /\ Opened /\ builder' = [builder EXCEPT !.pc = "schema", !.inode = path']
        /\ UNCHANGED <<pickle, corpus, universe>>
    BY <1>10 DEF Connect, corpusVars
  <2>2. path' \in Inodes /\ inodes' \in 0..MaxInodes
    BY <2>1, OpenedFile DEF IndexInv, TypeOK
  <2> QED BY <1>2, <1>3, <2>1, <2>2 DEF Steps
<1>11. CASE ParseFails \/ StoreFails \/ LoadDoc
  <2>1. /\ builder.pc = "load" /\ builder.todo # {}
        /\ \E loaded \in {builder.loaded, builder.loaded \cup {Current}} : NextDoc(loaded)
        /\ UNCHANGED <<path, inodes, pickle, corpusVars>>
    BY <1>11 DEF ParseFails, StoreFails, LoadDoc, fileVars
  <2>2. PICK loaded \in {builder.loaded, builder.loaded \cup {Current}} : NextDoc(loaded)
    BY <2>1
  <2>3. Current \in Docs
    BY <2>1, LinesOfTodo DEF IInv
  <2>4. loaded \in SUBSET Docs
    BY <1>2, <2>2, <2>3
  <2>5. builder' = [builder EXCEPT !.todo = builder.todo \ {FirstLine}, !.loaded = loaded,
                             !.pc = IF builder.todo = {FirstLine} THEN "resolve" ELSE "load"]
    BY <2>2 DEF NextDoc
  <2>6. /\ builder' \in Process /\ builder'.inode = builder.inode
        /\ builder'.pc \in {"load", "resolve"} /\ builder'.found = builder.found
    BY <1>2, <2>4, <2>5 DEF Steps
  <2> QED BY <1>2, <1>3, <1>7, <2>1, <2>6 DEF Steps
<1>15. CASE Scan
  <2> DEFINE found == Indexable(DB)
  <2>1. /\ builder.pc = "scan" /\ UNCHANGED <<path, inodes, pickle, corpusVars>>
        /\ builder' = [builder EXCEPT !.pc = "insert", !.found = found]
    BY <1>15 DEF Scan
  <2>2. builder.inode \in Inodes
    BY <2>1, OpenFiles DEF Steps, IndexInv
  <2>3. DbOK(DB) /\ RowidsUnique(DB)
    BY <2>2 DEF FilesOK, DB, IndexInv, IInv, FileOK
  <2>4. RowsOK(found)
    BY <2>3, IndexableRows
  <2> HIDE DEF found
  <2>5. found \in SUBSET Row
    BY <2>4 DEF RowsOK
  <2>6. /\ builder' \in Process /\ builder'.inode = builder.inode
        /\ builder'.pc = "insert" /\ builder'.found = found
    BY <1>2, <2>1, <2>5 DEF Steps
  <2> QED BY <1>3, <1>7, <2>1, <2>4, <2>6 DEF Steps
<1>12. CASE \/ TablesAreThere \/ CreateTables \/ LoadAliases \/ NothingSelected
            \/ ResolveChains \/ WriteMeta \/ Drop \/ Create \/ Insert \/ CommitIndex
            \/ CountSections
  <2>1. /\ builder.pc \in Steps \ {"start", "connect"}
        /\ \E step \in (Steps \ {"start", "connect"}) \cup {"done"} : Goto(step)
        /\ UNCHANGED <<path, inodes, pickle, corpusVars>>
    BY <1>12 DEF TablesAreThere, CreateTables, LoadAliases, NothingSelected, ResolveChains,
                 WriteMeta, Drop, Create, Insert, CommitIndex, CountSections, Commit, Steps, fileVars
  <2> QED BY <1>6, <1>7, <2>1
<1>13. CASE SavePickle
  <2>1. /\ builder.pc = "pickle" /\ Goto("done")
        /\ UNCHANGED <<path, inodes, corpus, universe>>
        /\ pickle' = [mode |-> BuilderMode, rows |-> Indexable(DB)]
    BY <1>13 DEF SavePickle, corpusVars
  <2>2. builder.pc \in Steps \ {"start", "connect"}
    BY <2>1 DEF Steps
  <2>3. DbOK(DB)
    BY <2>2, OpenFiles DEF FilesOK, DB, IndexInv
  <2>4. Indexable(DB) \in SUBSET Row /\ IsFiniteSet(Indexable(DB))
    BY <2>3, IndexableRows
  <2>5. SavedOK
    BY <2>1, <2>4, BuildAssumption
  <2> QED BY <1>2, <1>6, <2>1, <2>2, <2>5
<1>14. CASE ConflictOfAliases \/ Fails \/ Kill
  <2>1. builder' = Over("dead") /\ UNCHANGED <<path, inodes, pickle, corpusVars>>
    BY <1>14 DEF ConflictOfAliases, Fails, Kill, fileVars
  <2> QED BY <1>5, <1>7, <2>1 DEF Steps
<1> QED BY <1>8, <1>9, <1>10, <1>11, <1>12, <1>13, <1>14, <1>15 DEF BuildNext, BuildStep

\* What the builder's own step makes of its table.
LEMMA BuilderIndex ==
  ASSUME IndexInv, IInv, BuildNext, server'.rw = server.rw, server'.pc = server.pc,
         server'.found = server.found
  PROVE  /\ builder'.pc = "commit" => MayFill(DB', "builder", builder'.found)
         /\ IndexPart'
<1> DEFINE k == builder.inode
           new == disk'[k]
<1>1. TypeOK /\ FilesOK /\ Locks /\ Where /\ IndexPart
  BY DEF IndexInv
<1>2. /\ Scan => BuilderDisk /\ SameContent(DB, new) /\ new.fts = DB.fts
      /\ Insert => /\ BuilderDisk /\ SameContent(DB, new) /\ new.fts = DB.fts
                   /\ MayFill(new, "builder", builder.found)
      /\ CommitIndex => /\ BuilderDisk /\ SameContent(DB, new)
                        /\ new.fts = DB.fts \cup builder.found
      /\ CountSections => BuilderDisk /\ SameContent(DB, new) /\ new.fts = DB.fts
  BY <1>1, IndexingFiles
<1>3. \A step : Goto(step) => /\ builder'.pc = step
                              /\ step \notin Ended => /\ builder'.inode = k
                                                     /\ builder'.found = builder.found
  BY <1>1 DEF Goto, Over, TypeOK, BuildTypeOK
<1>4. builder.pc \in Steps \ {"start", "connect"} => path = k
  BY <1>1, OpenFiles
<1> DEFINE Goal == /\ builder'.pc = "commit" => MayFill(DB', "builder", builder'.found)
                   /\ IndexPart'
<1>5. SUFFICES Goal
  OBVIOUS
<1>6. SameContent(DB, new) => Indexable(new) = Indexable(DB)
  BY ContentDecides
<1> DEFINE Kept == \A i : i = k => Settled(i)'
<1> HIDE DEF Kept
<1>7. CASE Scan
  <2> DEFINE found == Indexable(DB)
  <2>1. builder' = [builder EXCEPT !.pc = "insert", !.found = found]
    BY <1>7 DEF Scan
  <2> HIDE DEF found
  <2>2. builder'.pc = "insert" /\ builder'.inode = k /\ builder'.found = found
    BY <1>1, <2>1 DEF TypeOK, BuildTypeOK
  <2>3. DB' = new
    BY <2>2 DEF DB
  <2> QED BY <1>2, <1>6, <1>7, <2>2, <2>3 DEF IndexPart, found
<1>8. CASE Insert
  <2>1. builder.pc = "insert" /\ Goto("commit")
    BY <1>8 DEF Insert
  <2>2. builder'.pc = "commit" /\ DB' = new /\ builder'.found = builder.found
    BY <1>3, <2>1 DEF DB, Ended
  <2>3. builder.found = Indexable(DB)
    BY <1>1, <2>1 DEF IndexPart
  <2> QED BY <1>2, <1>6, <1>8, <2>2, <2>3 DEF IndexPart
<1>9. CASE CommitIndex
  <2>1. builder.pc = "commit" /\ Goto("count")
    BY <1>9 DEF CommitIndex, Commit
  <2>2. /\ builder'.pc = "count" /\ DB' = new /\ builder'.found = builder.found
        /\ builder'.inode = k
    BY <1>3, <2>1 DEF DB, Ended
  <2>3. builder.found = Indexable(DB)
    BY <1>1, <2>1 DEF IndexPart
  <2>4. Covers(new)
    BY <1>2, <1>6, <1>9, <2>3 DEF Covers
  <2>5. Kept
    BY <2>4 DEF Settled, Complete, Kept
  <2> QED BY <1>2, <1>6, <1>9, <2>2, <2>3, <2>5 DEF IndexPart, Settled, Kept
<1>10. ASSUME builder.pc \in {"count", "pickle"}, SameContent(DB, new), new.fts = DB.fts
       PROVE  Kept
  <2>1. Settled(k)
    BY <1>1, <1>10 DEF IndexPart
  <2>2. Indexable(new) = Indexable(DB)
    BY <1>6, <1>10
  <2> QED BY <1>10, <2>1, <2>2 DEF Settled, Complete, Covers, DB, Kept
<1>11. CASE CountSections
  <2>1. /\ builder.pc = "count" /\ path' = path
        /\ Goto(IF builder.also THEN "pickle" ELSE "done")
    BY <1>11 DEF CountSections, Commit
  <2>2. Kept
    BY <1>2, <1>10, <1>11, <2>1
  <2>3. CASE builder.also
    <3>1. builder'.pc = "pickle" /\ builder'.inode = k
      BY <1>3, <2>1, <2>3 DEF Ended
    <3> QED BY <2>2, <3>1 DEF IndexPart, Settled, Kept
  <2>4. CASE ~ builder.also
    <3>1. builder'.pc = "done" /\ path' = k
      BY <1>3, <1>4, <2>1, <2>4 DEF Steps
    <3> QED BY <2>2, <3>1 DEF IndexPart, Settled, Kept
  <2> QED BY <2>3, <2>4
<1>12. CASE SavePickle
  <2>1. builder.pc = "pickle" /\ path' = path /\ disk' = disk /\ Goto("done")
    BY <1>12 DEF SavePickle
  <2>2. builder'.pc = "done" /\ path' = k
    BY <1>3, <1>4, <2>1 DEF Steps
  <2>3. Kept
    BY <1>10, <2>1 DEF SameContent, DB
  <2> QED BY <2>2, <2>3 DEF IndexPart, Settled, Kept
<1>13. CASE \/ Unlink \/ Connect \/ CreateTables \/ TablesAreThere \/ LoadAliases
            \/ ConflictOfAliases \/ NothingSelected \/ ResolveChains \/ WriteMeta \/ Drop
            \/ Create \/ Fails \/ Kill \/ LoadDoc \/ ParseFails \/ StoreFails
            \/ \E c \in Choices : Start(c)
  <2>1. builder'.pc \in {"start", "connect", "schema", "aliases", "load", "resolve", "meta",
                         "drop", "create", "scan", "dead"}
    <3> USE <1>3 DEF TypeOK, BuildTypeOK
    <3>1. CASE LoadDoc \/ ParseFails \/ StoreFails
      <4>1. PICK loaded : NextDoc(loaded)
        BY <3>1 DEF LoadDoc, ParseFails, StoreFails
      <4>2. \E todo : \E pc \in {"resolve", "load"} :
              builder' = [builder EXCEPT !.todo = todo, !.loaded = loaded, !.pc = pc]
        BY <4>1 DEF NextDoc
      <4> QED BY <1>1, <4>2
    <3>2. CASE Connect \/ \E c \in Choices : Start(c)
      BY <1>1, <3>2 DEF Connect, Start
    <3>3. CASE ConflictOfAliases \/ Fails \/ Kill
      BY <3>3 DEF ConflictOfAliases, Fails, Kill, Over
    <3>4. CASE Unlink \/ CreateTables \/ TablesAreThere \/ LoadAliases \/ NothingSelected
      BY <3>4 DEF Unlink, CreateTables, TablesAreThere, LoadAliases, NothingSelected, Commit
    <3>5. CASE ResolveChains \/ WriteMeta \/ Drop \/ Create
      BY <3>5 DEF ResolveChains, WriteMeta, Drop, Create, Commit
    <3> QED BY <1>13, <3>1, <3>2, <3>3, <3>4, <3>5
  <2> QED BY <2>1 DEF IndexPart
<1> QED BY <1>7, <1>8, <1>9, <1>11, <1>12, <1>13 DEF BuildNext, BuildStep

LEMMA BuilderKeepsIndexInv ==
  ASSUME IndexInv, IInv, Beside(BuildNext)
  PROVE  IndexInv'
<1> DEFINE alone == server.alone /\ server.pc \in {"off", "open"}
           Place == {"off", "missing", "crashed", "up"} \cup Starting
<1>1. BuildNext /\ server' = [server EXCEPT !.alone = alone]
  BY DEF Beside
<1>2. /\ TypeOK /\ FilesOK /\ Locks /\ Where /\ IndexPart
      /\ \A i \in Inodes : BuilderWay(disk[i], disk'[i])
  BY <1>1, BuilderFiles DEF IndexInv, BuilderDisk
<1>3. /\ server'.pc = server.pc /\ server'.rw = server.rw /\ server'.conn = server.conn
      /\ server'.found = server.found /\ server'.alone = alone
  BY <1>1, <1>2 DEF TypeOK
<1>4. TypeOK' /\ FilesOK'
  <2>1. /\ BuildTypeOK' /\ (pickle' # None => IsFiniteSet(pickle'.rows))
        /\ RowsOK(builder'.found) /\ RowsOK(server'.found)
    BY <1>1, <1>2, <1>3, BuilderTypes DEF FilesOK
  <2>2. \A i \in Inodes : DbOK(disk'[i])
    BY <1>2 DEF BuilderWay
  <2>3. alone \in BOOLEAN
    BY <1>2 DEF TypeOK
  <2>4. server' \in [pc : Starting \cup {"off", "missing", "crashed", "up"},
                     starts : 0..MaxStarts, mode : Modes \cup {None}, conn : Inodes \cup {0},
                     rw : Inodes \cup {0}, index : {"fts", "pickle", None},
                     memory : SUBSET Row, size : Nat, found : SUBSET Row, alone : BOOLEAN]
    <3> HIDE DEF alone
    <3> QED BY <1>1, <1>2, <2>3 DEF TypeOK
  <2> QED BY <2>1, <2>2, <2>4 DEF TypeOK, FilesOK
<1>5. Where'
  <2>1. /\ builder'.inode # 0 <=> builder'.pc \in Steps \ {"start", "connect"}
        /\ builder'.inode # 0 => path' = builder'.inode
        /\ builder'.pc = "done" => path' # 0
    BY <1>1, BuilderTypes
  <2>2. server'.mode = server.mode
    BY <1>1, <1>2 DEF TypeOK
  <2> QED BY <1>2, <1>3, <2>1, <2>2 DEF Where
<1>6. Locks'
  <2>1. ASSUME server.pc = "commit"
        PROVE  MayFill(Rw', "server", server'.found)
    <3>1. MayFill(Rw, "server", server.found) /\ server.rw \in Inodes
      BY <1>2, <2>1, OpenFiles DEF Locks, SelfBuild
    <3>2. BuilderWay(Rw, Rw')
      BY <1>2, <1>3, <3>1 DEF Rw
    <3> QED BY <1>3, <3>1, <3>2 DEF BuilderWay, MayFill
  <2>2. builder'.pc = "commit" => MayFill(DB', "builder", builder'.found)
    BY <1>1, <1>3, BuilderIndex
  <2> QED BY <1>3, <2>1, <2>2 DEF Locks
<1>7. IndexPart'
  BY <1>1, <1>3, BuilderIndex
<1>8. Alone'
  <2>1. SUFFICES ASSUME server.pc \in {"off", "open"}
                 PROVE  /\ server.pc \notin {"check", "count", "legacy", "sections"} \cup SelfBuild
                        /\ server.rw = 0
    BY <1>3 DEF Alone, SelfBuild
  <2> QED BY <1>2, <2>1 DEF Where, SelfBuild
<1>9. StartRepairs'
  BY <1>3 DEF StartRepairs
<1> QED BY <1>4, <1>5, <1>6, <1>7, <1>8, <1>9 DEF IndexInv
-----------------------------------------------------------------------------
(***************************************************************************)
(* The server's steps.                                                     *)
(***************************************************************************)
LEMMA ServerReleases ==
  ASSUME TypeOK, FilesOK, server.rw \in Inodes, NEW x,
         disk' = [disk EXCEPT ![server.rw] = x], x = Released(Rw, "server")
  PROVE  ServerDisk /\ disk'[server.rw].fts = Rw.fts
<1>1. "server" \in Whose /\ DbOK(Rw)
  BY DEF Whose, FilesOK, Rw
<1>2. /\ DbOK(x) /\ SameContent(Rw, x) /\ x.fts = Rw.fts
      /\ x.lock = IF Rw.lock = "server" THEN None ELSE Rw.lock
  BY <1>1, ReleasedKeeps
<1>3. ServerWay(Rw, x)
  BY <1>2 DEF ServerWay
<1> QED BY <1>2, <1>3, ServerOneFile DEF Rw

LEMMA ServerCommits ==
  ASSUME TypeOK, FilesOK, server.rw \in Inodes, NEW db, NEW x,
         disk' = [disk EXCEPT ![server.rw] = x], x = Committed(db, "server"), DbOK(db),
         SameContent(Rw, db), Rw.lock # "builder"
  PROVE  ServerDisk /\ disk'[server.rw].fts = db.fts /\ disk'[server.rw].mark = db.mark
<1>1. "server" \in Whose
  BY DEF Whose
<1>2. DbOK(x) /\ SameContent(db, x) /\ x.fts = db.fts /\ x.mark = db.mark
  BY <1>1, CommittedKeeps
<1>3. SameContent(Rw, x)
  BY <1>2 DEF SameContent
<1>4. ServerWay(Rw, x)
  BY <1>2, <1>3 DEF ServerWay
<1>5. ServerDisk /\ disk'[server.rw] = x
  BY <1>4, ServerOneFile DEF Rw
<1> QED BY <1>2, <1>5

\* The steps of the server's own build, and what each makes of the table.
LEMMA OwnIndexFiles ==
  ASSUME TypeOK, FilesOK, Where, Locks, NEW new, new = disk'[server.rw]
  PROVE  /\ DropOwn => ServerDisk /\ new.fts = None
         /\ CreateOwn => ServerDisk /\ new.fts = {}
         /\ ScanOwn => ServerDisk /\ new.fts = Rw.fts
         /\ InsertOwn => /\ ServerDisk /\ new.fts = Rw.fts
                         /\ MayFill(new, "server", server.found)
         /\ CommitOwn => /\ ServerDisk /\ new.mark = server.mode
                         /\ new.fts = Rw.fts \cup server.found
<1> DEFINE k == server.rw
<1>1. ASSUME server.pc \in SelfBuild \ {"rw"}
      PROVE  k \in Inodes /\ DbOK(Rw) /\ Rw \in Database
  <2>1. k \in Inodes
    BY <1>1, OpenFiles
  <2> QED BY <2>1 DEF FilesOK, Rw, DbOK
<1>2. ~ LockedOut(Rw, "server") => Rw.lock # "builder"
  <2>1. "builder" \in Whose /\ "server" \in Whose
    BY DEF Whose
  <2> QED BY <2>1, Unlocked
<1>3. ASSUME DropOwn
      PROVE  ServerDisk /\ new.fts = None
  <2> DEFINE db == Dropped(Rw)
             x == Committed(db, "server")
  <2>1. server.pc = "drop" /\ Rw.lock # "builder" /\ disk' = [disk EXCEPT ![k] = x]
    BY <1>2, <1>3 DEF DropOwn, ServerCommit
  <2>2. DbOK(db) /\ SameContent(Rw, db) /\ db.fts = None
    BY <1>1, <2>1, TableChanges DEF SelfBuild, Dropped
  <2> HIDE DEF db
  <2> QED BY <1>1, <2>1, <2>2, ServerCommits DEF SelfBuild
<1>4. ASSUME CreateOwn
      PROVE  ServerDisk /\ new.fts = {}
  <2> DEFINE db == Created(Rw)
             x == Committed(db, "server")
  <2>1. server.pc = "create" /\ Rw.lock # "builder" /\ disk' = [disk EXCEPT ![k] = x]
    BY <1>2, <1>4 DEF CreateOwn, ServerCommit
  <2>2. DbOK(db) /\ SameContent(Rw, db) /\ db.fts = {}
    BY <1>1, <2>1, TableChanges, NoRowsAreOK DEF SelfBuild, Created
  <2> HIDE DEF db
  <2> QED BY <1>1, <2>1, <2>2, ServerCommits DEF SelfBuild
<1>5. ASSUME ScanOwn
      PROVE  ServerDisk /\ new.fts = Rw.fts
  <2> DEFINE x == [Rw EXCEPT !.fresh = Rw.fresh \cup {"server"}]
  <2>1. server.pc = "scan" /\ disk' = [disk EXCEPT ![k] = x]
    BY <1>5 DEF ScanOwn, Rw
  <2>2. k \in Inodes /\ DbOK(Rw) /\ Rw \in Database
    BY <1>1, <2>1 DEF SelfBuild
  <2>3. Rw.fresh \cup {"server"} \in SUBSET Whose
    BY <2>2, Fields DEF Whose
  <2>4. x \in Database /\ SameContent(Rw, x) /\ x.fts = Rw.fts /\ x.lock = Rw.lock
    BY <2>2, <2>3, FreshChanges
  <2> HIDE DEF x
  <2>5. ServerWay(Rw, x)
    BY <2>2, <2>4, SameContentKeeps DEF ServerWay
  <2> QED BY <2>1, <2>2, <2>4, <2>5, ServerOneFile DEF Rw
<1>6. ASSUME InsertOwn
      PROVE  ServerDisk /\ new.fts = Rw.fts /\ MayFill(new, "server", server.found)
  <2> DEFINE x == [Rw EXCEPT !.lock = "server"]
  <2>1. /\ server.pc = "insert" /\ Rw.lock # "builder" /\ Rw.fts # None
        /\ Apart(Rw.fts, server.found)
        /\ disk' = [disk EXCEPT ![k] = x]
    BY <1>2, <1>6 DEF InsertOwn, Fillable, Apart, Rw
  <2>2. k \in Inodes /\ DbOK(Rw) /\ Rw \in Database
    BY <1>1, <2>1 DEF SelfBuild
  <2>3. x \in Database /\ SameContent(Rw, x) /\ x.fts = Rw.fts /\ x.lock = "server"
    BY <2>2, LockChanges
  <2> HIDE DEF x
  <2>4. ServerWay(Rw, x)
    BY <2>1, <2>2, <2>3, SameContentKeeps DEF ServerWay
  <2> QED BY <2>1, <2>2, <2>3, <2>4, ServerOneFile DEF Rw, MayFill
<1>7. ASSUME CommitOwn
      PROVE  /\ ServerDisk /\ new.mark = server.mode
             /\ new.fts = Rw.fts \cup server.found
  <2> DEFINE full == Filled(Rw, server.found, server.mode)
             db == Released(full, "server")
             x == Committed(db, "server")
  <2>1. server.pc = "commit" /\ disk' = [disk EXCEPT ![k] = x]
    BY <1>7 DEF CommitOwn
  <2>2. /\ Rw.lock = "server" /\ Rw.fts # None /\ "server" \in Whose
        /\ Apart(Rw.fts, server.found)
    BY <2>1 DEF Locks, MayFill, Whose
  <2>3. k \in Inodes /\ DbOK(Rw) /\ RowsOK(server.found)
    BY <1>1, <2>1 DEF SelfBuild, FilesOK
  <2>4. server.mode \in Modes
    BY <2>1 DEF Where
  <2>5. /\ DbOK(full) /\ SameContent(Rw, full) /\ full.fts = Rw.fts \cup server.found
        /\ full.mark = server.mode
    BY <2>2, <2>3, <2>4, FilledKeeps
  <2> HIDE DEF full
  <2>6. DbOK(db) /\ SameContent(full, db) /\ db.fts = full.fts /\ db.mark = full.mark
    BY <2>2, <2>5, ReleasedKeeps
  <2> HIDE DEF db
  <2>7. SameContent(Rw, db) /\ Rw.lock # "builder"
    BY <2>2, <2>5, <2>6 DEF SameContent
  <2>8. ServerDisk /\ new.fts = db.fts /\ new.mark = db.mark
    BY <2>1, <2>3, <2>6, <2>7, ServerCommits
  <2> QED BY <2>5, <2>6, <2>8
<1> QED BY <1>3, <1>4, <1>5, <1>6, <1>7

OwnBuild == DropOwn \/ CreateOwn \/ ScanOwn \/ InsertOwn \/ CommitOwn

\* Only the own build changes a table, that of the file it has open.
LEMMA ServerFiles ==
  ASSUME IndexInv, ServerNext
  PROVE  /\ ServerDisk
         /\ \A i \in Inodes : ~ OwnBuild \/ i # server.rw => disk'[i].fts = disk[i].fts
<1>1. TypeOK /\ FilesOK /\ Where /\ Locks
  BY DEF IndexInv
<1>2. CASE OwnBuild
  <2>1. \E x : disk' = [disk EXCEPT ![server.rw] = x]
    BY <1>2 DEF OwnBuild, DropOwn, CreateOwn, ScanOwn, InsertOwn, CommitOwn, ServerCommit
  <2>2. \A i \in Inodes \ {server.rw} : disk'[i] = disk[i]
    BY <1>1, <2>1 DEF TypeOK, BuildTypeOK
  <2>3. ServerDisk
    BY <1>1, <1>2, OwnIndexFiles DEF OwnBuild
  <2> QED BY <1>2, <2>2, <2>3
<1>3. CASE \/ Open \/ CheckIndex \/ Count \/ Legacy \/ CountStored \/ OpenToWrite
           \/ \E m \in ServerModes : StartServer(m)
  <2>1. disk' = disk
    BY <1>3 DEF Open, CheckIndex, Count, Legacy, CountStored, OpenToWrite, StartServer, buildVars,
                fileVars
  <2> QED BY <1>1, <2>1, NoFileChanges
<1>4. CASE OwnBuildFails \/ Stop
  <2> DEFINE x == Released(Rw, "server")
  <2>1. disk' = disk \/ (server.rw # 0 /\ disk' = [disk EXCEPT ![server.rw] = x])
    BY <1>4 DEF OwnBuildFails, Stop, Rw
  <2>2. server.rw \in Inodes \cup {0}
    BY <1>1, OpenFiles
  <2> HIDE DEF x
  <2>3. CASE disk' = disk
    BY <1>1, <2>3, NoFileChanges
  <2>4. CASE server.rw # 0 /\ disk' = [disk EXCEPT ![server.rw] = x]
    <3>1. ServerDisk /\ disk'[server.rw].fts = Rw.fts
      BY <1>1, <2>2, <2>4, ServerReleases DEF x
    <3>2. \A i \in Inodes \ {server.rw} : disk'[i] = disk[i]
      BY <1>1, <2>4 DEF TypeOK, BuildTypeOK
    <3> QED BY <3>1, <3>2 DEF Rw
  <2> QED BY <2>1, <2>3, <2>4
<1> QED BY <1>2, <1>3, <1>4 DEF ServerNext, ServerStep, OwnBuild

\* The builder, and what else the server leaves alone.
LEMMA ServerLeaves ==
  ASSUME IndexInv, ServerNext
  PROVE  /\ builder' = builder /\ pickle' = pickle /\ corpus' = corpus /\ universe' = universe
         /\ path' \in Inodes \cup {0} /\ inodes' \in 0..MaxInodes
         /\ path # 0 => path' = path
<1>1. CASE OpenToWrite
  <2>1. /\ Opened /\ builder' = builder /\ pickle' = pickle /\ corpus' = corpus
        /\ universe' = universe
    BY <1>1 DEF OpenToWrite, corpusVars
  <2> QED BY <2>1, OpenedFile DEF IndexInv, TypeOK
<1>2. CASE ~ OpenToWrite
  <2>1. UNCHANGED <<builder, pickle, corpus, universe, path, inodes>>
    BY <1>2 DEF ServerNext, ServerStep, StartServer, Open, CheckIndex, Count, Legacy, CountStored,
                DropOwn, CreateOwn, ScanOwn, InsertOwn, CommitOwn, OwnBuildFails, Stop,
                ServerCommit, buildVars, fileVars, corpusVars
  <2> QED BY <2>1 DEF IndexInv, TypeOK, BuildTypeOK
<1> QED BY <1>1, <1>2

ServerProcess ==
  [pc : Starting \cup {"off", "missing", "crashed", "up"},
   starts : 0..MaxStarts, mode : Modes \cup {None}, conn : Inodes \cup {0},
   rw : Inodes \cup {0}, index : {"fts", "pickle", None},
   memory : SUBSET Row, size : Nat, found : SUBSET Row, alone : BOOLEAN]

LEMMA ServerTypes ==
  ASSUME IndexInv, IInv, ServerNext
  PROVE  server' \in ServerProcess /\ RowsOK(server'.found)
<1>1. server \in ServerProcess /\ FilesOK /\ Where /\ TypeOK /\ RowsOK(server.found)
  BY DEF IndexInv, TypeOK, ServerProcess, FilesOK
<1> USE DEF ServerProcess
<1>2. CASE \E m \in ServerModes : StartServer(m)
  <2>1. PICK m \in ServerModes : StartServer(m)
    BY <1>2
  <2>2. /\ server.starts < MaxStarts
        /\ server' = [server EXCEPT !.pc = "open", !.starts = server.starts + 1, !.mode = m]
    BY <2>1 DEF StartServer
  <2>3. m \in Modes /\ server.starts + 1 \in 0..MaxStarts
    BY <1>1, <2>2, ServerAssumption
  <2> QED BY <1>1, <2>2, <2>3 DEF Starting
<1>3. CASE Open
  <2>1. path \in Inodes \cup {0}
    BY <1>1 DEF TypeOK, BuildTypeOK
  <2> QED BY <1>1, <1>3, <2>1 DEF Open, Starting
<1>4. CASE CheckIndex \/ CountStored \/ DropOwn \/ CreateOwn \/ InsertOwn
  <2>1. \E pc \in Starting \cup {"crashed"} : server' = [server EXCEPT !.pc = pc]
    BY <1>4 DEF CheckIndex, CountStored, DropOwn, CreateOwn, InsertOwn, ServerCommit, Step,
                Starting, SelfBuild
  <2> QED BY <1>1, <2>1
<1>5. CASE Count
  <2> DEFINE fts == disk[server.conn].fts
  <2>1. \/ fts # None /\ Up("fts", {}, Cardinality(fts))
        \/ Step("crashed")
        \/ server' = [server EXCEPT !.pc = "up", !.rw = 0, !.alone = FALSE]
    BY <1>5 DEF Count
  <2>2. server.conn \in Inodes
    BY <1>1, <1>5, OpenFiles DEF Count, SelfBuild
  <2>3. fts # None => Cardinality(fts) \in Nat
    BY <1>1, <2>2, FS_CardinalityType DEF FilesOK, DbOK, RowsOK
  <2> HIDE DEF fts
  <2>4. CASE fts # None /\ Up("fts", {}, Cardinality(fts))
    <3> DEFINE n == Cardinality(fts)
    <3>1. n \in Nat
      BY <2>3, <2>4
    <3>2. server' = [server EXCEPT !.pc = "up", !.rw = 0, !.index = "fts", !.memory = {},
                                   !.size = n]
      BY <2>4 DEF Up
    <3> HIDE DEF n
    <3> QED BY <1>1, <3>1, <3>2
  <2>5. CASE Step("crashed")
    BY <1>1, <2>5 DEF Step
  <2>6. CASE server' = [server EXCEPT !.pc = "up", !.rw = 0, !.alone = FALSE]
    BY <1>1, <2>6
  <2> QED BY <2>1, <2>4, <2>5, <2>6
<1>6. CASE Legacy
  <2>1. \/ pickle # None /\ Up("pickle", pickle.rows, Cardinality(pickle.rows))
        \/ Step("sections")
    BY <1>6 DEF Legacy
  <2>2. CASE pickle # None /\ Up("pickle", pickle.rows, Cardinality(pickle.rows))
    <3> DEFINE n == Cardinality(pickle.rows)
               rows == pickle.rows
    <3>1. n \in Nat /\ rows \in SUBSET Row
      BY <1>1, <2>2, FS_CardinalityType DEF FilesOK, TypeOK, BuildTypeOK
    <3>2. server' = [server EXCEPT !.pc = "up", !.rw = 0, !.index = "pickle", !.memory = rows,
                                   !.size = n]
      BY <2>2 DEF Up
    <3> HIDE DEF n, rows
    <3> QED BY <1>1, <3>1, <3>2
  <2>3. CASE Step("sections")
    BY <1>1, <2>3 DEF Step, Starting
  <2> QED BY <2>1, <2>2, <2>3
<1>7. CASE OpenToWrite
  <2>1. path' \in Inodes
    BY <1>1, <1>7, OpenedFile DEF OpenToWrite, TypeOK
  <2> QED BY <1>1, <1>7, <2>1 DEF OpenToWrite, Starting, SelfBuild
<1>8. CASE ScanOwn
  <2> DEFINE found == Indexable(Rw)
  <2>1. server.pc = "scan" /\ server' = [server EXCEPT !.pc = "insert", !.found = found]
    BY <1>8 DEF ScanOwn
  <2>2. server.rw \in Inodes
    BY <1>1, <2>1, OpenFiles DEF SelfBuild
  <2>3. DbOK(Rw) /\ RowidsUnique(Rw)
    BY <1>1, <2>2 DEF FilesOK, Rw, IInv, FileOK
  <2>4. RowsOK(found) /\ found \in SUBSET Row
    BY <2>3, IndexableRows
  <2> HIDE DEF found
  <2> QED BY <1>1, <2>1, <2>4 DEF Starting, SelfBuild
<1>9. CASE CommitOwn
  <2>1. server' = [server EXCEPT !.pc = "recount", !.found = {}]
    BY <1>9 DEF CommitOwn
  <2> QED BY <1>1, <2>1, NoRowsAreOK DEF Starting, SelfBuild
<1>10. CASE OwnBuildFails
  <2>1. server' = [server EXCEPT !.pc = "up", !.rw = 0, !.found = {}, !.alone = FALSE]
    BY <1>10 DEF OwnBuildFails
  <2> QED BY <1>1, <2>1, NoRowsAreOK
<1>11. CASE Stop
  <2>1. server' = [server EXCEPT !.pc = "off", !.mode = None, !.conn = 0, !.rw = 0,
                                 !.index = None, !.memory = {}, !.size = 0, !.found = {},
                                 !.alone = TRUE]
    BY <1>11 DEF Stop
  <2> QED BY <1>1, <2>1, NoRowsAreOK
<1> QED BY <1>2, <1>3, <1>4, <1>5, <1>6, <1>7, <1>8, <1>9, <1>10, <1>11
        DEF ServerNext, ServerStep

LEMMA ServerPlaces ==
  ASSUME IndexInv, ServerNext
  PROVE  /\ server'.pc # "off" => server'.mode \in Modes
         /\ server'.rw # 0 <=> server'.pc \in SelfBuild \ {"rw"}
         /\ server'.pc \in {"check", "count", "legacy", "sections", "up"} \cup SelfBuild =>
              server'.conn # 0
<1>1. /\ server \in ServerProcess /\ TypeOK /\ 0 \notin Inodes
      /\ server.pc # "off" => server.mode \in Modes
      /\ server.rw # 0 <=> server.pc \in SelfBuild \ {"rw"}
      /\ server.pc \in {"check", "count", "legacy", "sections", "up"} \cup SelfBuild =>
           server.conn # 0
  BY OpenFiles DEF IndexInv, TypeOK, ServerProcess, Where
<1> USE DEF ServerProcess, SelfBuild
<1>2. CASE \E m \in ServerModes : StartServer(m)
  BY <1>1, <1>2, ServerAssumption DEF StartServer
<1>3. CASE Open
  <2>1. CASE path = 0
    <3>1. server' = [server EXCEPT !.pc = "missing"] /\ server.pc = "open"
      BY <1>3, <2>1 DEF Open
    <3> QED BY <1>1, <3>1
  <2>2. CASE path # 0
    <3>1. server' = [server EXCEPT !.pc = "check", !.conn = path] /\ server.pc = "open"
      BY <1>3, <2>2 DEF Open
    <3> QED BY <1>1, <2>2, <3>1
  <2> QED BY <2>1, <2>2
<1>9. CASE Stop
  <2>1. server'.pc = "off" /\ server'.rw = 0
    BY <1>1, <1>9 DEF Stop
  <2> QED BY <2>1
<1>4. CASE OwnBuild
  <2>1. server.pc \in SelfBuild \ {"rw"}
    BY <1>4 DEF OwnBuild, DropOwn, CreateOwn, ScanOwn, InsertOwn, CommitOwn
  <2>2. \E pc \in SelfBuild \ {"rw"} : \E found :
          server' = [server EXCEPT !.pc = pc] \/ server' = [server EXCEPT !.pc = pc, !.found = found]
    BY <1>4 DEF OwnBuild, DropOwn, CreateOwn, ScanOwn, InsertOwn, CommitOwn, ServerCommit, Step
  <2>3. /\ server'.pc \in SelfBuild \ {"rw"} /\ server'.rw = server.rw
        /\ server'.conn = server.conn /\ server'.mode = server.mode
    BY <1>1, <2>2
  <2> QED BY <1>1, <2>1, <2>3
<1>10. CASE CheckIndex \/ CountStored
  BY <1>1, <1>10 DEF CheckIndex, CountStored, Step
<1>5. CASE Count
  <2>1. \/ \E n : Up("fts", {}, n)
        \/ server.pc = "count" /\ Step("crashed")
        \/ server' = [server EXCEPT !.pc = "up", !.rw = 0, !.alone = FALSE]
    BY <1>5 DEF Count
  <2>2. server.pc \in {"count", "recount"}
    BY <1>5 DEF Count
  <2>3. CASE \E n : Up("fts", {}, n)
    BY <1>1, <2>2, <2>3 DEF Up
  <2>4. CASE server.pc = "count" /\ Step("crashed")
    BY <1>1, <2>4 DEF Step
  <2>5. CASE server' = [server EXCEPT !.pc = "up", !.rw = 0, !.alone = FALSE]
    BY <1>1, <2>2, <2>5
  <2> QED BY <2>1, <2>3, <2>4, <2>5
<1>6. CASE Legacy
  <2>1. \/ \E rows, n : Up("pickle", rows, n)
        \/ Step("sections")
    BY <1>6 DEF Legacy
  <2> QED BY <1>1, <1>6, <2>1 DEF Up, Step, Legacy
<1>7. CASE OpenToWrite
  <2>1. path' \in Inodes
    BY <1>1, <1>7, OpenedFile DEF OpenToWrite, TypeOK
  <2> QED BY <1>1, <1>7, <2>1 DEF OpenToWrite
<1>8. CASE OwnBuildFails
  BY <1>1, <1>8 DEF OwnBuildFails
<1> QED BY <1>2, <1>3, <1>4, <1>5, <1>6, <1>7, <1>8, <1>9, <1>10
        DEF ServerNext, ServerStep, OwnBuild

\* The lock, the table and the scan of the server's own build.
LEMMA ServerLocks ==
  ASSUME IndexInv, ServerNext
  PROVE  server'.pc = "commit" => MayFill(Rw', "server", server'.found)
<1> SUFFICES ASSUME server'.pc = "commit"
             PROVE  MayFill(Rw', "server", server'.found)
  OBVIOUS
<1>1. server \in ServerProcess
  BY DEF IndexInv, TypeOK, ServerProcess
<1>2. InsertOwn
  BY <1>1 DEF ServerProcess, ServerNext, ServerStep, StartServer, Open, CheckIndex, Count, Legacy,
              CountStored, OpenToWrite, DropOwn, CreateOwn, ScanOwn, CommitOwn, OwnBuildFails,
              Stop, ServerCommit, Step, Up
<1>3. server'.rw = server.rw /\ server'.found = server.found
  BY <1>1, <1>2 DEF InsertOwn, Step, ServerProcess
<1>4. MayFill(disk'[server.rw], "server", server.found)
  BY <1>2, OwnIndexFiles DEF IndexInv
<1> QED BY <1>3, <1>4 DEF Rw

\* A table that lacks nothing will lack nothing when the server is done with it.
LEMMA ServerSettles ==
  ASSUME IndexInv, ServerNext, NEW i \in Inodes, Settled(i)
  PROVE  Settled(i)'
<1> DEFINE db == disk[i]
           new == disk'[i]
<1>1. /\ server \in ServerProcess /\ TypeOK /\ FilesOK /\ Where /\ Locks
      /\ SameContent(db, new)
  BY ServerFiles DEF IndexInv, TypeOK, ServerProcess, ServerDisk, ServerWay
<1>2. Indexable(new) = Indexable(db)
  BY <1>1, ContentDecides
<1>3. ASSUME new.fts = db.fts,
             server'.rw = i /\ server'.pc \in {"insert", "commit"} =>
               \/ server'.found = Indexable(db)
               \/ /\ server'.found = server.found
                  /\ server.rw = i /\ server.pc \in {"insert", "commit"}
      PROVE  Settled(i)'
  BY <1>2, <1>3 DEF Settled, Complete, Covers
<1>4. CASE ~ OwnBuild
  <2>1. new.fts = db.fts
    BY <1>4, ServerFiles
  <2>2. server'.pc \notin {"insert", "commit"}
    BY <1>1, <1>4 DEF ServerProcess, ServerNext, ServerStep, OwnBuild, StartServer, Open,
                      CheckIndex, Count, Legacy, CountStored, OpenToWrite, OwnBuildFails, Stop,
                      Step, Up
  <2> QED BY <1>3, <2>1, <2>2
<1>5. CASE OwnBuild /\ server.rw # i
  <2>1. new.fts = db.fts
    BY <1>5, ServerFiles
  <2>2. server'.rw = server.rw
    BY <1>1, <1>5 DEF OwnBuild, DropOwn, CreateOwn, ScanOwn, InsertOwn, CommitOwn, ServerCommit,
                      Step, ServerProcess
  <2> QED BY <1>3, <1>5, <2>1, <2>2
<1>6. CASE OwnBuild /\ server.rw = i
  <2>1. db = Rw /\ new = disk'[server.rw]
    BY <1>6 DEF Rw
  <2>2. CASE DropOwn \/ CreateOwn
    <3>1. new.fts \in {None, {}}
      BY <1>1, <2>1, <2>2, OwnIndexFiles
    <3>2. server'.pc \in {"create", "scan"}
      BY <1>1, <2>2 DEF DropOwn, CreateOwn, ServerCommit, Step, ServerProcess
    <3> QED BY <3>1, <3>2 DEF Settled, Complete, Covers
  <2>3. CASE ScanOwn
    <3>1. new.fts = db.fts
      BY <1>1, <2>1, <2>3, OwnIndexFiles
    <3>2. server'.found = Indexable(db)
      BY <1>1, <2>1, <2>3 DEF ScanOwn, ServerProcess
    <3> QED BY <1>3, <3>1, <3>2
  <2>4. CASE InsertOwn
    <3>1. new.fts = db.fts
      BY <1>1, <2>1, <2>4, OwnIndexFiles
    <3>2. server'.found = server.found /\ server.pc = "insert"
      BY <1>1, <2>4 DEF InsertOwn, Step, ServerProcess
    <3> QED BY <1>3, <1>6, <3>1, <3>2
  <2>5. CASE CommitOwn
    <3>1. new.fts = db.fts \cup server.found
      BY <1>1, <2>1, <2>5, OwnIndexFiles
    <3>2. server'.pc = "recount" /\ server.pc = "commit"
      BY <1>1, <2>5 DEF CommitOwn, ServerProcess
    <3>3. server.found = Indexable(db) \/ Covers(db)
      BY <1>6, <3>2 DEF Settled
    <3>4. db.fts # None
      BY <1>1, <1>6, <2>1, <3>2 DEF Locks, MayFill
    <3>5. Covers(new)
      BY <1>2, <3>1, <3>3, <3>4 DEF Covers
    <3> QED BY <3>2, <3>5 DEF Settled, Complete
  <2> QED BY <1>6, <2>2, <2>3, <2>4, <2>5 DEF OwnBuild
<1> QED BY <1>4, <1>5, <1>6

\* A start that nothing disturbs.
LEMMA ServerAlone ==
  ASSUME IndexInv, ServerNext
  PROVE  Alone' /\ StartRepairs'
<1> DEFINE db == disk[server.conn]
<1>1. /\ server \in ServerProcess /\ TypeOK /\ FilesOK /\ Where /\ Locks /\ Alone
  BY DEF IndexInv, TypeOK, ServerProcess
<1>2. /\ server.rw # 0 <=> server.pc \in SelfBuild \ {"rw"}
      /\ server.alone =>
           /\ server.pc \in {"check", "count", "legacy", "sections"} \cup SelfBuild =>
                server.conn = path
           /\ server.rw # 0 => server.rw = server.conn
           /\ server.pc = "count" => FtsReady(db, server.mode)
           /\ server.pc = "legacy" => ~ FtsReady(db, server.mode)
           /\ server.pc \in {"insert", "commit"} => server.found = Indexable(Rw)
           /\ server.pc = "recount" => Built(Rw)
  BY <1>1 DEF Where, Alone
<1>3. path # 0 => path' = path
  BY ServerLeaves
<1> USE DEF ServerProcess
<1>12. server.pc \in {"check", "count", "legacy", "sections"} \cup SelfBuild => server.conn # 0
  BY <1>1 DEF Where
<1>4. CASE Stop \/ \E m \in ServerModes : StartServer(m)
  <2>1. server'.pc \in {"off", "open"} /\ server'.rw = 0
    <3>1. CASE Stop
      BY <1>1, <3>1 DEF Stop
    <3>2. CASE \E m \in ServerModes : StartServer(m)
      BY <1>1, <1>2, <3>2 DEF StartServer, SelfBuild
    <3> QED BY <1>4, <3>1, <3>2
  <2> QED BY <2>1 DEF Alone, StartRepairs, SelfBuild
<1>5. CASE Open
  <2>1. server.rw = 0
    BY <1>2, <1>5 DEF Open, SelfBuild
  <2>2. CASE path = 0
    <3>1. server'.pc = "missing" /\ server'.rw = 0
      BY <1>1, <1>5, <2>1, <2>2 DEF Open
    <3> QED BY <3>1 DEF Alone, StartRepairs, SelfBuild
  <2>3. CASE path # 0
    <3>1. server'.pc = "check" /\ server'.rw = 0 /\ server'.conn = path /\ path' = path
      BY <1>1, <1>3, <1>5, <2>1, <2>3 DEF Open
    <3> QED BY <3>1 DEF Alone, StartRepairs, SelfBuild
  <2> QED BY <2>2, <2>3
<1>6. CASE CheckIndex
  <2>1. /\ server.pc = "check" /\ disk' = disk /\ path' = path /\ server.rw = 0
        /\ server' = [server EXCEPT !.pc = IF FtsReady(db, server.mode)
                                           THEN "count" ELSE "legacy"]
    BY <1>2, <1>6 DEF CheckIndex, Step, buildVars, fileVars, SelfBuild
  <2>2. /\ server'.pc \in {"count", "legacy"} /\ server'.rw = 0 /\ server'.conn = server.conn
        /\ server'.alone = server.alone /\ server'.mode = server.mode
        /\ server'.pc = "count" <=> FtsReady(db, server.mode)
    BY <1>1, <2>1
  <2>3. Alone'
    BY <1>2, <2>1, <2>2 DEF Alone, SelfBuild
  <2> QED BY <2>2, <2>3 DEF StartRepairs
<1>7. CASE Count
  <2>1. /\ server.pc \in {"count", "recount"} /\ disk' = disk
        /\ \/ db.fts # None /\ Up("fts", {}, Cardinality(db.fts))
           \/ db.fts = None /\ server.pc = "count" /\ Step("crashed")
           \/ server' = [server EXCEPT !.pc = "up", !.rw = 0, !.alone = FALSE]
    BY <1>7 DEF Count, buildVars, fileVars
  <2>2. CASE db.fts = None /\ server.pc = "count" /\ Step("crashed")
    <3>1. server'.pc = "crashed" /\ server'.rw = 0 /\ server'.alone = server.alone
      BY <1>1, <1>2, <2>2 DEF Step, SelfBuild
    <3>2. ~ server.alone
      BY <1>2, <2>2 DEF FtsReady
    <3> QED BY <3>1, <3>2 DEF Alone, StartRepairs
  <2>3. CASE server' = [server EXCEPT !.pc = "up", !.rw = 0, !.alone = FALSE]
    <3>1. server'.alone = FALSE
      BY <1>1, <2>3
    <3> QED BY <3>1 DEF Alone, StartRepairs
  <2>4. CASE db.fts # None /\ Up("fts", {}, Cardinality(db.fts))
    <3>1. /\ server'.pc = "up" /\ server'.rw = 0 /\ server'.index = "fts"
          /\ server'.conn = server.conn /\ server'.alone = server.alone
          /\ server'.mode = server.mode
      BY <1>1, <2>4 DEF Up
    <3>2. server.alone => FtsReady(db, server.mode) \/ Indexable(db) = {}
      <4>1. CASE server.pc = "count"
        BY <1>2, <4>1
      <4>2. CASE server.pc = "recount"
        <5>1. server.alone => Covers(db) /\ db.mark = server.mode
          BY <1>2, <4>2 DEF Built, Rw, SelfBuild
        <5> QED BY <2>4, <5>1 DEF Covers, FtsReady
      <4> QED BY <2>1, <4>1, <4>2
    <3>3. Alone'
      BY <3>1 DEF Alone, SelfBuild
    <3> QED BY <2>1, <3>1, <3>2, <3>3 DEF StartRepairs
  <2> QED BY <2>1, <2>2, <2>3, <2>4
<1>8. CASE Legacy
  <2>1. /\ server.pc = "legacy" /\ server.rw = 0 /\ disk' = disk /\ path' = path
        /\ pickle' = pickle
        /\ \/ pickle.mode = server.mode /\ \E rows, n : Up("pickle", rows, n)
           \/ Step("sections")
    BY <1>2, <1>8 DEF Legacy, buildVars, fileVars, SelfBuild
  <2>2. CASE pickle.mode = server.mode /\ \E rows, n : Up("pickle", rows, n)
    <3>1. /\ server'.pc = "up" /\ server'.rw = 0 /\ server'.index = "pickle"
          /\ server'.conn = server.conn /\ server'.alone = server.alone
          /\ server'.mode = server.mode
      BY <1>1, <2>2 DEF Up
    <3>2. server.alone => ~ FtsReady(db, server.mode)
      BY <1>2, <2>1
    <3>3. Alone'
      BY <3>1 DEF Alone, SelfBuild
    <3> QED BY <2>1, <2>2, <3>1, <3>2, <3>3 DEF StartRepairs
  <2>3. CASE Step("sections")
    <3>1. /\ server'.pc = "sections" /\ server'.rw = 0 /\ server'.conn = server.conn
          /\ server'.alone = server.alone
      BY <1>1, <2>1, <2>3 DEF Step
    <3> QED BY <1>2, <2>1, <3>1 DEF Alone, StartRepairs, SelfBuild
  <2> QED BY <2>1, <2>2, <2>3
<1>13. CASE CountStored
  <2>1. /\ server.pc = "sections" /\ server.rw = 0 /\ disk' = disk /\ path' = path
        /\ server' = [server EXCEPT !.pc = IF db.schema THEN "rw" ELSE "crashed"]
    BY <1>2, <1>13 DEF CountStored, Step, buildVars, fileVars, SelfBuild
  <2>2. /\ server'.pc \in {"rw", "crashed"} /\ server'.rw = 0 /\ server'.conn = server.conn
        /\ server'.alone = server.alone
        /\ server'.pc = "crashed" => ~ db.schema
    BY <1>1, <2>1
  <2>3. Alone'
    BY <1>2, <2>1, <2>2 DEF Alone, SelfBuild
  <2> QED BY <2>1, <2>2, <2>3 DEF StartRepairs
<1>9. CASE OpenToWrite
  <2>1. /\ server.pc = "rw" /\ server' = [server EXCEPT !.pc = "drop", !.rw = path']
    BY <1>9 DEF OpenToWrite
  <2>2. /\ server'.pc = "drop" /\ server'.rw = path' /\ server'.conn = server.conn
        /\ server'.alone = server.alone
    BY <1>1, <2>1
  <2>3. server.alone => server.conn = path /\ path # 0
    BY <1>2, <1>12, <2>1 DEF SelfBuild
  <2> QED BY <1>3, <2>2, <2>3 DEF Alone, StartRepairs
<1>10. CASE OwnBuild
  <2> DEFINE new == disk'[server.rw]
  <2>1. server.pc \in SelfBuild \ {"rw"} /\ path' = path
    BY <1>10 DEF OwnBuild, DropOwn, CreateOwn, ScanOwn, InsertOwn, CommitOwn, ServerCommit,
                 SelfBuild
  <2>2. /\ server'.pc \in SelfBuild \ {"rw"}
        /\ server'.rw = server.rw /\ server'.conn = server.conn /\ server'.alone = server.alone
        /\ server'.mode = server.mode
    BY <1>1, <1>10 DEF OwnBuild, DropOwn, CreateOwn, ScanOwn, InsertOwn, CommitOwn, ServerCommit,
                       Step, SelfBuild
  <2>3. Indexable(new) = Indexable(Rw) /\ Rw' = new
    <3>1. server.rw \in Inodes
      BY <1>1, <2>1, OpenFiles
    <3>2. SameContent(Rw, new)
      BY <3>1, ServerFiles DEF ServerDisk, ServerWay, Rw
    <3> QED BY <2>2, <3>2, ContentDecides DEF Rw
  <2> HIDE DEF new
  <2>4. server.alone /\ server'.pc \in {"insert", "commit"} => server'.found = Indexable(new)
    <3>1. CASE ScanOwn
      BY <1>1, <2>3, <3>1 DEF ScanOwn
    <3>2. CASE InsertOwn
      BY <1>1, <1>2, <2>3, <3>2 DEF InsertOwn, Step
    <3>3. CASE DropOwn \/ CreateOwn \/ CommitOwn
      <4>1. server'.pc \in {"create", "scan", "recount"}
        BY <1>1, <3>3 DEF DropOwn, CreateOwn, CommitOwn, ServerCommit, Step
      <4> QED BY <4>1
    <3> QED BY <1>10, <3>1, <3>2, <3>3 DEF OwnBuild
  <2>5. server.alone /\ server'.pc = "recount" => Covers(new) /\ new.mark = server.mode
    <3>1. CASE CommitOwn
      <4>1. /\ new.fts = Rw.fts \cup server.found
            /\ new.mark = server.mode
        BY <1>1, <3>1, OwnIndexFiles DEF new
      <4>2. server.alone => server.found = Indexable(Rw)
        BY <1>2, <3>1 DEF CommitOwn
      <4> QED BY <2>3, <4>1, <4>2 DEF Covers
    <3>2. CASE DropOwn \/ CreateOwn \/ ScanOwn \/ InsertOwn
      <4>1. server'.pc \in {"create", "scan", "insert", "commit"}
        BY <1>1, <3>2 DEF DropOwn, CreateOwn, ScanOwn, InsertOwn, ServerCommit, Step
      <4> QED BY <4>1
    <3> QED BY <1>10, <3>1, <3>2 DEF OwnBuild
  <2>6. server'.pc \notin {"count", "legacy", "up", "crashed"}
    BY <2>2 DEF SelfBuild
  <2>7. server.alone => server.conn = path /\ server.rw = server.conn
    BY <1>2, <2>1
  <2>8. Alone'
    BY <2>1, <2>2, <2>3, <2>4, <2>5, <2>6, <2>7 DEF Alone, Built
  <2> QED BY <2>6, <2>8 DEF StartRepairs
<1>11. CASE OwnBuildFails
  <2>1. server'.alone = FALSE
    BY <1>1, <1>11 DEF OwnBuildFails
  <2> QED BY <2>1 DEF Alone, StartRepairs
<1> QED BY <1>4, <1>5, <1>6, <1>7, <1>8, <1>9, <1>10, <1>11, <1>13
        DEF ServerNext, ServerStep, OwnBuild

LEMMA ServerKeepsIndexInv ==
  ASSUME IndexInv, IInv, ServerNext
  PROVE  IndexInv'
<1>1. /\ TypeOK /\ FilesOK /\ Locks /\ Where /\ IndexPart
  BY DEF IndexInv
<1>2. /\ builder' = builder /\ pickle' = pickle /\ corpus' = corpus /\ universe' = universe
      /\ path' \in Inodes \cup {0} /\ inodes' \in 0..MaxInodes
      /\ path # 0 => path' = path
  BY ServerLeaves
<1>3. /\ disk' \in [Inodes -> Database]
      /\ \A i \in Inodes : ServerWay(disk[i], disk'[i])
  BY ServerFiles DEF ServerDisk
<1>4. TypeOK' /\ RowsOK(server'.found)
  <2>1. server' \in ServerProcess /\ RowsOK(server'.found)
    BY ServerTypes
  <2>2. BuildTypeOK'
    BY <1>1, <1>2, <1>3 DEF TypeOK, BuildTypeOK
  <2> QED BY <2>1, <2>2 DEF TypeOK, ServerProcess
<1>5. FilesOK'
  BY <1>1, <1>2, <1>3, <1>4 DEF FilesOK, ServerWay
<1>6. Where'
  <2>1. /\ server'.pc # "off" => server'.mode \in Modes
        /\ server'.rw # 0 <=> server'.pc \in SelfBuild \ {"rw"}
        /\ server'.pc \in {"check", "count", "legacy", "sections", "up"} \cup SelfBuild =>
             server'.conn # 0
    BY ServerPlaces
  <2>2. 0 \notin Inodes
    BY <1>1, OpenFiles
  <2> QED BY <1>1, <1>2, <2>1, <2>2 DEF Where
<1>7. Locks'
  <2>1. server'.pc = "commit" => MayFill(Rw', "server", server'.found)
    BY ServerLocks
  <2>2. ASSUME builder.pc = "commit"
        PROVE  MayFill(DB', "builder", builder'.found)
    <3>1. MayFill(DB, "builder", builder.found) /\ builder.inode \in Inodes
      BY <1>1, <2>2, OpenFiles DEF Locks, Steps
    <3>2. ServerWay(DB, DB')
      BY <1>2, <1>3, <3>1 DEF DB
    <3> QED BY <1>2, <3>1, <3>2 DEF ServerWay, MayFill
  <2> QED BY <1>2, <2>1, <2>2 DEF Locks
<1>8. IndexPart'
  <2>1. ASSUME builder.pc \in {"insert", "commit", "count"}
        PROVE  builder'.found = Indexable(DB')
    <3>1. builder.found = Indexable(DB) /\ builder.inode \in Inodes
      BY <1>1, <2>1, OpenFiles DEF IndexPart, Steps
    <3>2. SameContent(DB, DB')
      BY <1>2, <1>3, <3>1 DEF DB, ServerWay
    <3> QED BY <1>2, <3>1, <3>2, ContentDecides
  <2>2. ASSUME builder.pc \in {"count", "pickle"}
        PROVE  Settled(builder.inode)'
    <3>1. Settled(builder.inode) /\ builder.inode \in Inodes
      BY <1>1, <2>2, OpenFiles DEF IndexPart, Steps
    <3> DEFINE i == builder.inode
    <3>2. i' = i
      BY <1>2
    <3>3. \A j \in Inodes : Settled(j) => Settled(j)'
      BY ServerSettles
    <3> QED BY <3>1, <3>2, <3>3 DEF Settled
  <2>3. ASSUME builder.pc = "done"
        PROVE  Settled(path)'
    <3>1. Settled(path) /\ path \in Inodes /\ path' = path
      BY <1>1, <1>2, <2>3, OpenFiles DEF IndexPart
    <3>2. \A j \in Inodes : Settled(j) => Settled(j)'
      BY ServerSettles
    <3> QED BY <3>1, <3>2 DEF Settled
  <2> QED BY <1>2, <2>1, <2>2, <2>3 DEF IndexPart
<1>9. Alone' /\ StartRepairs'
  BY ServerAlone
<1> QED BY <1>4, <1>5, <1>6, <1>7, <1>8, <1>9 DEF IndexInv
-----------------------------------------------------------------------------
LEMMA InitIndex ==
  ASSUME Init
  PROVE  IndexInv
<1> USE DEF Init, BuildInit, ServerInit
<1>1. disk = [i \in Inodes |-> EmptyFile]
  OBVIOUS
<1>2. EmptyFile \in Database
  <2>1. [n \in Names |-> None] \in [Names -> Corps \cup {None}]
    OBVIOUS
  <2>2. [d \in Docs |-> None] \in [Docs -> Document \cup {None}]
    OBVIOUS
  <2> QED BY <2>1, <2>2 DEF EmptyFile, Database
<1>3. DbOK(EmptyFile)
  <2>1. /\ EmptyFile.rows = {} /\ EmptyFile.fts = None
        /\ \A d \in Docs : EmptyFile.docs[d] = None
    BY DEF EmptyFile
  <2> QED BY <1>2, <2>1, FS_EmptySet DEF DbOK, ChainsOK
<1>4. FilesOK
  BY <1>1, <1>3, NoRowsAreOK DEF FilesOK
<1>5. TypeOK
  <2>1. disk \in [Inodes -> Database]
    BY <1>1, <1>2
  <2>2. inodes \in 0..MaxInodes /\ builder.runs \in 0..MaxRuns /\ server.starts \in 0..MaxStarts
    BY BuildAssumption, ServerAssumption
  <2>3. /\ path \in Inodes \cup {0} /\ corpus \in [Docs -> Files \cup {None}]
        /\ universe \in Universes \cup {{}} /\ pickle = None
    OBVIOUS
  <2>4. builder \in [pc : Steps \cup Ended, runs : 0..MaxRuns, inode : Inodes \cup {0},
                     rebuild : BOOLEAN, todo : SUBSET DOMAIN Manifest, loaded : SUBSET Docs,
                     also : BOOLEAN, found : SUBSET Row]
    BY <2>2 DEF Ended
  <2>5. server \in [pc : Starting \cup {"off", "missing", "crashed", "up"},
                    starts : 0..MaxStarts, mode : Modes \cup {None}, conn : Inodes \cup {0},
                    rw : Inodes \cup {0}, index : {"fts", "pickle", None},
                    memory : SUBSET Row, size : Nat, found : SUBSET Row, alone : BOOLEAN]
    BY <2>2
  <2> QED BY <2>1, <2>2, <2>3, <2>4, <2>5 DEF TypeOK, BuildTypeOK
<1>6. Locks /\ Where /\ IndexPart /\ Alone /\ StartRepairs
  BY DEF Locks, Where, IndexPart, Alone, StartRepairs, Steps, SelfBuild
<1> QED BY <1>4, <1>5, <1>6 DEF IndexInv

(***************************************************************************)
(* IndexInv is inductive relative to IInv.                                 *)
(***************************************************************************)
THEOREM NothingIsMissing == Spec => [](IInv /\ IndexInv)
<1>1. Init => IndexInv
  BY InitIndex
<1>2. IInv /\ IndexInv /\ [Next]_vars => IndexInv'
  <2> SUFFICES ASSUME IInv, IndexInv, [Next]_vars
               PROVE  IndexInv'
    OBVIOUS
  <2>1. CASE Beside(BuildNext)
    BY <2>1, BuilderKeepsIndexInv
  <2>2. CASE ServerNext
    BY <2>2, ServerKeepsIndexInv
  <2>3. CASE UNCHANGED vars
    <3>1. /\ disk' = disk /\ path' = path /\ inodes' = inodes /\ pickle' = pickle
          /\ corpus' = corpus /\ universe' = universe /\ builder' = builder /\ server' = server
      BY <2>3 DEF vars, buildVars, fileVars, corpusVars
    <3>2. TypeOK' /\ FilesOK' /\ Locks' /\ Where'
      BY <3>1 DEF IndexInv, TypeOK, BuildTypeOK, FilesOK, Locks, Where, DB, Rw
    <3>3. IndexPart' /\ Alone' /\ StartRepairs'
      BY <3>1 DEF IndexInv, IndexPart, Settled, Alone, Built, StartRepairs, DB, Rw
    <3> QED BY <3>2, <3>3 DEF IndexInv
  <2> QED BY <2>1, <2>2, <2>3 DEF Next
<1> QED BY <1>1, <1>2, FilesInOrder, PTL DEF Spec

(***************************************************************************)
(* Disk, builder and server have their types, whatever happens.            *)
(***************************************************************************)
THEOREM TypeCorrect == Spec => []TypeOK
<1>1. IndexInv => TypeOK
  BY DEF IndexInv
<1> QED BY <1>1, NothingIsMissing, PTL

\* What is found in a table that lacks nothing is what is stored.
LEMMA CompleteIsCurrent ==
  ASSUME NEW db, DbOK(db), RowidsUnique(db), db.fts # None, Covers(db)
  PROVE  SearchIsCurrent(db)
<1>1. db.fts # None /\ Indexable(db) \subseteq db.fts /\ UniqueIds(db.fts)
  BY DEF Covers, DbOK, RowsOK
<1>2. \A r : r \in Indexable(db) <=> r \in Sections(db.rows) /\ Effective(db, r.doc)
  BY DEF Indexable
<1>3. ASSUME NEW h \in FtsHits(db)
      PROVE  \E r \in Indexable(db) : h = <<r, r>>
  <2>1. /\ h \in db.fts \X Sections(db.rows)
        /\ h[1].rowid = h[2].rowid /\ Effective(db, h[2].doc)
    BY <1>1, <1>3 DEF FtsHits
  <2>2. h = <<h[1], h[2]>> /\ h[1] \in db.fts /\ h[2] \in Sections(db.rows)
    BY <2>1
  <2>3. h[2] \in Indexable(db)
    BY <1>2, <2>1, <2>2
  <2>4. h[1] = h[2]
    BY <1>1, <2>1, <2>2, <2>3 DEF UniqueIds
  <2> QED BY <2>2, <2>3, <2>4
<1>4. ASSUME NEW r \in Indexable(db)
      PROVE  <<r, r>> \in FtsHits(db)
  <2> DEFINE h == <<r, r>>
  <2>1. h[1] = r /\ h[2] = r /\ h \in db.fts \X Sections(db.rows)
    BY <1>1, <1>2, <1>4
  <2> HIDE DEF h
  <2>2. h \in FtsHits(db)
    BY <1>1, <1>2, <1>4, <2>1 DEF FtsHits
  <2> QED BY <2>2 DEF h
<1> QED BY <1>3, <1>4 DEF SearchIsCurrent

(***************************************************************************)
(* After any number of runs, killed, failed or complete, and beside any    *)
(* number of starts: when the builder has finished, the chains of its file *)
(* are resolved, and in an index that is taken for ready each section of   *)
(* an effective document is found as it is stored, and nothing else, even  *)
(* if a server has added to the table what it had scanned before.          *)
(***************************************************************************)
THEOREM FinishedRunsAreConsistent == Spec => []FinishedIsConsistent
<1>1. IInv /\ IndexInv => FinishedIsConsistent
  <2> SUFFICES ASSUME IInv, IndexInv, builder.pc = "done", path # 0
               PROVE  /\ \A d \in Docs : disk[path].docs[d] # None =>
                           (Effective(disk[path], d) <=>
                              ~ \E e \in Docs : /\ disk[path].docs[e] # None
                                                /\ disk[path].docs[e].points = d)
                      /\ \A m \in Modes : FtsReady(disk[path], m) => SearchIsCurrent(disk[path])
    BY DEF FinishedIsConsistent
  <2>1. path \in Inodes
    BY OpenFiles DEF IndexInv
  <2>2. DbOK(disk[path]) /\ ChainsOK(disk[path]) /\ RowidsUnique(disk[path])
    BY <2>1 DEF IndexInv, FilesOK, DbOK, IInv, FileOK
  <2>3. Complete(disk[path])
    BY DEF IndexInv, IndexPart, Settled
  <2>4. \A m \in Modes : FtsReady(disk[path], m) => SearchIsCurrent(disk[path])
    BY <2>2, <2>3, CompleteIsCurrent DEF Complete, FtsReady
  <2> QED BY <2>2, <2>4 DEF ChainsOK, Effective
<1> QED BY <1>1, NothingIsMissing, PTL

(***************************************************************************)
(* Whatever a server on the full-text index returns is of a document that  *)
(* no other supersedes; and when the builder has finished the server's     *)
(* file, the text that matched is the text of the hit.                     *)
(***************************************************************************)
THEOREM HitsAreAlwaysHonest == Spec => []HitsAreHonest
<1>1. IInv /\ IndexInv => HitsAreHonest
  <2> SUFFICES ASSUME IInv, IndexInv, server.pc = "up", NEW h \in FtsHits(disk[server.conn])
               PROVE  /\ ~ \E e \in Docs : /\ disk[server.conn].docs[e] # None
                                           /\ disk[server.conn].docs[e].points = h[2].doc
                      /\ builder.pc = "done" /\ server.conn = path => h[1] = h[2]
    BY DEF HitsAreHonest
  <2> DEFINE db == disk[server.conn]
  <2>1. server.conn \in Inodes
    BY OpenFiles DEF IndexInv
  <2>2. ChainsOK(db) /\ RowidsUnique(db) /\ db \in Database
    BY <2>1 DEF IndexInv, FilesOK, DbOK, IInv, FileOK
  <2>3. DbOK(db) /\ (builder.pc = "done" /\ server.conn = path => Complete(db))
    BY <2>1 DEF IndexInv, IndexPart, Settled, FilesOK
  <2> HIDE DEF db
  <2>4. /\ db.fts # None /\ h \in db.fts \X Sections(db.rows)
        /\ h[1].rowid = h[2].rowid /\ Effective(db, h[2].doc)
    BY DEF FtsHits, db
  <2>5. h[1] \in db.fts /\ h[2] \in Sections(db.rows)
    BY <2>4
  <2>6. h[2].doc \in Docs
    BY <2>2, <2>5 DEF Database, Sections, Row
  <2>7. ~ \E e \in Docs : db.docs[e] # None /\ db.docs[e].points = h[2].doc
    BY <2>2, <2>4, <2>6 DEF ChainsOK, Effective
  <2>8. ASSUME builder.pc = "done", server.conn = path
        PROVE  h[1] = h[2]
    <3>1. Covers(db)
      BY <2>3, <2>4, <2>5, <2>8 DEF Complete
    <3>2. SearchIsCurrent(db)
      BY <2>2, <2>3, <2>4, <3>1, CompleteIsCurrent
    <3> QED BY <3>2 DEF SearchIsCurrent, db
  <2> QED BY <2>7, <2>8 DEF db
<1> QED BY <1>1, NothingIsMissing, PTL

(***************************************************************************)
(* Whatever killed runs have left of the index, a start that nothing       *)
(* disturbs leaves the full-text index ready for its tokenizer, unless     *)
(* there is nothing to index; or takes a pickle of its tokenizer while the *)
(* full-text index is not ready; or ends on a file without the sections.   *)
(***************************************************************************)
THEOREM StartsRepair == Spec => []StartRepairs
<1>1. IndexInv => StartRepairs
  BY DEF IndexInv
<1> QED BY <1>1, NothingIsMissing, PTL
=============================================================================
