------------------------- MODULE ServerStartProofs -------------------------
(***************************************************************************)
(* Builder and server on one database file, whichever of them is killed    *)
(* or fails, for every corpus and parser: a document's rows are always     *)
(* those of one file, and a name keeps its company.                        *)
(*                                                                         *)
(* Each step changes a file in one of three ways: it loads a document, it  *)
(* adds names, or it leaves the rows and names as they are.                *)
(***************************************************************************)
EXTENDS ServerStart, FiniteSetTheorems, FunctionTheorems, WellFoundedInduction, TLAPS

\* The structure of a file that the steps rely on.
WellFormed(db) ==
  /\ DOMAIN db = {"schema", "companies", "alias", "docs", "rows", "fts", "mark", "counted",
                  "sections", "fresh", "lock"}
  /\ DOMAIN db.alias = Names
  /\ db.docs \in [Docs -> Document \cup {None}]
  /\ db.rows \subseteq Row

RowidsBounded(db) == \E n \in Nat : \A r \in Sections(db.rows) : r.rowid <= n

FileOK(db) ==
  /\ WellFormed(db)
  /\ \A d \in Docs : DocumentIsWhole(db, d)
  /\ RowidsUnique(db)
  /\ RowidsBounded(db)

\* What is to be loaded is there.
TodoOK ==
  /\ DOMAIN builder = {"pc", "runs", "inode", "rebuild", "todo", "loaded", "also", "found"}
  /\ builder.todo \subseteq {i \in DOMAIN Manifest : corpus[Manifest[i]] \in Files}

IInv ==
  /\ DOMAIN disk = Inodes
  /\ \A i \in Inodes : FileOK(disk[i])
  /\ TodoOK

(***************************************************************************)
(* The three ways in which a file changes.                                 *)
(***************************************************************************)
Quiet(db, new) ==
  /\ DOMAIN new = DOMAIN db
  /\ new.alias = db.alias
  /\ new.rows = db.rows
  /\ new.docs \in [Docs -> Document \cup {None}]
  /\ \A d \in Docs :
       /\ db.docs[d] = None <=> new.docs[d] = None
       /\ db.docs[d] # None => new.docs[d].warnings = db.docs[d].warnings

NamesAdded(db, new) ==
  \E names : ~ AliasConflict(db, names) /\ new = Committed(WithCompanies(db, names), "builder")

DocLoaded(db, new) ==
  \E d \in Docs, f \in Files : new = Committed(Stored(Cleared(db, d), d, f), "builder")

Changed(db, new) == Quiet(db, new) \/ NamesAdded(db, new) \/ DocLoaded(db, new)
-----------------------------------------------------------------------------
(* A non-empty set of natural numbers has a least element. *)
LEMMA LeastExists ==
  ASSUME NEW S \in SUBSET Nat, S # {}
  PROVE  \E x \in S : \A y \in S : x <= y
<1>1. PICK x \in S : \A y \in S : ~ (<<y, x>> \in OpToRel(<, Nat))
  BY NatLessThanWellFounded, WFMin
<1>2. ASSUME NEW y \in S
      PROVE  x <= y
  <2>1. x \in Nat /\ y \in Nat /\ <<y, x>> \in Nat \X Nat
    OBVIOUS
  <2>2. y < x => <<y, x>> \in OpToRel(<, Nat)
    BY <2>1 DEF OpToRel
  <2>3. ~ (y < x)
    BY <1>1, <2>2
  <2> QED BY <2>1, <2>3
<1> QED BY <1>2

(* A bounded set of sections has a highest rowid. *)
LEMMA LastRowidIsHighest ==
  ASSUME NEW rows \in SUBSET Row, NEW n \in Nat, \A r \in Sections(rows) : r.rowid <= n
  PROVE  LastRowid(rows) \in Nat /\ \A r \in Sections(rows) : r.rowid <= LastRowid(rows)
<1> DEFINE S == Sections(rows)
           U == {m \in Nat : \A r \in S : r.rowid <= m}
<1>1. \A r \in S : r.rowid \in Nat
  BY DEF Sections, Row
<1>2. CASE S = {}
  BY <1>2 DEF LastRowid
<1>3. CASE S # {}
  <2>1. U \in SUBSET Nat /\ U # {}
    OBVIOUS
  <2> HIDE DEF S
  <2>2. PICK m \in U : \A u \in U : m <= u
    BY <2>1, LeastExists
  <2>3. \E r \in S : r.rowid = m
    <3>1. SUFFICES ASSUME \A r \in S : r.rowid # m
                   PROVE  FALSE
      OBVIOUS
    <3>2. PICK r0 \in S : TRUE
      BY <1>3
    <3>3. m \in Nat /\ \A r \in S : r.rowid <= m
      BY <2>2
    <3>4. \A r \in S : r.rowid < m
      BY <1>1, <3>1, <3>3
    <3>5. r0.rowid < m /\ r0.rowid \in Nat
      BY <1>1, <3>4
    <3>6. m - 1 \in Nat
      BY <3>3, <3>5
    <3>7. \A r \in S : r.rowid <= m - 1
      BY <1>1, <3>3, <3>4
    <3>8. m - 1 \in U
      BY <3>6, <3>7
    <3> QED BY <2>2, <3>3, <3>8
  <2>4. \E i \in {r.rowid : r \in S} : \A q \in S : q.rowid <= i
    BY <2>2, <2>3
  <2>5. LastRowid(rows) \in {r.rowid : r \in S} /\ \A q \in S : q.rowid <= LastRowid(rows)
    BY <1>3, <2>4 DEF LastRowid, S
  <2> QED BY <1>1, <2>5 DEF S
<1> QED BY <1>2, <1>3

-----------------------------------------------------------------------------
(***************************************************************************)
(* What a parser returns of a document, and which rows of it are stored.   *)
(***************************************************************************)
LEMMA RowsOfShape ==
  ASSUME NEW d \in Docs, NEW f \in Files
  PROVE  /\ RowsOf(d, f) \subseteq Row
         /\ \A r \in RowsOf(d, f) :
              /\ r.doc = d /\ r.file = f /\ r.rowid = 0
              /\ r.nr \in 1..Len(Parsed[f][r.table])
              /\ r.key = Parsed[f][r.table][r.nr]
              /\ r = [table |-> r.table, doc |-> d, file |-> f,
                      key |-> Parsed[f][r.table][r.nr], nr |-> r.nr, rowid |-> 0]
<1>1. ASSUME NEW r \in RowsOf(d, f)
      PROVE  /\ r \in Row /\ r.doc = d /\ r.file = f /\ r.rowid = 0
             /\ r.nr \in 1..Len(Parsed[f][r.table])
             /\ r.key = Parsed[f][r.table][r.nr]
             /\ r = [table |-> r.table, doc |-> d, file |-> f,
                     key |-> Parsed[f][r.table][r.nr], nr |-> r.nr, rowid |-> 0]
  <2>1. PICK t \in Tables : \E n \in DOMAIN Parsed[f][t] :
          r = [table |-> t, doc |-> d, file |-> f, key |-> Parsed[f][t][n], nr |-> n, rowid |-> 0]
    BY <1>1 DEF RowsOf
  <2>2. PICK n \in DOMAIN Parsed[f][t] :
          r = [table |-> t, doc |-> d, file |-> f, key |-> Parsed[f][t][n], nr |-> n, rowid |-> 0]
    BY <2>1
  <2>3. Parsed[f][t] \in Seq(Keys \cup {None})
    BY <2>1, StoreAssumption
  <2>4. n \in 1..Len(Parsed[f][t]) /\ n \in Nat \ {0} /\ Parsed[f][t][n] \in Keys \cup {None}
    BY <2>2, <2>3
  <2> QED BY <2>1, <2>2, <2>4 DEF Row
<1> QED BY <1>1

(* Rows of other documents are in nobody's way. *)
LEMMA AcceptedAlone ==
  ASSUME NEW rows, NEW d \in Docs, NEW f \in Files, \A q \in rows : q.doc # d
  PROVE  Accepted(rows, RowsOf(d, f)) = RowsAlone[d][f]
<1>1. \A q \in rows, r \in RowsOf(d, f) : ~ Conflict(q, r)
  BY RowsOfShape DEF Conflict
<1>2. RowsAlone[d][f] = Accepted({}, RowsOf(d, f))
  BY DEF RowsAlone
<1> QED BY <1>1, <1>2 DEF Accepted

LEMMA AloneShape ==
  ASSUME NEW d \in Docs, NEW f \in Files
  PROVE  RowsAlone[d][f] \subseteq RowsOf(d, f)
BY DEF RowsAlone, Accepted

(***************************************************************************)
(* The sections among them are finite in number and told apart by nr.      *)
(***************************************************************************)
LEMMA FewSections ==
  ASSUME NEW d \in Docs, NEW f \in Files
  PROVE  /\ IsFiniteSet(Sections(RowsAlone[d][f]))
         /\ \A q, r \in Sections(RowsAlone[d][f]) : q.nr = r.nr => q = r
<1> DEFINE S == Sections(RowsAlone[d][f])
           n == Len(Parsed[f]["section"])
           nr == [r \in S |-> r.nr]
<1>1. Parsed[f]["section"] \in Seq(Keys \cup {None})
  BY StoreAssumption DEF Tables
<1>2. n \in Nat /\ IsFiniteSet(1..n)
  <2>1. n \in Nat
    BY <1>1
  <2> HIDE DEF n
  <2>2. n \in Int /\ 1 \in Int
    BY <2>1
  <2> QED BY <2>1, <2>2, FS_Interval
<1>3. \A r \in S : /\ r.nr \in 1..n
                   /\ r = [table |-> "section", doc |-> d, file |-> f,
                           key |-> Parsed[f]["section"][r.nr], nr |-> r.nr, rowid |-> 0]
  <2> SUFFICES ASSUME NEW r \in S
               PROVE  /\ r.nr \in 1..n
                      /\ r = [table |-> "section", doc |-> d, file |-> f,
                              key |-> Parsed[f]["section"][r.nr], nr |-> r.nr, rowid |-> 0]
    OBVIOUS
  <2>1. r \in RowsOf(d, f) /\ r.table = "section"
    BY AloneShape DEF Sections
  <2> QED BY <2>1, RowsOfShape
<1>4. \A q, r \in S : q.nr = r.nr => q = r
  BY <1>3
<1> HIDE DEF S, n
<1>5. nr \in [S -> 1..n] /\ \A q, r \in S : nr[q] = nr[r] => q = r
  BY <1>3, <1>4
<1>6. nr \in Injection(S, 1..n)
  BY <1>5 DEF Injection, IsInjective
<1>7. IsFiniteSet(S)
  BY <1>2, <1>6, FS_Injection
<1> QED BY <1>4, <1>7 DEF S

(***************************************************************************)
(* The place of a row among rows that nr tells apart.                      *)
(***************************************************************************)
LEMMA Places ==
  ASSUME NEW S, IsFiniteSet(S), \A r \in S : r.nr \in Nat,
         \A q, r \in S : q.nr = r.nr => q = r
  PROVE  /\ Cardinality(S) \in Nat
         /\ \A r \in S : Cardinality({q \in S : q.nr <= r.nr}) \in 1..Cardinality(S)
         /\ \A q, r \in S : Cardinality({x \in S : x.nr <= q.nr})
                              = Cardinality({x \in S : x.nr <= r.nr}) => q = r
<1> DEFINE Upto(r) == {q \in S : q.nr <= r.nr}
<1>1. Cardinality(S) \in Nat
  BY FS_CardinalityType
<1>2. ASSUME NEW r \in S
      PROVE  IsFiniteSet(Upto(r)) /\ Cardinality(Upto(r)) \in 1..Cardinality(S)
  <2>1. r \in Upto(r) /\ Upto(r) \in SUBSET S
    OBVIOUS
  <2> HIDE DEF Upto
  <2>2. IsFiniteSet(Upto(r)) /\ Cardinality(Upto(r)) <= Cardinality(S)
    BY <2>1, FS_Subset
  <2>3. Cardinality(Upto(r)) \in Nat /\ Cardinality(Upto(r)) # 0
    BY <2>1, <2>2, FS_CardinalityType, FS_EmptySet
  <2> QED BY <1>1, <2>2, <2>3
<1>3. ASSUME NEW q \in S, NEW r \in S, q.nr <= r.nr, Cardinality(Upto(q)) = Cardinality(Upto(r))
      PROVE  q = r
  <2>1. Upto(q) \in SUBSET Upto(r) /\ r \in Upto(r)
    BY <1>3
  <2>2. Upto(q) = Upto(r)
    <3> HIDE DEF Upto
    <3> QED BY <1>2, <1>3, <2>1, FS_Subset
  <2>3. r.nr <= q.nr
    BY <2>1, <2>2
  <2>4. q.nr = r.nr
    BY <1>3, <2>3
  <2> QED BY <2>4
<1>4. ASSUME NEW q \in S, NEW r \in S, Cardinality(Upto(q)) = Cardinality(Upto(r))
      PROVE  q = r
  <2>1. q.nr <= r.nr \/ r.nr <= q.nr
    OBVIOUS
  <2> HIDE DEF Upto
  <2> QED BY <1>3, <1>4, <2>1
<1> QED BY <1>1, <1>2, <1>4

(***************************************************************************)
(* SQLite's rowids: the new sections come after the stored ones.           *)
(***************************************************************************)
LEMMA NewRowids ==
  ASSUME NEW old \in SUBSET Row, NEW n \in Nat, \A r \in Sections(old) : r.rowid <= n,
         NEW d \in Docs, NEW f \in Files
  PROVE  LET new == RowsAlone[d][f]
             numbered == WithRowids(old, new)
         IN /\ numbered \subseteq Row
            /\ \A r \in numbered : r.doc = d
            /\ Unnumbered(numbered) = new
            /\ \A r \in Sections(numbered) : r.rowid > LastRowid(old)
            /\ \A q, r \in Sections(numbered) : q.rowid = r.rowid => q = r
            /\ \E m \in Nat : \A r \in Sections(numbered) : r.rowid <= m
<1> DEFINE new == RowsAlone[d][f]
           S == Sections(new)
           last == LastRowid(old)
           Place(r) == Cardinality({q \in S : q.nr <= r.nr})
           Numbered(r) == IF r.table # "section" THEN r ELSE [r EXCEPT !.rowid = last + Place(r)]
           numbered == {Numbered(r) : r \in new}
<1>1. last \in Nat
  BY LastRowidIsHighest
<1>2. \A r \in new : r \in Row /\ r.doc = d /\ r.rowid = 0
  BY AloneShape, RowsOfShape
<1>3. \A r \in S : r \in new /\ r.table = "section"
  BY DEF Sections
<1>4. /\ Cardinality(S) \in Nat
      /\ \A r \in S : Place(r) \in 1..Cardinality(S)
      /\ \A q, r \in S : Place(q) = Place(r) => q = r
  <2>1. IsFiniteSet(S) /\ \A q, r \in S : q.nr = r.nr => q = r
    BY FewSections
  <2>2. \A r \in S : r.nr \in Nat
    BY <1>2, <1>3 DEF Row
  <2> HIDE DEF S
  <2> QED BY <2>1, <2>2, Places
<1>5. numbered = WithRowids(old, new)
  BY DEF WithRowids
<1> HIDE DEF Place, last
<1>6. ASSUME NEW r \in new
      PROVE  /\ Numbered(r) \in Row /\ Numbered(r).doc = d
             /\ [Numbered(r) EXCEPT !.rowid = 0] = r
             /\ Numbered(r).table = r.table
             /\ r.table = "section" => /\ r \in S
                                       /\ Numbered(r).rowid = last + Place(r)
  <2> HIDE DEF new
  <2>1. r \in Row /\ r.doc = d /\ r.rowid = 0
    BY <1>2
  <2>2. CASE r.table # "section"
    <3>1. [r EXCEPT !.rowid = 0] = r
      BY <2>1 DEF Row
    <3> QED BY <2>1, <2>2, <3>1
  <2>3. CASE r.table = "section"
    <3>1. r \in S
      BY <2>3 DEF Sections
    <3>2. last + Place(r) \in Nat
      BY <1>1, <1>4, <3>1
    <3>3. Numbered(r) = [r EXCEPT !.rowid = last + Place(r)]
      BY <2>3
    <3>4. /\ Numbered(r) \in Row /\ Numbered(r).doc = d /\ Numbered(r).table = r.table
          /\ Numbered(r).rowid = last + Place(r)
      BY <2>1, <3>2, <3>3 DEF Row
    <3>5. [Numbered(r) EXCEPT !.rowid = 0] = r
      BY <2>1, <3>2, <3>3 DEF Row
    <3> QED BY <3>1, <3>4, <3>5
  <2> QED BY <2>2, <2>3
<1> HIDE DEF new, S, Numbered
<1>7. numbered \subseteq Row /\ \A r \in numbered : r.doc = d
  BY <1>6
<1>8. Unnumbered(numbered) = new
  <2>1. \A r \in new : r \in Unnumbered(numbered)
    BY <1>6 DEF Unnumbered
  <2>2. \A x \in Unnumbered(numbered) : x \in new
    <3> SUFFICES ASSUME NEW x \in Unnumbered(numbered)
                 PROVE  x \in new
      OBVIOUS
    <3>1. PICK y \in numbered : x = [y EXCEPT !.rowid = 0]
      BY DEF Unnumbered
    <3>2. PICK r \in new : y = Numbered(r)
      BY <3>1
    <3> QED BY <1>6, <3>1, <3>2
  <2> QED BY <2>1, <2>2
<1>9. \A x \in Sections(numbered) : \E r \in S : x = Numbered(r) /\ x.rowid = last + Place(r)
  <2> SUFFICES ASSUME NEW x \in Sections(numbered)
               PROVE  \E r \in S : x = Numbered(r) /\ x.rowid = last + Place(r)
    OBVIOUS
  <2>1. x \in numbered /\ x.table = "section"
    BY DEF Sections
  <2>2. PICK r \in new : x = Numbered(r)
    BY <2>1
  <2> QED BY <1>6, <2>1, <2>2
<1>10. \A r \in Sections(numbered) : r.rowid > last /\ r.rowid <= last + Cardinality(S)
  BY <1>1, <1>4, <1>9
<1>11. ASSUME NEW x \in Sections(numbered), NEW y \in Sections(numbered), x.rowid = y.rowid
       PROVE  x = y
  <2>1. PICK q \in S : x = Numbered(q) /\ x.rowid = last + Place(q)
    BY <1>9
  <2>2. PICK r \in S : y = Numbered(r) /\ y.rowid = last + Place(r)
    BY <1>9
  <2>3. Place(q) \in Nat /\ Place(r) \in Nat
    BY <1>4
  <2>4. Place(q) = Place(r)
    BY <1>1, <1>11, <2>1, <2>2, <2>3
  <2>5. q = r
    BY <1>4, <2>4
  <2> QED BY <2>1, <2>2, <2>5
<1>12. last + Cardinality(S) \in Nat
  BY <1>1, <1>4
<1> HIDE DEF numbered
<1> QED BY <1>5, <1>7, <1>8, <1>10, <1>11, <1>12 DEF new, last

-----------------------------------------------------------------------------
(***************************************************************************)
(* Each of the three changes leaves a file in order.                       *)
(***************************************************************************)
LEMMA QuietKeeps ==
  ASSUME NEW db, NEW new, FileOK(db), Quiet(db, new)
  PROVE  FileOK(new)
<1>1. WellFormed(new)
  BY DEF FileOK, WellFormed, Quiet
<1>2. ASSUME NEW d \in Docs
      PROVE  DocumentIsWhole(new, d)
  BY <1>2 DEF FileOK, Quiet, DocumentIsWhole
<1>3. RowidsUnique(new) /\ RowidsBounded(new)
  BY DEF FileOK, Quiet, RowidsUnique, RowidsBounded
<1> QED BY <1>1, <1>2, <1>3 DEF FileOK

LEMMA NamesAddedIsQuietForRows ==
  ASSUME NEW db, NEW names, FileOK(db), NEW new,
         new = Committed(WithCompanies(db, names), "builder")
  PROVE  /\ DOMAIN new = DOMAIN db /\ new.rows = db.rows /\ new.docs = db.docs
         /\ DOMAIN new.alias = Names
         /\ \A n \in Names : new.alias[n] = OwnerOf(db, names, n)
BY DEF FileOK, WellFormed, Committed, WithCompanies

LEMMA NamesAddedKeeps ==
  ASSUME NEW db, NEW new, FileOK(db), NamesAdded(db, new)
  PROVE  FileOK(new)
<1>1. PICK names : new = Committed(WithCompanies(db, names), "builder")
  BY DEF NamesAdded
<1>2. /\ DOMAIN new = DOMAIN db /\ new.rows = db.rows /\ new.docs = db.docs
      /\ DOMAIN new.alias = Names
  BY <1>1, NamesAddedIsQuietForRows
<1>3. WellFormed(new)
  BY <1>2 DEF FileOK, WellFormed
<1>4. \A d \in Docs : DocumentIsWhole(new, d)
  BY <1>2 DEF FileOK, DocumentIsWhole
<1>5. RowidsUnique(new) /\ RowidsBounded(new)
  BY <1>2 DEF FileOK, RowidsUnique, RowidsBounded
<1> QED BY <1>3, <1>4, <1>5 DEF FileOK

(* What clear_doc() and store() make of a file. *)
Others(db, d) == {r \in db.rows : r.doc # d}

LEMMA LoadedFields ==
  ASSUME NEW db, FileOK(db), NEW d \in Docs, NEW f \in Files, NEW new,
         new = Committed(Stored(Cleared(db, d), d, f), "builder")
  PROVE  /\ DOMAIN new = DOMAIN db
         /\ new.alias = db.alias
         /\ new.rows = Others(db, d) \cup WithRowids(Others(db, d), RowsAlone[d][f])
         /\ new.docs \in [Docs -> Document \cup {None}]
         /\ new.docs[d] # None /\ new.docs[d].warnings = f
         /\ \A e \in Docs \ {d} : new.docs[e] = db.docs[e]
<1> DEFINE others == Others(db, d)
           cleared == Cleared(db, d)
           stored == Stored(cleared, d, f)
<1>1. WellFormed(db)
  BY DEF FileOK
<1>2. {r \in db.rows : ~ (r.doc = d /\ r.table \in ClearedTables)} = others
  BY <1>1 DEF WellFormed, Row, ClearedTables, Others
<1>3. /\ DOMAIN cleared = DOMAIN db /\ cleared.rows = others
      /\ cleared.docs = db.docs /\ cleared.alias = db.alias
  BY <1>1, <1>2 DEF Cleared, WellFormed
<1>4. Accepted(others, RowsOf(d, f)) = RowsAlone[d][f]
  <2>1. \A q \in others : q.doc # d
    BY DEF Others
  <2> QED BY <2>1, AcceptedAlone
<1> HIDE DEF cleared, others
<1>5. /\ DOMAIN stored = DOMAIN db /\ stored.alias = db.alias
      /\ stored.rows = others \cup WithRowids(others, RowsAlone[d][f])
      /\ stored.docs = [db.docs EXCEPT ![d] = Upserted(cleared, d, f)]
  BY <1>1, <1>3, <1>4 DEF Stored, WellFormed
<1>6. Upserted(cleared, d, f) \in Document /\ Upserted(cleared, d, f).warnings = f
  BY <1>1, <1>3 DEF Upserted, WellFormed, Document
<1>7. Upserted(cleared, d, f) # None
  BY <1>6, StoreAssumption
<1> HIDE DEF stored
<1>8. /\ DOMAIN new = DOMAIN stored /\ new.alias = stored.alias
      /\ new.rows = stored.rows /\ new.docs = stored.docs
  BY <1>1, <1>5 DEF Committed, WellFormed, stored, cleared
<1>9. db.docs \in [Docs -> Document \cup {None}]
  BY <1>1 DEF WellFormed
<1>10. new.docs = [db.docs EXCEPT ![d] = Upserted(cleared, d, f)]
  BY <1>5, <1>8
<1>11. /\ new.docs \in [Docs -> Document \cup {None}]
       /\ new.docs[d] = Upserted(cleared, d, f)
       /\ \A e \in Docs \ {d} : new.docs[e] = db.docs[e]
  BY <1>6, <1>9, <1>10
<1> QED BY <1>5, <1>6, <1>7, <1>8, <1>11 DEF others

LEMMA DocLoadedKeeps ==
  ASSUME NEW db, NEW new, FileOK(db), DocLoaded(db, new)
  PROVE  FileOK(new)
<1>1. PICK d \in Docs, f \in Files :
        new = Committed(Stored(Cleared(db, d), d, f), "builder")
  BY DEF DocLoaded
<1> DEFINE others == Others(db, d)
           added == WithRowids(others, RowsAlone[d][f])
<1>2. /\ DOMAIN new = DOMAIN db /\ new.alias = db.alias
      /\ new.rows = others \cup added
      /\ new.docs \in [Docs -> Document \cup {None}]
      /\ new.docs[d] # None /\ new.docs[d].warnings = f
      /\ \A e \in Docs \ {d} : new.docs[e] = db.docs[e]
  BY <1>1, LoadedFields
<1>3. WellFormed(db) /\ others \subseteq Row
  BY DEF FileOK, WellFormed, Others
<1>4. PICK n \in Nat : \A r \in Sections(others) : r.rowid <= n
  BY DEF FileOK, RowidsBounded, Sections, Others
<1>5. /\ added \subseteq Row
      /\ \A r \in added : r.doc = d
      /\ Unnumbered(added) = RowsAlone[d][f]
      /\ \A r \in Sections(added) : r.rowid > LastRowid(others)
      /\ \A q, r \in Sections(added) : q.rowid = r.rowid => q = r
      /\ \E m \in Nat : \A r \in Sections(added) : r.rowid <= m
  BY <1>3, <1>4, NewRowids
<1>6. LastRowid(others) \in Nat /\ \A r \in Sections(others) : r.rowid <= LastRowid(others)
  BY <1>3, <1>4, LastRowidIsHighest
<1>7. \A r \in others : r.doc # d /\ r \in db.rows
  BY DEF Others
<1>a. \A r \in db.rows : r.doc # d => r \in others
  BY DEF Others
<1> HIDE DEF added, others
<1>8. WellFormed(new)
  BY <1>2, <1>3, <1>5 DEF WellFormed
<1>9. ASSUME NEW e \in Docs
      PROVE  DocumentIsWhole(new, e)
  <2>1. CASE e = d
    <3>1. {r \in new.rows : r.doc = d} = added
      BY <1>2, <1>5, <1>7
    <3> QED BY <1>2, <1>5, <2>1, <3>1 DEF DocumentIsWhole
  <2>2. CASE e # d
    <3>1. {r \in new.rows : r.doc = e} = {r \in db.rows : r.doc = e}
      BY <1>2, <1>5, <1>7, <1>a, <2>2
    <3> QED BY <1>2, <2>2, <3>1 DEF DocumentIsWhole, FileOK
  <2> QED BY <2>1, <2>2
<1>10. \A r \in Sections(new.rows) : r \in Sections(others) \/ r \in Sections(added)
  BY <1>2 DEF Sections
<1>11. \A r \in Sections(others) \cup Sections(added) : r.rowid \in Nat
  BY <1>3, <1>5 DEF Sections, Row
<1>12. RowidsUnique(new)
  <2>1. ASSUME NEW q \in Sections(others), NEW r \in Sections(added)
        PROVE  q.rowid # r.rowid
    BY <1>5, <1>6, <1>11
  <2>2. \A q, r \in Sections(others) : q.rowid = r.rowid => q = r
    BY <1>7 DEF FileOK, RowidsUnique, Sections
  <2> QED BY <1>5, <1>10, <2>1, <2>2 DEF RowidsUnique
<1>13. RowidsBounded(new)
  <2>1. PICK m \in Nat : \A r \in Sections(added) : r.rowid <= m
    BY <1>5
  <2>2. n + m \in Nat /\ n <= n + m /\ m <= n + m
    OBVIOUS
  <2>3. \A r \in Sections(new.rows) : r.rowid <= n + m
    BY <1>4, <1>10, <1>11, <2>1
  <2> QED BY <2>2, <2>3 DEF RowidsBounded
<1> QED BY <1>8, <1>9, <1>12, <1>13 DEF FileOK

LEMMA ChangedKeeps ==
  ASSUME NEW db, NEW new, FileOK(db), Changed(db, new)
  PROVE  FileOK(new)
BY QuietKeeps, NamesAddedKeeps, DocLoadedKeeps DEF Changed

(* No change takes a name from its company. *)
LEMMA ChangedKeepsOwners ==
  ASSUME NEW db, NEW new, FileOK(db), Changed(db, new),
         NEW n \in Names, db.alias[n] # None
  PROVE  new.alias[n] = db.alias[n]
<1>1. CASE Quiet(db, new)
  BY <1>1 DEF Quiet
<1>2. CASE NamesAdded(db, new)
  <2>1. PICK names : ~ AliasConflict(db, names)
                     /\ new = Committed(WithCompanies(db, names), "builder")
    BY <1>2 DEF NamesAdded
  <2>2. new.alias[n] = OwnerOf(db, names, n)
    BY <2>1, NamesAddedIsQuietForRows
  <2>3. CASE \E m \in names : m[1] = n
    <3>1. PICK m \in names : m[1] = n /\ OwnerOf(db, names, n) = m[2]
      BY <2>3 DEF OwnerOf
    <3>2. db.alias[n] \in {m[2], None}
      BY <2>1, <3>1 DEF AliasConflict
    <3> QED BY <2>2, <3>1, <3>2
  <2>4. CASE ~ \E m \in names : m[1] = n
    BY <2>2, <2>4 DEF OwnerOf
  <2> QED BY <2>3, <2>4
<1>3. CASE DocLoaded(db, new)
  BY <1>3, LoadedFields DEF DocLoaded
<1> QED BY <1>1, <1>2, <1>3 DEF Changed

-----------------------------------------------------------------------------
(***************************************************************************)
(* The other commits, of builder and server, are quiet.                    *)
(***************************************************************************)
SameData(db, new) ==
  DOMAIN new = DOMAIN db /\ new.alias = db.alias /\ new.rows = db.rows /\ new.docs = db.docs

LEMMA SameDataIsQuiet ==
  ASSUME NEW db, NEW new, FileOK(db), SameData(db, new)
  PROVE  Changed(db, new)
BY DEF FileOK, WellFormed, SameData, Changed, Quiet

LEMMA QuietCommits ==
  ASSUME NEW db, FileOK(db), NEW who, NEW found, NEW mode, NEW x
  PROVE  /\ SameData(db, db)
         /\ SameData(db, Committed(WithSchema(db), who))
         /\ SameData(db, Committed([db EXCEPT !.counted = x], who))
         /\ SameData(db, Committed([db EXCEPT !.sections = x], who))
         /\ SameData(db, Committed(Dropped(db), who))
         /\ SameData(db, Committed(Created(db), who))
         /\ SameData(db, [db EXCEPT !.fresh = x])
         /\ SameData(db, [db EXCEPT !.lock = x])
         /\ SameData(db, Committed(Released(Filled(db, found, mode), who), who))
         /\ SameData(db, Released(db, who))
<1> USE DEF FileOK, WellFormed, SameData, Committed
<1>1. SameData(db, db) /\ SameData(db, Committed(WithSchema(db), who))
  BY DEF WithSchema
<1>2. /\ SameData(db, Committed([db EXCEPT !.counted = x], who))
      /\ SameData(db, Committed([db EXCEPT !.sections = x], who))
  OBVIOUS
<1>3. SameData(db, Committed(Dropped(db), who)) /\ SameData(db, Committed(Created(db), who))
  BY DEF Dropped, Created
<1>4. SameData(db, [db EXCEPT !.fresh = x]) /\ SameData(db, [db EXCEPT !.lock = x])
  OBVIOUS
<1>5. SameData(db, Committed(Released(Filled(db, found, mode), who), who))
  BY DEF Released, Filled
<1>6. SameData(db, Released(db, who))
  BY DEF Released
<1> QED BY <1>1, <1>2, <1>3, <1>4, <1>5, <1>6

(* resolve_chains() changes pointers and effectiveness only. *)
LEMMA ResolvedIsQuiet ==
  ASSUME NEW db, FileOK(db), NEW new, new = Committed(Resolved(db), "builder")
  PROVE  Changed(db, new)
<1>1. WellFormed(db)
  BY DEF FileOK
<1>2. db.docs \in [Docs -> Document \cup {None}]
  BY <1>1 DEF WellFormed
<1> DEFINE docs == [d \in Docs |->
              IF db.docs[d] = None THEN None
              ELSE [db.docs[d] EXCEPT !.points = Points(db, d),
                                      !.effective = d \notin Superseded(db)]]
<1>3. /\ DOMAIN new = DOMAIN db /\ new.alias = db.alias /\ new.rows = db.rows
      /\ new.docs = docs
  BY <1>1 DEF WellFormed, Committed, Resolved
<1>4. ASSUME NEW d \in Docs
      PROVE  /\ docs[d] \in Document \cup {None}
             /\ db.docs[d] = None <=> docs[d] = None
             /\ db.docs[d] # None => docs[d].warnings = db.docs[d].warnings
  <2>1. CASE db.docs[d] = None
    BY <2>1
  <2>2. CASE db.docs[d] # None
    <3>1. db.docs[d] \in Document
      BY <1>2, <2>2
    <3>2. Points(db, d) \in Docs \cup {None}
      BY <3>1, StoreAssumption DEF Points, Document
    <3>3. docs[d] = [db.docs[d] EXCEPT !.points = Points(db, d),
                                       !.effective = d \notin Superseded(db)]
      BY <2>2
    <3>4. (d \notin Superseded(db)) \in BOOLEAN
      OBVIOUS
    <3> HIDE DEF docs
    <3>5. docs[d] \in Document /\ docs[d].warnings = db.docs[d].warnings
      BY <3>1, <3>2, <3>3, <3>4 DEF Document
    <3>6. docs[d] # None
      BY <3>5, StoreAssumption
    <3> QED BY <2>2, <3>5, <3>6
  <2> QED BY <2>1, <2>2
<1>5. docs \in [Docs -> Document \cup {None}]
  <2>1. DOMAIN docs = Docs /\ docs = [d \in Docs |-> docs[d]]
    OBVIOUS
  <2> HIDE DEF docs
  <2> QED BY <1>4, <2>1
<1> HIDE DEF docs
<1>6. Quiet(db, new)
  BY <1>3, <1>4, <1>5 DEF Quiet
<1> QED BY <1>6 DEF Changed
-----------------------------------------------------------------------------
(***************************************************************************)
(* Each step changes each file in one of the three ways.                   *)
(***************************************************************************)
DiskStep ==
  /\ DOMAIN disk' = Inodes
  /\ \A i \in Inodes : Changed(disk[i], disk'[i])

LEMMA OneFile ==
  ASSUME IInv, NEW k, NEW x, disk' = [disk EXCEPT ![k] = x],
         k \in Inodes => Changed(disk[k], x)
  PROVE  DiskStep
<1>1. \A i \in Inodes : Changed(disk[i], disk[i])
  BY QuietCommits, SameDataIsQuiet DEF IInv
<1> QED BY <1>1 DEF DiskStep, IInv

LEMMA NoFile ==
  ASSUME IInv, disk' = disk
  PROVE  DiskStep
<1>1. \A i \in Inodes : Changed(disk[i], disk[i])
  BY QuietCommits, SameDataIsQuiet DEF IInv
<1> QED BY <1>1 DEF DiskStep, IInv

(* The builder goes on, or is over, with the documents it had left. *)
LEMMA TodoKept ==
  ASSUME TodoOK, corpus' = corpus, NEW step, Goto(step) \/ builder' = Over(step)
  PROVE  TodoOK'
<1>1. CASE builder' = Over(step)
  BY <1>1 DEF TodoOK, Over
<1>2. CASE builder' = [builder EXCEPT !.pc = step]
  BY <1>2 DEF TodoOK
<1> QED BY <1>1, <1>2 DEF Goto

LEMMA LinesOfTodo ==
  ASSUME TodoOK, builder.todo # {}
  PROVE  Current \in Docs /\ corpus[Current] \in Files
<1>1. Manifest \in Seq(Docs)
  BY BuildAssumption
<1>2. \A i \in DOMAIN Manifest : i \in Nat /\ Manifest[i] \in Docs
  BY <1>1
<1>3. builder.todo \subseteq DOMAIN Manifest /\ builder.todo \in SUBSET Nat
  BY <1>2 DEF TodoOK
<1>4. \E i \in builder.todo : \A j \in builder.todo : i <= j
  BY <1>3, LeastExists
<1>5. FirstLine \in builder.todo
  BY <1>4 DEF FirstLine
<1> QED BY <1>2, <1>3, <1>5 DEF Current, TodoOK

LEMMA NextDocKeeps ==
  ASSUME TodoOK, corpus' = corpus, NEW loaded, NextDoc(loaded)
  PROVE  TodoOK'
BY DEF TodoOK, NextDoc

LEMMA StartTodo ==
  ASSUME TodoOK, NEW choice, Start(choice)
  PROVE  TodoOK'
<1>1. /\ corpus' \in Corpora /\ DOMAIN builder' = DOMAIN builder
      /\ builder'.todo = Selected(corpus', choice)
  BY DEF Start, TodoOK
<1>2. corpus' \in [Docs -> Files \cup {None}] /\ Manifest \in Seq(Docs)
  BY <1>1, BuildAssumption
<1>3. \A i \in DOMAIN Manifest : Manifest[i] \in Docs
  BY <1>2
<1>4. \A i \in Selected(corpus', choice) : i \in DOMAIN Manifest /\ corpus'[Manifest[i]] # None
  BY DEF Selected
<1> QED BY <1>1, <1>2, <1>3, <1>4 DEF TodoOK

LEMMA BuilderStep ==
  ASSUME IInv, BuildNext
  PROVE  DiskStep /\ TodoOK'
<1> DEFINE k == builder.inode
<1>1. k \in Inodes => FileOK(DB)
  BY DEF IInv, DB
<1>2. TodoOK
  BY DEF IInv
<1>3. CASE \E c \in Choices : Start(c)
  <2>1. disk' = disk
    BY <1>3 DEF Start, fileVars
  <2> QED BY <1>2, <1>3, <2>1, NoFile, StartTodo
<1>4. CASE Unlink \/ TablesAreThere \/ ConflictOfAliases \/ NothingSelected \/ SavePickle
  <2>1. /\ disk' = disk /\ corpus' = corpus
        /\ \E step : Goto(step) \/ builder' = Over(step)
    BY <1>4 DEF Unlink, TablesAreThere, ConflictOfAliases, NothingSelected, SavePickle, fileVars,
                corpusVars
  <2> QED BY <1>2, <2>1, NoFile, TodoKept
<1>5. CASE ParseFails \/ StoreFails
  <2>1. disk' = disk /\ corpus' = corpus /\ NextDoc(builder.loaded)
    BY <1>5 DEF ParseFails, StoreFails, fileVars, corpusVars
  <2> QED BY <1>2, <2>1, NoFile, NextDocKeeps
<1>6. CASE Connect
  <2>1. /\ disk' = disk /\ corpus' = corpus
        /\ builder' = [builder EXCEPT !.pc = "schema", !.inode = path']
    BY <1>6 DEF Connect, corpusVars
  <2>2. TodoOK'
    BY <1>2, <2>1 DEF TodoOK
  <2> QED BY <2>1, <2>2, NoFile
<1>7. CASE LoadAliases
  <2> DEFINE names == NamesOf(universe, Manual)
             new == Committed(WithCompanies(DB, names), "builder")
  <2>1. /\ ~ AliasConflict(DB, names) /\ disk' = [disk EXCEPT ![k] = new]
        /\ corpus' = corpus /\ Goto("load")
    BY <1>7 DEF LoadAliases, Commit, corpusVars
  <2>2. Changed(DB, new)
    BY <2>1 DEF Changed, NamesAdded
  <2> HIDE DEF new
  <2> QED BY <1>2, <2>1, <2>2, OneFile, TodoKept DEF DB
<1>8. CASE LoadDoc
  <2> DEFINE new == Committed(Stored(Cleared(DB, Current), Current, corpus[Current]), "builder")
  <2>1. /\ builder.todo # {} /\ disk' = [disk EXCEPT ![k] = new] /\ corpus' = corpus
        /\ NextDoc(builder.loaded \cup {Current})
    BY <1>8 DEF LoadDoc, corpusVars
  <2>2. Current \in Docs /\ corpus[Current] \in Files
    BY <1>2, <2>1, LinesOfTodo
  <2>3. Changed(DB, new)
    BY <2>2 DEF Changed, DocLoaded
  <2> HIDE DEF new
  <2> QED BY <1>2, <2>1, <2>3, OneFile, NextDocKeeps DEF DB
<1>9. CASE ResolveChains
  <2>1. /\ disk' = [disk EXCEPT ![k] = Committed(Resolved(DB), "builder")]
        /\ corpus' = corpus /\ Goto("meta")
    BY <1>9 DEF ResolveChains, Commit, corpusVars
  <2>2. k \in Inodes => Changed(DB, Committed(Resolved(DB), "builder"))
    BY <1>1, ResolvedIsQuiet
  <2> QED BY <1>2, <2>1, <2>2, OneFile, TodoKept DEF DB
<1>10. ASSUME NEW new, NEW step, Commit(new, step),
              k \in Inodes => SameData(DB, Committed(new, "builder"))
       PROVE  DiskStep /\ TodoOK'
  <2>1. /\ disk' = [disk EXCEPT ![k] = Committed(new, "builder")]
        /\ corpus' = corpus /\ Goto(step)
    BY <1>10 DEF Commit, corpusVars
  <2>2. k \in Inodes => Changed(DB, Committed(new, "builder"))
    BY <1>1, <1>10, SameDataIsQuiet
  <2> QED BY <1>2, <2>1, <2>2, OneFile, TodoKept DEF DB
<1>20. CASE CreateTables
  BY <1>1, <1>10, <1>20, QuietCommits DEF CreateTables
<1>11. CASE WriteMeta
  BY <1>1, <1>10, <1>11, QuietCommits DEF WriteMeta
<1>12. CASE Drop
  BY <1>1, <1>10, <1>12, QuietCommits DEF Drop
<1>13. CASE Create
  BY <1>1, <1>10, <1>13, QuietCommits DEF Create
<1>14. CASE CommitIndex
  BY <1>1, <1>10, <1>14, QuietCommits DEF CommitIndex
<1>15. CASE CountSections
  BY <1>1, <1>10, <1>15, QuietCommits DEF CountSections
<1>16. ASSUME NEW new, NEW step, disk' = [disk EXCEPT ![k] = new] \/ disk' = disk,
              corpus' = corpus, Goto(step) \/ builder' = Over(step),
              k \in Inodes => SameData(DB, new)
       PROVE  DiskStep /\ TodoOK'
  <2>1. k \in Inodes => Changed(DB, new)
    BY <1>1, <1>16, SameDataIsQuiet
  <2> QED BY <1>2, <1>16, <2>1, OneFile, NoFile, TodoKept DEF DB
<1>17. CASE Scan
  <2> DEFINE new == [DB EXCEPT !.fresh = DB.fresh \cup {"builder"}]
             found == Indexable(DB)
  <2>1. /\ disk' = [disk EXCEPT ![k] = new] /\ corpus' = corpus
        /\ builder' = [builder EXCEPT !.pc = "insert", !.found = found]
    BY <1>17 DEF Scan, corpusVars, DB
  <2>2. k \in Inodes => Changed(DB, new)
    BY <1>1, QuietCommits, SameDataIsQuiet
  <2> HIDE DEF new, found
  <2>3. TodoOK'
    BY <1>2, <2>1 DEF TodoOK
  <2> QED BY <2>1, <2>2, <2>3, OneFile DEF DB
<1>18. CASE Insert
  <2>1. /\ disk' = [disk EXCEPT ![k] = [DB EXCEPT !.lock = "builder"]]
        /\ corpus' = corpus /\ Goto("commit")
    BY <1>18 DEF Insert, corpusVars, DB
  <2> QED BY <1>1, <1>16, <2>1, QuietCommits
<1>19. CASE Fails \/ Kill
  <2>1. /\ disk' = [disk EXCEPT ![k] = Released(DB, "builder")] \/ disk' = disk
        /\ corpus' = corpus /\ builder' = Over("dead")
    BY <1>19 DEF Fails, Kill, corpusVars, DB
  <2> QED BY <1>1, <1>16, <2>1, QuietCommits
<1> QED BY <1>3, <1>4, <1>5, <1>6, <1>7, <1>8, <1>9, <1>11, <1>12, <1>13, <1>14, <1>15,
           <1>17, <1>18, <1>19, <1>20 DEF BuildNext, BuildStep

LEMMA ServerSteps ==
  ASSUME IInv, ServerNext
  PROVE  DiskStep /\ TodoOK'
<1> DEFINE k == server.rw
<1>1. k \in Inodes => FileOK(Rw)
  BY DEF IInv, Rw
<1>2. TodoOK'
  <2>1. corpus' = corpus /\ builder' = builder
    BY DEF ServerNext, ServerStep, StartServer, Open, CheckIndex, Count, Legacy, CountStored,
           OpenToWrite, DropOwn, CreateOwn, ScanOwn, InsertOwn, CommitOwn, OwnBuildFails, Stop,
           ServerCommit, buildVars, corpusVars
  <2> QED BY <2>1 DEF IInv, TodoOK
<1>3. CASE disk' = disk
  BY <1>2, <1>3, NoFile
<1>4. ASSUME NEW new, disk' = [disk EXCEPT ![k] = new], k \in Inodes => SameData(Rw, new)
      PROVE  DiskStep
  <2>1. k \in Inodes => Changed(Rw, new)
    BY <1>1, <1>4, SameDataIsQuiet
  <2> QED BY <1>4, <2>1, OneFile DEF Rw
<1>5. CASE DropOwn
  BY <1>1, <1>2, <1>4, <1>5, QuietCommits DEF DropOwn, ServerCommit
<1>6. CASE CreateOwn
  BY <1>1, <1>2, <1>4, <1>6, QuietCommits DEF CreateOwn, ServerCommit
<1>7. CASE CommitOwn
  BY <1>1, <1>2, <1>4, <1>7, QuietCommits DEF CommitOwn
<1>8. CASE ScanOwn
  <2>1. disk' = [disk EXCEPT ![k] = [Rw EXCEPT !.fresh = Rw.fresh \cup {"server"}]]
    BY <1>8 DEF ScanOwn, Rw
  <2> QED BY <1>1, <1>2, <1>4, <2>1, QuietCommits
<1>9. CASE InsertOwn
  <2>1. disk' = [disk EXCEPT ![k] = [Rw EXCEPT !.lock = "server"]]
    BY <1>9 DEF InsertOwn, Rw
  <2> QED BY <1>1, <1>2, <1>4, <2>1, QuietCommits
<1>10. CASE OwnBuildFails \/ Stop
  <2>1. disk' = [disk EXCEPT ![k] = Released(Rw, "server")] \/ disk' = disk
    BY <1>10 DEF OwnBuildFails, Stop, Rw
  <2> QED BY <1>1, <1>2, <1>3, <1>4, <2>1, QuietCommits
<1>11. CASE Open \/ CheckIndex \/ Count \/ Legacy \/ CountStored \/ OpenToWrite
            \/ \E m \in ServerModes : StartServer(m)
  BY <1>2, <1>3, <1>11 DEF StartServer, Open, CheckIndex, Count, Legacy, CountStored, OpenToWrite,
                           buildVars, fileVars
<1> QED BY <1>5, <1>6, <1>7, <1>8, <1>9, <1>10, <1>11 DEF ServerNext, ServerStep

LEMMA NextStep ==
  ASSUME IInv, [Next]_vars
  PROVE  DiskStep /\ TodoOK'
<1>1. CASE Beside(BuildNext)
  BY <1>1, BuilderStep DEF Beside
<1>2. CASE ServerNext
  BY <1>2, ServerSteps
<1>3. CASE UNCHANGED vars
  <2>1. disk' = disk /\ corpus' = corpus /\ builder' = builder
    BY <1>3 DEF vars, buildVars, fileVars, corpusVars
  <2> QED BY <2>1, NoFile DEF IInv, TodoOK
<1> QED BY <1>1, <1>2, <1>3 DEF Next

LEMMA InitFiles ==
  ASSUME Init
  PROVE  IInv
<1> USE DEF Init, BuildInit
<1>1. DOMAIN disk = Inodes /\ \A i \in Inodes : disk[i] = EmptyFile
  OBVIOUS
<1>2. WellFormed(EmptyFile)
  <2>1. [d \in Docs |-> None] \in [Docs -> Document \cup {None}]
    OBVIOUS
  <2> QED BY <2>1 DEF WellFormed, EmptyFile
<1>3. EmptyFile.rows = {} /\ \A d \in Docs : EmptyFile.docs[d] = None
  BY DEF EmptyFile
<1>4. \A d \in Docs : DocumentIsWhole(EmptyFile, d)
  BY <1>3 DEF DocumentIsWhole, Unnumbered
<1>5. RowidsUnique(EmptyFile) /\ RowidsBounded(EmptyFile)
  BY <1>3 DEF RowidsUnique, RowidsBounded, Sections
<1>6. TodoOK
  BY DEF TodoOK
<1> HIDE DEF Init, BuildInit
<1> QED BY <1>1, <1>2, <1>4, <1>5, <1>6 DEF IInv, FileOK

(***************************************************************************)
(* IInv is inductive.                                                      *)
(***************************************************************************)
THEOREM FilesInOrder == Spec => []IInv
<1>1. Init => IInv
  BY InitFiles
<1>2. IInv /\ [Next]_vars => IInv'
  <2> SUFFICES ASSUME IInv, [Next]_vars
               PROVE  IInv'
    OBVIOUS
  <2>1. DiskStep /\ TodoOK'
    BY NextStep
  <2>2. \A i \in Inodes : FileOK(disk'[i])
    BY <2>1, ChangedKeeps DEF DiskStep, IInv
  <2> QED BY <2>1, <2>2 DEF DiskStep, IInv
<1> QED BY <1>1, <1>2, PTL DEF Spec

(***************************************************************************)
(* For every corpus, parser and order of commits, kills and failures, a    *)
(* document's rows are those of the one file loaded last.                  *)
(***************************************************************************)
THEOREM DocumentsAreWhole == Spec => []DocumentWhole
<1>1. IInv => DocumentWhole
  BY DEF IInv, FileOK, DocumentWhole
<1> QED BY <1>1, FilesInOrder, PTL

(***************************************************************************)
(* For every sequence of universes, a name in a file keeps its company.    *)
(***************************************************************************)
THEOREM NamesKeepTheirOwners == Spec => NamesKeepOwners
<1> DEFINE Kept == \A i \in Inodes, n \in Names :
                     disk[i].alias[n] # None => disk'[i].alias[n] = disk[i].alias[n]
<1>1. IInv /\ [Next]_vars => [Kept]_vars
  <2> SUFFICES ASSUME IInv, [Next]_vars
               PROVE  Kept
    OBVIOUS
  <2>1. \A i \in Inodes : FileOK(disk[i]) /\ Changed(disk[i], disk'[i])
    BY NextStep DEF DiskStep, IInv
  <2> QED BY <2>1, ChangedKeepsOwners
<1> QED BY <1>1, FilesInOrder, PTL DEF Spec, NamesKeepOwners
=============================================================================
