------------------------- MODULE CorrectionsProofs -------------------------
(***************************************************************************)
(* The correction chains of any corpus, for every window and similarity:   *)
(* pointers stay within the database, after a resolution they do not       *)
(* depend on the parts in which the corpus was loaded, whatever is not     *)
(* counted is superseded by a document that is, and a chain is found whole *)
(* from each of its documents.                                             *)
(***************************************************************************)
EXTENDS Corrections, SequenceTheorems, WellFoundedInduction, TLAPS

Row == [group : {"exchange", "holding"}, rcept : Nat, corr : BOOLEAN, target : Nat,
        report : Nat, prev : Nat, points : Docs \cup {NoDoc}, eff : BOOLEAN]

Typed(db) == DOMAIN db \subseteq Docs /\ \A d \in DOMAIN db : db[d] \in Row

\* There is something that d can be made to supersede.
Findable(db, d) ==
  IF db[d].group # "holding" THEN db[d].target # 0 /\ Tries(db, d) # {}
  ELSE db[d].prev # 0 /\ PrevReports(db, d) # {}

\* What was found once is found again: the reason for which a pointer that
\* resolve_chains() leaves alone is never out of date.
FoundAgain == \A d \in DOMAIN rows : rows[d].points # NoDoc => Findable(rows, d)

IInv == Typed(rows) /\ TypeOK /\ FoundAgain /\ HistoryFree

\* nb has the documents of db, with what was parsed, and perhaps others.
Extended(db, nb) ==
  /\ DOMAIN db \subseteq DOMAIN nb
  /\ \A d \in DOMAIN db :
       /\ nb[d].group = db[d].group /\ nb[d].rcept = db[d].rcept
       /\ nb[d].corr = db[d].corr /\ nb[d].target = db[d].target
       /\ nb[d].report = db[d].report /\ nb[d].prev = db[d].prev
-----------------------------------------------------------------------------
(* A set of natural numbers has a least element. *)
LEMMA MinExists ==
  ASSUME NEW S, S \subseteq Nat, S # {}
  PROVE  Min(S) \in S /\ \A y \in S : Min(S) =< y
<1>1. IsWellFoundedOn(OpToRel(<, Nat), Nat)
  BY NatLessThanWellFounded
<1>2. PICK x \in S : \A y \in S : ~ (<<y, x>> \in OpToRel(<, Nat))
  BY <1>1, WFMin
<1>3. \A y \in S : x =< y
  <2> SUFFICES ASSUME NEW y \in S PROVE x =< y
    OBVIOUS
  <2>1. x \in Nat /\ y \in Nat
    OBVIOUS
  <2>2. ~ (<<y, x>> \in OpToRel(<, Nat))
    BY <1>2
  <2>3. <<y, x>> \in Nat \X Nat /\ <<y, x>>[1] = y /\ <<y, x>>[2] = x
    BY <2>1
  <2>4. y < x => <<y, x>> \in {ss \in Nat \X Nat : ss[1] < ss[2]}
    BY <2>3
  <2>5. ~ (y < x)
    BY <2>2, <2>4 DEF OpToRel
  <2> QED BY <2>1, <2>5
<1>4. \E z \in S : \A y \in S : z =< y
  BY <1>3
<1> QED BY <1>4 DEF Min

(* Of some documents, one is the most similar. *)
LEMMA MostSimilarExists ==
  ASSUME NEW c \in Docs, NEW S, S \subseteq Docs, S # {}
  PROVE  MostSimilar(c, S) # {} /\ MostSimilar(c, S) \subseteq S
<1> DEFINE T == {100 - Ratio[c][d] : d \in S}
<1>1. \A d \in S : Ratio[c][d] \in 0..100
  BY CorrectionsAssumption
<1>2. T \subseteq Nat /\ T # {}
  BY <1>1
<1>3. Min(T) \in T /\ \A y \in T : Min(T) =< y
  <2> HIDE DEF T
  <2> QED BY <1>2, MinExists
<1>4. PICK d \in S : Min(T) = 100 - Ratio[c][d]
  BY <1>3
<1>5. \A e \in S : 100 - Ratio[c][d] =< 100 - Ratio[c][e]
  BY <1>3, <1>4
<1>6. \A e \in S : Ratio[c][d] >= Ratio[c][e]
  <2> SUFFICES ASSUME NEW e \in S PROVE Ratio[c][d] >= Ratio[c][e]
    OBVIOUS
  <2>1. Ratio[c][d] \in 0..100 /\ Ratio[c][e] \in 0..100
    BY <1>1
  <2>2. 100 - Ratio[c][d] =< 100 - Ratio[c][e]
    BY <1>5
  <2>3. \A a, b \in 0..100 : 100 - a =< 100 - b => a >= b
    OBVIOUS
  <2> QED BY <2>1, <2>2, <2>3, Zenon
<1> QED BY <1>6 DEF MostSimilar

(* What can be found is found, and is another document of the database. *)
LEMMA FoundIff ==
  ASSUME NEW db, Typed(db), NEW d \in DOMAIN db
  PROVE  /\ Findable(db, d) <=> Found(db, d) # {}
         /\ Found(db, d) \subseteq DOMAIN db \ {d}
<1>1. CASE db[d].group = "holding"
  BY <1>1 DEF Findable, Found, PrevReports
<1>2. CASE db[d].group # "holding" /\ (db[d].target = 0 \/ Tries(db, d) = {})
  BY <1>2 DEF Findable, Found, Originals
<1>3. CASE db[d].group # "holding" /\ db[d].target # 0 /\ Tries(db, d) # {}
  <2> DEFINE day == DateTried(db[d].target, Min(Tries(db, d)))
  <2>1. Tries(db, d) \subseteq Nat
    BY CorrectionsAssumption DEF Tries
  <2>2. Min(Tries(db, d)) \in Tries(db, d)
    BY <1>3, <2>1, MinExists
  <2>3. Candidates(db, d, day) # {}
    BY <2>2 DEF Tries
  <2>4. Candidates(db, d, day) \subseteq DOMAIN db \ {d}
    BY DEF Candidates
  <2>5. d \in Docs /\ Candidates(db, d, day) \subseteq Docs
    BY <2>4 DEF Typed
  <2>6. Found(db, d) = MostSimilar(d, Candidates(db, d, day))
    BY <1>3 DEF Found, Originals
  <2> HIDE DEF day
  <2>7. Found(db, d) # {} /\ Found(db, d) \subseteq Candidates(db, d, day)
    BY <2>3, <2>5, <2>6, MostSimilarExists
  <2> QED BY <1>3, <2>4, <2>7 DEF Findable
<1> QED BY <1>1, <1>2, <1>3

(***************************************************************************)
(* More documents don't hide what was found.                               *)
(***************************************************************************)
LEMMA FindableStays ==
  ASSUME NEW db, NEW nb, Extended(db, nb), NEW d \in DOMAIN db, Findable(db, d)
  PROVE  Findable(nb, d)
<1>1. CASE db[d].group = "holding"
  <2>1. PrevReports(db, d) \subseteq PrevReports(nb, d)
    BY DEF PrevReports, Extended
  <2> QED BY <1>1, <2>1 DEF Findable, Extended
<1>2. CASE db[d].group # "holding"
  <2>1. \A t : Candidates(db, d, t) \subseteq Candidates(nb, d, t)
    BY DEF Candidates, Extended
  <2>2. nb[d].target = db[d].target /\ nb[d].group = db[d].group
    BY DEF Extended
  <2>3. Tries(db, d) \subseteq Tries(nb, d)
    BY <2>1, <2>2 DEF Tries
  <2> QED BY <1>2, <2>2, <2>3 DEF Findable
<1> QED BY <1>1, <1>2

(* What is found depends on what was parsed alone. *)
LEMMA FoundSame ==
  ASSUME NEW db, NEW nb, Extended(db, nb), DOMAIN nb = DOMAIN db, NEW d \in DOMAIN db
  PROVE  Found(nb, d) = Found(db, d)
<1>1. PrevReports(nb, d) = PrevReports(db, d)
  BY DEF PrevReports, Extended
<1>2. \A t : Candidates(nb, d, t) = Candidates(db, d, t)
  BY DEF Candidates, Extended
<1>3. nb[d].target = db[d].target /\ nb[d].group = db[d].group /\ nb[d].prev = db[d].prev
  BY DEF Extended
<1>4. Tries(nb, d) = Tries(db, d)
  BY <1>2, <1>3 DEF Tries
<1>5. Originals(nb, d) = Originals(db, d)
  BY <1>2, <1>3, <1>4 DEF Originals
<1> QED BY <1>1, <1>3, <1>5 DEF Found
-----------------------------------------------------------------------------
(* The empty database satisfies the invariant. *)
LEMMA InitInv == Init => IInv
BY DEF Init, IInv, Typed, TypeOK, FoundAgain, HistoryFree

(* store() of a document that was not in the database keeps the invariant. *)
LEMMA LoadInv ==
  ASSUME IInv, NEW d \in Docs, Load(d)
  PROVE  IInv'
<1>1. PICK c \in Contents :
        rows' = [e \in DOMAIN rows \cup {d} |->
                  IF e # d THEN rows[e]
                  ELSE [group |-> c.group, rcept |-> c.rcept, corr |-> c.corr,
                        target |-> c.target, report |-> c.report, prev |-> c.prev,
                        points |-> NoDoc, eff |-> TRUE]]
  BY DEF Load
<1>2. d \notin DOMAIN rows /\ resolved' = FALSE
  BY DEF Load
<1>3. /\ DOMAIN rows' = DOMAIN rows \cup {d}
      /\ \A e \in DOMAIN rows : rows'[e] = rows[e]
      /\ rows'[d].points = NoDoc /\ rows'[d].eff = TRUE
  BY <1>1, <1>2
<1>4. rows'[d] \in Row
  BY <1>1, CorrectionsAssumption DEF Row
<1>5. Typed(rows')
  BY <1>3, <1>4 DEF IInv, Typed
<1>6. TypeOK'
  <2> SUFFICES ASSUME NEW e \in DOMAIN rows'
               PROVE  /\ rows'[e].points \in (DOMAIN rows' \cup {NoDoc}) \ {e}
                      /\ rows'[e].eff \in BOOLEAN
    BY <1>2, <1>3 DEF IInv, TypeOK
  <2>1. CASE e = d
    BY <1>3, <2>1, CorrectionsAssumption
  <2>2. CASE e \in DOMAIN rows
    BY <1>3, <2>2 DEF IInv, TypeOK
  <2> QED BY <1>3, <2>1, <2>2
<1>7. Extended(rows, rows')
  BY <1>3 DEF Extended
<1>8. FoundAgain'
  <2> SUFFICES ASSUME NEW e \in DOMAIN rows', rows'[e].points # NoDoc
               PROVE  Findable(rows', e)
    BY DEF FoundAgain, Findable, Tries, PrevReports, Candidates
  <2>1. e \in DOMAIN rows /\ rows[e].points # NoDoc
    BY <1>3
  <2>2. Findable(rows, e)
    BY <2>1 DEF IInv, FoundAgain
  <2> QED BY <1>7, <2>1, <2>2, FindableStays
<1>9. HistoryFree'
  BY <1>2 DEF HistoryFree
<1>10. Typed(rows)'
  BY <1>5 DEF Typed
<1> QED BY <1>6, <1>8, <1>9, <1>10 DEF IInv

(***************************************************************************)
(* resolve_chains() sets the pointers it finds and keeps the others, which *)
(* are null: what was found once would have been found again.              *)
(***************************************************************************)
LEMMA ResolveInv == IInv /\ Resolve => IInv'
<1> SUFFICES ASSUME IInv, Resolve PROVE IInv'
  OBVIOUS
<1>1. PICK links \in [DOMAIN rows -> Docs \cup {NoDoc}] :
        /\ \A d \in DOMAIN rows : links[d] \in Pointers(rows, d)
        /\ rows' = [d \in DOMAIN rows |->
                      [rows[d] EXCEPT !.points = links[d],
                                      !.eff = d \notin Superseded(rows, links)]]
        /\ resolved' = TRUE
  BY DEF Resolve
<1>2. Typed(rows) /\ TypeOK /\ FoundAgain
  BY DEF IInv
<1>3. DOMAIN rows' = DOMAIN rows
  BY <1>1
<1>4. ASSUME NEW d \in DOMAIN rows
      PROVE  /\ rows'[d] \in Row /\ rows'[d].points = links[d]
             /\ rows'[d].group = rows[d].group /\ rows'[d].rcept = rows[d].rcept
             /\ rows'[d].corr = rows[d].corr /\ rows'[d].target = rows[d].target
             /\ rows'[d].report = rows[d].report /\ rows'[d].prev = rows[d].prev
             /\ rows'[d].eff \in BOOLEAN
  <2>1. rows[d] \in Row
    BY <1>2 DEF Typed
  <2>2. rows'[d] = [rows[d] EXCEPT !.points = links[d],
                                   !.eff = d \notin Superseded(rows, links)]
    BY <1>1
  <2>3. links[d] \in Docs \cup {NoDoc} /\ (d \notin Superseded(rows, links)) \in BOOLEAN
    BY <1>1
  <2> QED BY <2>1, <2>2, <2>3 DEF Row
<1>5. Extended(rows, rows')
  BY <1>3, <1>4 DEF Extended
<1>6. Typed(rows')
  BY <1>2, <1>3, <1>4 DEF Typed
<1>7. ASSUME NEW d \in DOMAIN rows
      PROVE  /\ Found(rows', d) = Found(rows, d)
             /\ Found(rows, d) = {} => links[d] = NoDoc
             /\ Found(rows, d) # {} => links[d] \in Found(rows, d)
             /\ Found(rows, d) \subseteq DOMAIN rows \ {d}
             /\ Findable(rows', d) <=> Found(rows, d) # {}
  <2>1. Found(rows', d) = Found(rows, d)
    BY <1>3, <1>5, FoundSame
  <2>2. Findable(rows, d) <=> Found(rows, d) # {}
    BY <1>2, FoundIff
  <2>3. Found(rows, d) \subseteq DOMAIN rows \ {d}
    BY <1>2, FoundIff
  <2>4. Findable(rows', d) <=> Found(rows', d) # {}
    BY <1>3, <1>6, FoundIff
  <2>5. Found(rows, d) = {} => links[d] = rows[d].points
    BY <1>1 DEF Pointers
  <2>6. Found(rows, d) = {} => rows[d].points = NoDoc
    BY <1>2, <2>2 DEF FoundAgain
  <2>7. Found(rows, d) # {} => links[d] \in Found(rows, d)
    BY <1>1 DEF Pointers
  <2> QED BY <2>1, <2>3, <2>4, <2>5, <2>6, <2>7
<1>8. NoDoc \notin Docs
  BY CorrectionsAssumption
<1>9. TypeOK'
  <2> SUFFICES ASSUME NEW d \in DOMAIN rows
               PROVE  /\ rows'[d].points \in (DOMAIN rows \cup {NoDoc}) \ {d}
                      /\ rows'[d].eff \in BOOLEAN
    BY <1>1, <1>2, <1>3 DEF TypeOK
  <2>1. d # NoDoc
    BY <1>2, <1>8 DEF TypeOK
  <2>2. links[d] \in (DOMAIN rows \cup {NoDoc}) \ {d}
    BY <1>7, <2>1
  <2> QED BY <1>4, <2>2
<1>10. FoundAgain'
  <2> SUFFICES ASSUME NEW d \in DOMAIN rows', rows'[d].points # NoDoc
               PROVE  Findable(rows', d)
    BY DEF FoundAgain, Findable, Tries, PrevReports, Candidates
  <2> QED BY <1>3, <1>4, <1>7
<1>11. HistoryFree'
  <2> SUFFICES ASSUME NEW d \in DOMAIN rows'
               PROVE  IF Found(rows', d) = {} THEN rows'[d].points = NoDoc
                      ELSE rows'[d].points \in Found(rows', d)
    BY DEF HistoryFree, Found, Originals, Tries, PrevReports, Candidates
  <2> QED BY <1>3, <1>4, <1>7
<1>12. Typed(rows)'
  BY <1>6 DEF Typed
<1> QED BY <1>9, <1>10, <1>11, <1>12 DEF IInv

(* The invariant behind the theorems holds. *)
THEOREM InvariantHolds == Spec => []IInv
<1>1. IInv /\ [Next]_vars => IInv'
  <2> SUFFICES ASSUME IInv, [Next]_vars PROVE IInv'
    OBVIOUS
  <2>1. CASE Resolve
    BY <2>1, ResolveInv
  <2>2. ASSUME NEW d \in Docs, Load(d) PROVE IInv'
    BY <2>2, LoadInv
  <2>3. CASE UNCHANGED vars
    <3>1. rows' = rows /\ resolved' = resolved
      BY <2>3 DEF vars
    <3>2. Typed(rows)' /\ TypeOK'
      BY <3>1 DEF IInv, Typed, TypeOK
    <3>3. FoundAgain'
      BY <3>1 DEF IInv, FoundAgain, Findable, Tries, PrevReports, Candidates
    <3>4. HistoryFree'
      <4> SUFFICES ASSUME NEW d \in DOMAIN rows', resolved'
                   PROVE  IF Found(rows', d) = {} THEN rows'[d].points = NoDoc
                          ELSE rows'[d].points \in Found(rows', d)
        BY DEF HistoryFree, Found, Originals, Tries, PrevReports, Candidates
      <4>1. Found(rows', d) = Found(rows, d)
        BY <3>1, FoundSame DEF Extended
      <4> QED BY <3>1, <4>1 DEF IInv, HistoryFree
    <3> QED BY <3>2, <3>3, <3>4 DEF IInv
  <2> QED BY <2>1, <2>2, <2>3 DEF Next
<1> QED BY InitInv, <1>1, PTL DEF Spec

(***************************************************************************)
(* Type correctness: a pointer names another document of the database, so  *)
(* no document supersedes itself and no walk of chain_of() leaves it.      *)
(***************************************************************************)
THEOREM TypeCorrect == Spec => []TypeOK
<1>1. IInv => TypeOK
  BY DEF IInv
<1> QED BY <1>1, InvariantHolds, PTL

(***************************************************************************)
(* AC-S4: the pointers of a resolved database are such as a resolution of  *)
(* the same documents from nothing sets, although resolve_chains() never   *)
(* resets one: more documents never make it miss what it found before.     *)
(***************************************************************************)
THEOREM PointersNeedNoHistory == Spec => []HistoryFree
<1>1. IInv => HistoryFree
  BY DEF IInv
<1> QED BY <1>1, InvariantHolds, PTL
-----------------------------------------------------------------------------
(***************************************************************************)
(* Nothing is lost.  Among the documents that supersede one, the latest is *)
(* pointed to by none: what pointed to it would be later still.            *)
(***************************************************************************)
EffOK ==
  resolved =>
    \A d \in DOMAIN rows : rows[d].eff <=> ~ \E c \in DOMAIN rows : rows[c].points = d

\* The database has a latest day.
DaysBounded == \E n \in Nat : \A d \in DOMAIN rows : DayOf(rows, d) <= n

LEMMA DaysAreNumbers ==
  ASSUME NEW db, Typed(db)
  PROVE  \A d \in DOMAIN db : DayOf(db, d) \in Nat
BY DEF Typed, Row, DayOf

LEMMA CountedStays ==
  ASSUME IInv, EffOK, DaysBounded, [Next]_vars
  PROVE  EffOK' /\ DaysBounded'
<1>1. CASE Resolve
  <2>1. PICK links \in [DOMAIN rows -> Docs \cup {NoDoc}] :
          rows' = [d \in DOMAIN rows |->
                     [rows[d] EXCEPT !.points = links[d],
                                     !.eff = d \notin Superseded(rows, links)]]
    BY <1>1 DEF Resolve
  <2>2. DOMAIN rows' = DOMAIN rows
    BY <2>1
  <2>3. ASSUME NEW d \in DOMAIN rows
        PROVE  /\ rows'[d].points = links[d]
               /\ rows'[d].eff = (d \notin Superseded(rows, links))
               /\ rows'[d].group = rows[d].group /\ rows'[d].report = rows[d].report
               /\ rows'[d].rcept = rows[d].rcept
    <3>1. rows[d] \in Row
      BY DEF IInv, Typed
    <3>2. rows'[d] = [rows[d] EXCEPT !.points = links[d],
                                     !.eff = d \notin Superseded(rows, links)]
      BY <2>1
    <3> QED BY <3>1, <3>2 DEF Row
  <2>4. \A d \in DOMAIN rows : d \in Superseded(rows, links) <=>
                                 \E c \in DOMAIN rows : links[c] = d
    BY CorrectionsAssumption DEF Superseded, IInv, Typed
  <2>5. EffOK'
    <3> SUFFICES ASSUME NEW d \in DOMAIN rows
                 PROVE  rows'[d].eff <=> ~ \E c \in DOMAIN rows : rows'[c].points = d
      BY <2>2 DEF EffOK
    <3>1. rows'[d].eff <=> d \notin Superseded(rows, links)
      BY <2>3
    <3>2. (\E c \in DOMAIN rows : links[c] = d) <=> \E c \in DOMAIN rows : rows'[c].points = d
      BY <2>3
    <3> QED BY <2>4, <3>1, <3>2
  <2>6. \A d \in DOMAIN rows : DayOf(rows', d) = DayOf(rows, d)
    BY <2>3 DEF DayOf
  <2> QED BY <2>2, <2>5, <2>6 DEF DaysBounded, DayOf
<1>2. ASSUME NEW d \in Docs, Load(d)
      PROVE  EffOK' /\ DaysBounded'
  <2>1. /\ DOMAIN rows' = DOMAIN rows \cup {d} /\ resolved' = FALSE
        /\ \A e \in DOMAIN rows : rows'[e] = rows[e]
    BY <1>2 DEF Load
  <2>2. Typed(rows) /\ Typed(rows')
    <3>1. Typed(rows)'
      BY <1>2, LoadInv DEF IInv
    <3> QED BY <3>1 DEF IInv, Typed
  <2>3. DayOf(rows', d) \in Nat /\ \A e \in DOMAIN rows : DayOf(rows, e) \in Nat
    BY <2>1, <2>2, DaysAreNumbers
  <2>4. PICK n \in Nat : \A e \in DOMAIN rows : DayOf(rows, e) <= n
    BY DEF DaysBounded
  <2>5. \A e \in DOMAIN rows : DayOf(rows', e) = DayOf(rows, e)
    BY <2>1 DEF DayOf
  <2> DEFINE m == n + DayOf(rows', d)
  <2>6. m \in Nat /\ DayOf(rows', d) <= m /\ \A i \in Nat : i <= n => i <= m
    BY <2>3
  <2> HIDE DEF m
  <2>7. \A e \in DOMAIN rows' : DayOf(rows', e) <= m
    BY <2>1, <2>3, <2>4, <2>5, <2>6
  <2>8. DaysBounded'
    BY <2>6, <2>7 DEF DaysBounded, DayOf
  <2> QED BY <2>1, <2>8 DEF EffOK
<1>3. CASE UNCHANGED vars
  BY <1>3 DEF vars, EffOK, DaysBounded, DayOf
<1> QED BY <1>1, <1>2, <1>3 DEF Next

LEMMA SupersedesAtOnce ==
  ASSUME NEW db, NEW c \in DOMAIN db, NEW e \in DOMAIN db, e # NoDoc, db[c].points = e
  PROVE  Supersedes(db, c, e)
BY DEF Supersedes

LEMMA SupersedesFurther ==
  ASSUME NEW db, NEW c \in DOMAIN db, NEW d \in DOMAIN db, NEW e, d # NoDoc, db[c].points = d,
         Supersedes(db, d, e)
  PROVE  Supersedes(db, c, e)
BY DEF Supersedes, Closed

(***************************************************************************)
(* Of finitely many days there is a latest.                                *)
(***************************************************************************)
LEMMA LatestExists ==
  ASSUME NEW db, Typed(db), NEW n \in Nat, \A d \in DOMAIN db : DayOf(db, d) <= n,
         NEW P \in SUBSET DOMAIN db, P # {}
  PROVE  \E d \in P : \A c \in P : DayOf(db, c) <= DayOf(db, d)
<1> DEFINE T == {n - DayOf(db, d) : d \in P}
<1>1. \A d \in P : DayOf(db, d) \in Nat /\ DayOf(db, d) <= n
  BY DaysAreNumbers
<1>2. T \subseteq Nat /\ T # {}
  BY <1>1
<1>3. Min(T) \in T /\ \A y \in T : Min(T) =< y
  <2> HIDE DEF T
  <2> QED BY <1>2, MinExists
<1>4. PICK d \in P : Min(T) = n - DayOf(db, d)
  BY <1>3
<1>5. \A c \in P : n - DayOf(db, d) <= n - DayOf(db, c)
  BY <1>3, <1>4
<1>6. ASSUME NEW c \in P
      PROVE  DayOf(db, c) <= DayOf(db, d)
  BY <1>1, <1>5
<1> QED BY <1>6

(***************************************************************************)
(* AC-C3 for any corpus: a document that does not count is superseded,     *)
(* over any number of corrections, by one that counts.                     *)
(***************************************************************************)
THEOREM NoDocumentIsLost == Spec => []NothingLost
<1>1. Init => EffOK /\ DaysBounded
  <2> SUFFICES ASSUME Init PROVE EffOK /\ DaysBounded
    OBVIOUS
  <2>1. DOMAIN rows = {} /\ 0 \in Nat
    BY DEF Init
  <2> QED BY <2>1 DEF EffOK, DaysBounded
<1>2. IInv /\ EffOK /\ DaysBounded /\ [Next]_vars => EffOK' /\ DaysBounded'
  BY CountedStays
<1>3. IInv /\ EffOK /\ DaysBounded => NothingLost
  <2> SUFFICES ASSUME IInv, EffOK, DaysBounded, resolved, Chronological(rows),
                      NEW e \in DOMAIN rows, ~ rows[e].eff
               PROVE  \E d \in DOMAIN rows : rows[d].eff /\ Supersedes(rows, d, e)
    BY DEF NothingLost
  <2> DEFINE P == {d \in DOMAIN rows : Supersedes(rows, d, e)}
  <2>1. /\ Typed(rows) /\ \A d \in DOMAIN rows : d # NoDoc
        /\ \A d \in DOMAIN rows : rows[d].eff <=> ~ \E c \in DOMAIN rows : rows[c].points = d
    BY CorrectionsAssumption DEF IInv, Typed, EffOK
  <2>2. P # {}
    BY <2>1, SupersedesAtOnce
  <2>3. PICK n \in Nat : \A d \in DOMAIN rows : DayOf(rows, d) <= n
    BY DEF DaysBounded
  <2>4. PICK d \in P : \A c \in P : DayOf(rows, c) <= DayOf(rows, d)
    <3> HIDE DEF P
    <3>1. P \in SUBSET DOMAIN rows
      BY DEF P
    <3> QED BY <2>1, <2>2, <2>3, <3>1, LatestExists
  <2>5. rows[d].eff
    <3> SUFFICES ASSUME NEW c \in DOMAIN rows, rows[c].points = d
                 PROVE  FALSE
      BY <2>1
    <3>1. c \in P
      BY <2>1, SupersedesFurther
    <3>2. DayOf(rows, d) < DayOf(rows, c)
      BY <2>1 DEF Chronological
    <3>3. DayOf(rows, c) <= DayOf(rows, d)
      BY <2>4, <3>1
    <3>4. DayOf(rows, c) \in Nat /\ DayOf(rows, d) \in Nat
      BY <2>1, DaysAreNumbers
    <3> QED BY <3>2, <3>3, <3>4
  <2> QED BY <2>5
<1> QED BY <1>1, <1>2, <1>3, InvariantHolds, PTL DEF Spec
-----------------------------------------------------------------------------
(***************************************************************************)
(* Walks.  Each turn of a loop of chain_of() makes a list of a list.       *)
(***************************************************************************)
\* What holds of 0, and of a number with the one before it, holds up to N.
LEMMA Climb ==
  ASSUME NEW N \in Nat, NEW A, 0 \in A, \A n \in 1..N : n - 1 \in A => n \in A
  PROVE  0..N \subseteq A
<1> DEFINE B == {n \in 0..N : n \notin A}
<1>1. SUFFICES ASSUME B # {} PROVE FALSE
  OBVIOUS
<1> DEFINE m == Min(B)
<1>2. B \subseteq Nat
  OBVIOUS
<1>3. m \in B /\ \A y \in B : m =< y
  <2> HIDE DEF B
  <2> QED BY <1>1, <1>2, MinExists
<1> HIDE DEF m
<1>4. m \in 0..N /\ m \notin A
  BY <1>3
<1>5. m # 0 /\ m \in Nat /\ m =< N
  BY <1>4
<1>6. m \in 1..N /\ m - 1 \in 0..N /\ ~ (m =< m - 1)
  BY <1>5
<1>7. m - 1 \notin B
  BY <1>3, <1>6
<1> QED BY <1>4, <1>6, <1>7

\* w[n] is what n turns make of the empty list.
InTurn(w, turn, N) == w[0] = <<>> /\ \A n \in 1..N : w[n] = turn[w[n - 1]]

\* The function a loop of N turns defines.
LEMMA WalkExists ==
  ASSUME NEW V, NEW turn \in [Seq(V) -> Seq(V)], NEW N \in Nat
  PROVE  \E w \in [0..N -> Seq(V)] : InTurn(w, turn, N)
<1> DEFINE S == Seq(V)
           Walks(n, w) == w[0] = <<>> /\ \A i \in 1..n : w[i] = turn[w[i - 1]]
           A == {n \in Nat : \E w \in [0..n -> S] : Walks(n, w)}
<1>1. 0 \in A
  <2> DEFINE w == [i \in 0..0 |-> <<>>]
  <2>1. w \in [0..0 -> S] /\ Walks(0, w)
    BY EmptySeq
  <2> QED BY <2>1
<1>2. ASSUME NEW n \in 1..N, n - 1 \in A
      PROVE  n \in A
  <2>1. n \in Nat /\ n - 1 \in Nat /\ n - 1 + 1 = n
    OBVIOUS
  <2>2. PICK v \in [0..(n - 1) -> S] : Walks(n - 1, v)
    BY <1>2
  <2> DEFINE w == [i \in 0..n |-> IF i = n THEN turn[v[n - 1]] ELSE v[i]]
  <2>3. \A i \in 0..n : i # n => i \in 0..(n - 1)
    BY <2>1
  <2>4. n - 1 \in 0..(n - 1) /\ n # 0 /\ 0 \in 0..n /\ n \in 0..n
    BY <2>1
  <2>5. w \in [0..n -> S]
    BY <2>3, <2>4
  <2>6. w[0] = <<>>
    BY <2>2, <2>4
  <2>7. ASSUME NEW i \in 1..n
        PROVE  w[i] = turn[w[i - 1]]
    <3>1. i \in 0..n /\ i - 1 \in 0..n /\ i - 1 # n
      BY <2>1
    <3>2. w[i - 1] = v[i - 1]
      BY <3>1
    <3>3. CASE i = n
      BY <2>4, <3>2, <3>3
    <3>4. CASE i # n
      <4>1. i \in 1..(n - 1)
        BY <2>1, <3>4
      <4>2. w[i] = v[i]
        BY <3>1, <3>4
      <4> QED BY <2>2, <3>2, <4>1, <4>2
    <3> QED BY <3>3, <3>4
  <2> HIDE DEF w
  <2>8. Walks(n, w)
    BY <2>6, <2>7
  <2> QED BY <2>1, <2>5, <2>8
<1> HIDE DEF A
<1>3. 0..N \subseteq A
  BY <1>1, <1>2, Climb
<1>4. N \in A
  BY <1>3
<1> QED BY <1>4 DEF A, InTurn

\* The documents that are listed, and the last of them.
LEMMA LastIs ==
  ASSUME NEW V, NEW b \in Seq(V), NEW d \in V
  PROVE  /\ Len(b) \in Nat /\ DOMAIN b = 1..Len(b) /\ \A i \in 1..Len(b) : b[i] \in V
         /\ b = <<>> <=> Len(b) = 0
         /\ (IF b = <<>> THEN d ELSE Last(b)) = (IF Len(b) = 0 THEN d ELSE b[Len(b)])
         /\ (IF Len(b) = 0 THEN d ELSE b[Len(b)]) \in V
<1>1. Len(b) \in Nat /\ DOMAIN b = 1..Len(b) /\ (b = <<>> <=> Len(b) = 0)
  BY LenProperties, EmptySeq
<1>2. \A i \in 1..Len(b) : b[i] \in V
  BY ElementOfSeq
<1>3. Len(b) # 0 => Len(b) \in 1..Len(b)
  BY <1>1
<1> QED BY <1>1, <1>2, <1>3 DEF Last

\* Where a walk has come to.
At(d, b) == IF Len(b) = 0 THEN d ELSE b[Len(b)]

LEMMA AppendIs ==
  ASSUME NEW V, NEW b \in Seq(V), NEW x \in V
  PROVE  /\ Append(b, x) \in Seq(V) /\ Len(Append(b, x)) = Len(b) + 1
         /\ \A i \in 1..Len(b) : Append(b, x)[i] = b[i]
         /\ Append(b, x)[Len(b) + 1] = x
         /\ Append(b, x) # b
<1>1. Len(b) \in Nat
  BY LenProperties
<1>2. /\ Append(b, x) \in Seq(V) /\ Len(Append(b, x)) = Len(b) + 1
      /\ \A i \in 1..Len(b) : Append(b, x)[i] = b[i]
      /\ Append(b, x)[Len(b) + 1] = x
  BY AppendProperties
<1>3. Len(b) + 1 # Len(b)
  BY <1>1
<1> QED BY <1>2, <1>3

\* A list each of whose members is one of what succ has for the one before.
Run(succ, d, b) == \A i \in 1..Len(b) : b[i] \in succ[IF i = 1 THEN d ELSE b[i - 1]]

\* A turn appends one of them, or nothing.
OneMore(V, succ, turn, d) ==
  \A b \in Seq(V) : turn[b] = b \/ \E x \in succ[At(d, b)] : turn[b] = Append(b, x)


\* Where the walk through N turns ends.
Ended(succ, turn, d, N, b) ==
  Run(succ, d, b) /\ Len(b) \in 0..N /\ (Len(b) < N => turn[b] = b)

\* A loop that appends or leaves the list alone has found nothing more to
\* append, unless all its turns appended.
LEMMA LoopEnds ==
  ASSUME NEW V, NEW d \in V, NEW succ \in [V -> SUBSET V],
         NEW turn \in [Seq(V) -> Seq(V)], NEW N \in Nat, NEW w \in [0..N -> Seq(V)],
         InTurn(w, turn, N), OneMore(V, succ, turn, d)
  PROVE  w[N] \in Seq(V) /\ Ended(succ, turn, d, N, w[N])
<1> DEFINE Good(n) == /\ Run(succ, d, w[n]) /\ Len(w[n]) \in 0..n
                      /\ Len(w[n]) < n => turn[w[n]] = w[n]
           A == {n \in 0..N : Good(n)}
<1>1. 0 \in A
  <2>1. Len(w[0]) = 0 /\ 0 \in 0..N /\ 0 \in 0..0
    BY EmptySeq DEF InTurn
  <2>2. Run(succ, d, w[0])
    BY <2>1 DEF Run
  <2> QED BY <2>1, <2>2
<1>2. ASSUME NEW n \in 1..N, n - 1 \in A
      PROVE  n \in A
  <2> DEFINE b == w[n - 1]
  <2>1. n \in 0..N /\ n - 1 \in 0..N /\ n \in Nat
    OBVIOUS
  <2>2. b \in Seq(V) /\ w[n] = turn[b] /\ w[n] \in Seq(V)
    BY <2>1 DEF InTurn
  <2>3. Len(b) \in 0..(n - 1) /\ Run(succ, d, b) /\ (Len(b) < n - 1 => turn[b] = b)
    BY <1>2
  <2> HIDE DEF b
  <2>4. CASE turn[b] = b
    <3>1. w[n] = b /\ turn[w[n]] = w[n]
      BY <2>2, <2>4
    <3>2. Len(b) \in 0..n
      BY <2>1, <2>3
    <3> QED BY <2>1, <2>3, <3>1, <3>2
  <2>5. CASE turn[b] # b
    <3>1. Len(b) = n - 1
      <4>1. Len(b) \in 0..(n - 1) /\ ~ (Len(b) < n - 1) /\ n \in Nat
        BY <2>1, <2>3, <2>5
      <4> QED BY ONLY <4>1
    <3>2. PICK x \in succ[At(d, b)] : turn[b] = Append(b, x)
      BY <2>2, <2>5 DEF OneMore
    <3>3. At(d, b) \in V
      BY <2>2, LastIs DEF At
    <3>4. x \in V
      BY <3>2, <3>3
    <3> DEFINE a == Append(b, x)
    <3>5. /\ Len(a) = Len(b) + 1 /\ a[Len(b) + 1] = x
          /\ \A i \in 1..Len(b) : a[i] = b[i]
      BY <2>2, <3>4, AppendIs
    <3> HIDE DEF a
    <3>6. Len(a) = n /\ a[n] = x /\ \A i \in 1..(n - 1) : a[i] = b[i]
      BY <2>1, <3>1, <3>5
    <3>7. w[n] = a
      BY <2>2, <3>2 DEF a
    <3>8. ASSUME NEW i \in 1..n
          PROVE  a[i] \in succ[IF i = 1 THEN d ELSE a[i - 1]]
      <4>1. CASE i = n /\ n = 1
        <5>1. At(d, b) = d
          BY <3>1, <4>1 DEF At
        <5> QED BY <3>2, <3>6, <4>1, <5>1
      <4>2. CASE i = n /\ n # 1
        <5>1. n - 1 \in 1..(n - 1) /\ n - 1 # 0
          BY <2>1, <4>2
        <5>2. At(d, b) = b[n - 1] /\ a[n - 1] = b[n - 1]
          BY <3>1, <3>6, <5>1 DEF At
        <5> QED BY <3>2, <3>6, <4>2, <5>2
      <4>3. CASE i # n
        <5>1. i \in 1..(n - 1) /\ (i # 1 => i - 1 \in 1..(n - 1))
          BY <2>1, <4>3
        <5>2. a[i] = b[i] /\ (i # 1 => a[i - 1] = b[i - 1])
          BY <3>6, <5>1
        <5>3. b[i] \in succ[IF i = 1 THEN d ELSE b[i - 1]]
          BY <2>3, <3>1, <5>1 DEF Run
        <5> QED BY <5>2, <5>3
      <4> QED BY <4>1, <4>2, <4>3
    <3>9. Run(succ, d, a)
      BY <3>6, <3>8 DEF Run
    <3>10. n \in 0..n /\ ~ (n < n)
      BY <2>1
    <3> QED BY <2>1, <3>6, <3>7, <3>9, <3>10
  <2> QED BY <2>4, <2>5
<1> HIDE DEF A
<1>3. 0..N \subseteq A
  BY <1>1, <1>2, Climb
<1>4. N \in A /\ w[N] \in Seq(V)
  BY <1>3
<1> QED BY <1>4 DEF A, Ended

\* The pointers of a database lead to its documents.
Within(db) ==
  NoDoc \notin DOMAIN db /\ \A x \in DOMAIN db : db[x].points \in DOMAIN db \cup {NoDoc}

Older(db) == [x \in DOMAIN db |-> {db[x].points} \ {NoDoc}]

Newer(db) == [x \in DOMAIN db |-> {e \in DOMAIN db : db[e].points = x}]

\* Documents that point to one another in a circle supersede themselves.
LEMMA CircleSupersedes ==
  ASSUME NEW db, Within(db), NEW m \in Nat, m # 0, NEW c \in [1..m -> DOMAIN db],
         \A i \in 2..m : db[c[i]].points = c[i - 1], db[c[1]].points = c[m]
  PROVE  c[1] \in DOMAIN db /\ Supersedes(db, c[1], c[1])
<1>1. 1 \in 1..m /\ m \in 1..m /\ m - 1 \in Nat
  OBVIOUS
<1>2. c[1] \in DOMAIN db /\ c[m] \in DOMAIN db /\ c[m] # NoDoc
  BY <1>1 DEF Within
<1>3. ASSUME NEW S \in SUBSET DOMAIN db, c[m] \in S, Closed(db, S)
      PROVE  c[1] \in S
  <2> DEFINE A == {j \in 0..(m - 1) : c[m - j] \in S}
  <2>1. 0 \in A
    <3>1. 0 \in 0..(m - 1) /\ m - 0 = m
      BY <1>1
    <3> QED BY <1>3, <3>1
  <2>2. ASSUME NEW j \in 1..(m - 1), j - 1 \in A
        PROVE  j \in A
    <3>1. /\ j \in 0..(m - 1) /\ m - (j - 1) \in 2..m /\ m - (j - 1) - 1 = m - j
          /\ m - j \in 1..m
      BY <1>1
    <3>2. db[c[m - (j - 1)]].points = c[m - j]
      BY <3>1
    <3>3. c[m - j] \in DOMAIN db /\ c[m - j] # NoDoc
      BY <3>1 DEF Within
    <3>4. c[m - (j - 1)] \in S
      BY <2>2
    <3>5. c[m - j] \in S
      BY <1>3, <3>2, <3>3, <3>4 DEF Closed
    <3> QED BY <3>1, <3>5
  <2> HIDE DEF A
  <2>3. 0..(m - 1) \subseteq A
    BY <1>1, <2>1, <2>2, Climb
  <2>4. m - 1 \in A
    BY <1>1, <2>3
  <2>5. m - (m - 1) = 1
    BY <1>1
  <2> QED BY <2>4, <2>5 DEF A
<1> QED BY <1>2, <1>3 DEF Supersedes

\* Where there is no circle, a walk doesn't come back to a document of it.
LEMMA BackIsNew ==
  ASSUME NEW db, Within(db), Linear(db), NEW d \in DOMAIN db, NEW b \in Seq(DOMAIN db),
         Run(Older(db), d, b), NEW i \in 1..Len(b)
  PROVE  db[b[Len(b)]].points # b[i]
<1> SUFFICES ASSUME db[b[Len(b)]].points = b[i] PROVE FALSE
  OBVIOUS
<1> DEFINE l == Len(b)
           m == l + 1 - i
           c == [j \in 1..m |-> b[l + 1 - j]]
<1>1. l \in Nat /\ \A j \in 1..l : b[j] \in DOMAIN db
  BY LastIs
<1>2. \A j \in 2..l : db[b[j - 1]].points = b[j]
  <2> SUFFICES ASSUME NEW j \in 2..l PROVE db[b[j - 1]].points = b[j]
    OBVIOUS
  <2>1. j \in 1..l /\ j - 1 \in 1..l /\ j # 1
    BY <1>1
  <2>2. b[j] \in Older(db)[b[j - 1]]
    BY <2>1 DEF Run
  <2>3. b[j - 1] \in DOMAIN db
    BY <1>1, <2>1
  <2> QED BY <2>2, <2>3 DEF Older
<1>3. i \in 1..l /\ db[b[l]].points = b[i]
  OBVIOUS
<1> HIDE DEF l
<1>4. m \in Nat /\ m # 0 /\ 1 \in 1..m /\ m \in 1..m /\ l + 1 - 1 = l /\ l + 1 - m = i
  BY <1>1, <1>3
<1>5. \A j \in 1..m : l + 1 - j \in 1..l
  BY <1>1, <1>3
<1>6. c \in [1..m -> DOMAIN db]
  BY <1>1, <1>5
<1>7. ASSUME NEW j \in 2..m
      PROVE  db[c[j]].points = c[j - 1]
  <2>1. /\ j \in 1..m /\ j - 1 \in 1..m /\ l + 1 - (j - 1) \in 2..l
        /\ (l + 1 - (j - 1)) - 1 = l + 1 - j
    BY <1>1, <1>3
  <2>2. c[j] = b[l + 1 - j] /\ c[j - 1] = b[l + 1 - (j - 1)]
    BY <2>1
  <2> QED BY <1>2, <2>1, <2>2
<1>8. db[c[1]].points = c[m]
  BY <1>3, <1>4
<1> HIDE DEF c, m
<1>9. c[1] \in DOMAIN db /\ Supersedes(db, c[1], c[1])
  BY <1>4, <1>6, <1>7, <1>8, CircleSupersedes
<1> QED BY <1>9 DEF Linear

LEMMA ForthIsNew ==
  ASSUME NEW db, Within(db), Linear(db), NEW d \in DOMAIN db, NEW f \in Seq(DOMAIN db),
         Run(Newer(db), d, f), NEW i \in 1..Len(f)
  PROVE  db[f[i]].points # f[Len(f)]
<1> SUFFICES ASSUME db[f[i]].points = f[Len(f)] PROVE FALSE
  OBVIOUS
<1> DEFINE l == Len(f)
           m == l + 1 - i
           c == [j \in 1..m |-> f[i - 1 + j]]
<1>1. l \in Nat /\ \A j \in 1..l : f[j] \in DOMAIN db
  BY LastIs
<1>2. \A j \in 2..l : db[f[j]].points = f[j - 1]
  <2> SUFFICES ASSUME NEW j \in 2..l PROVE db[f[j]].points = f[j - 1]
    OBVIOUS
  <2>1. j \in 1..l /\ j - 1 \in 1..l /\ j # 1
    BY <1>1
  <2>2. f[j] \in Newer(db)[f[j - 1]]
    BY <2>1 DEF Run
  <2>3. f[j - 1] \in DOMAIN db
    BY <1>1, <2>1
  <2> QED BY <2>2, <2>3 DEF Newer
<1>3. i \in 1..l /\ db[f[i]].points = f[l]
  OBVIOUS
<1> HIDE DEF l
<1>4. m \in Nat /\ m # 0 /\ 1 \in 1..m /\ m \in 1..m /\ i - 1 + 1 = i /\ i - 1 + m = l
  BY <1>1, <1>3
<1>5. \A j \in 1..m : i - 1 + j \in 1..l
  BY <1>1, <1>3
<1>6. c \in [1..m -> DOMAIN db]
  BY <1>1, <1>5
<1>7. ASSUME NEW j \in 2..m
      PROVE  db[c[j]].points = c[j - 1]
  <2>1. /\ j \in 1..m /\ j - 1 \in 1..m /\ i - 1 + j \in 2..l
        /\ (i - 1 + j) - 1 = i - 1 + (j - 1)
    <3>1. l \in Nat /\ i \in 1..l /\ j \in 2..(l + 1 - i)
      BY <1>1, <1>3
    <3> QED BY ONLY <3>1 DEF m
  <2>2. c[j] = f[i - 1 + j] /\ c[j - 1] = f[i - 1 + (j - 1)]
    BY <2>1
  <2> QED BY <1>2, <2>1, <2>2
<1>8. db[c[1]].points = c[m]
  BY <1>3, <1>4
<1> HIDE DEF c, m
<1>9. c[1] \in DOMAIN db /\ Supersedes(db, c[1], c[1])
  BY <1>4, <1>6, <1>7, <1>8, CircleSupersedes
<1> QED BY <1>9 DEF Linear

\* What the loops of chain_of() run through, and where they end: at a document
\* that supersedes none, and at one that none supersedes.
LEMMA BackTurns ==
  ASSUME NEW db, Within(db), NEW d \in DOMAIN db, NEW b \in Seq(DOMAIN db)
  PROVE  /\ BackFrom(db, d, b) \in Seq(DOMAIN db)
         /\ \/ BackFrom(db, d, b) = b
            \/ \E x \in Older(db)[At(d, b)] : BackFrom(db, d, b) = Append(b, x)
         /\ BackFrom(db, d, b) = b =>
              \/ db[At(d, b)].points = NoDoc
              \/ \E i \in 1..Len(b) : db[At(d, b)].points = b[i]
<1> DEFINE V == DOMAIN db
           node == IF b = <<>> THEN d ELSE Last(b)
           next == db[node].points
<1>1. node = At(d, b) /\ node \in V /\ DOMAIN b = 1..Len(b)
  BY LastIs DEF At
<1>2. Range(b) = {b[i] : i \in 1..Len(b)}
  BY <1>1 DEF Range
<1>3. BackFrom(db, d, b) = IF next = NoDoc \/ next \in Range(b) THEN b ELSE Append(b, next)
  BY DEF BackFrom
<1> HIDE DEF node
<1>4. next \in V \cup {NoDoc}
  BY <1>1 DEF Within
<1>5. CASE next = NoDoc \/ next \in Range(b)
  BY <1>1, <1>2, <1>3, <1>5
<1>6. CASE next # NoDoc /\ next \notin Range(b)
  <2>1. next \in Older(db)[At(d, b)] /\ next \in V
    BY <1>1, <1>4, <1>6 DEF Older
  <2> HIDE DEF next
  <2>2. BackFrom(db, d, b) = Append(b, next)
    BY <1>3, <1>6
  <2>3. Append(b, next) \in Seq(V) /\ Append(b, next) # b
    BY <2>1, AppendIs
  <2> QED BY <2>1, <2>2, <2>3
<1> QED BY <1>5, <1>6

LEMMA ForthTurns ==
  ASSUME NEW db, NEW d \in DOMAIN db, NEW b \in Seq(DOMAIN db)
  PROVE  /\ ForthFrom(db, d, b) \in Seq(DOMAIN db)
         /\ \/ ForthFrom(db, d, b) = b
            \/ \E x \in Newer(db)[At(d, b)] : ForthFrom(db, d, b) = Append(b, x)
         /\ ForthFrom(db, d, b) = b =>
              \/ \A e \in DOMAIN db : db[e].points # At(d, b)
              \/ \E i \in 1..Len(b) : db[b[i]].points = At(d, b)
<1> DEFINE V == DOMAIN db
           node == IF b = <<>> THEN d ELSE Last(b)
           next == {e \in DOMAIN db : db[e].points = node}
           x == CHOOSE e \in next : TRUE
<1>1. node = At(d, b) /\ node \in V /\ DOMAIN b = 1..Len(b)
  BY LastIs DEF At
<1>2. Range(b) = {b[i] : i \in 1..Len(b)}
  BY <1>1 DEF Range
<1>3. ForthFrom(db, d, b) = IF next = {} \/ x \in Range(b) THEN b ELSE Append(b, x)
  BY DEF ForthFrom
<1> HIDE DEF node
<1>4. next = Newer(db)[At(d, b)]
  BY <1>1 DEF Newer
<1>5. CASE next = {}
  <2>1. \A e \in DOMAIN db : db[e].points # At(d, b)
    BY <1>1, <1>5
  <2> QED BY <1>3, <1>5, <2>1
<1>6. CASE next # {}
  <2>1. x \in next
    BY <1>6
  <2>2. x \in V /\ db[x].points = At(d, b)
    BY <1>1, <2>1
  <2> HIDE DEF x, next
  <2>3. CASE x \in Range(b)
    BY <1>2, <1>3, <2>2, <2>3
  <2>4. CASE x \notin Range(b)
    <3>1. Append(b, x) \in Seq(V) /\ Append(b, x) # b
      BY <2>2, AppendIs
    <3> QED BY <1>3, <1>4, <1>6, <2>1, <2>4, <3>1
  <2> QED BY <2>3, <2>4
<1> QED BY <1>5, <1>6

\* A function defined by turns, of which it isn't known yet that it has lists.
Turning(V, turn, c) ==
  /\ c[0] = <<>> /\ c = [n \in 0..MaxWalk |-> c[n]]
  /\ \A n \in 1..MaxWalk : c[n - 1] \in Seq(V) => c[n] = turn[c[n - 1]]

LEMMA TurnsEnd ==
  ASSUME NEW V, NEW d \in V, NEW succ \in [V -> SUBSET V],
         NEW turn \in [Seq(V) -> Seq(V)], NEW c,
         Turning(V, turn, c), OneMore(V, succ, turn, d)
  PROVE  c[MaxWalk] \in Seq(V) /\ Ended(succ, turn, d, MaxWalk, c[MaxWalk])
<1> DEFINE A == {n \in Nat : c[n] \in Seq(V)}
<1>1. MaxWalk \in Nat
  BY CorrectionsAssumption
<1>2. 0 \in A
  BY EmptySeq DEF Turning
<1>3. ASSUME NEW n \in 1..MaxWalk, n - 1 \in A
      PROVE  n \in A
  <2>1. n \in Nat
    BY <1>1
  <2>2. c[n - 1] \in Seq(V)
    BY <1>3
  <2>3. c[n] \in Seq(V)
    BY <2>2 DEF Turning
  <2> QED BY <2>1, <2>3
<1> HIDE DEF A
<1>4. 0..MaxWalk \subseteq A
  BY <1>1, <1>2, <1>3, Climb
<1>5. \A n \in 0..MaxWalk : c[n] \in Seq(V)
  BY <1>4 DEF A
<1>6. c \in [0..MaxWalk -> Seq(V)]
  BY <1>5 DEF Turning
<1>7. \A n \in 1..MaxWalk : c[n] = turn[c[n - 1]]
  <2> SUFFICES ASSUME NEW n \in 1..MaxWalk PROVE c[n] = turn[c[n - 1]]
    OBVIOUS
  <2>1. n - 1 \in 0..MaxWalk
    BY <1>1
  <2> QED BY <1>5, <2>1 DEF Turning
<1>8. InTurn(c, turn, MaxWalk)
  BY <1>7 DEF InTurn, Turning
<1> QED BY <1>1, <1>6, <1>8, LoopEnds

LEMMA BackIs ==
  ASSUME NEW db, Within(db), Linear(db), NEW d \in DOMAIN db
  PROVE  /\ Back(db, d) \in Seq(DOMAIN db) /\ Run(Older(db), d, Back(db, d))
         /\ Len(Back(db, d)) \in 0..MaxWalk
         /\ Len(Back(db, d)) < MaxWalk => db[At(d, Back(db, d))].points = NoDoc
<1> DEFINE V == DOMAIN db
           turn == [b \in Seq(V) |-> BackFrom(db, d, b)]
           Turns(c) == c = [n \in 0..MaxWalk |-> IF n = 0 THEN <<>>
                                                 ELSE BackFrom(db, d, c[n - 1])]
           c == CHOOSE w : Turns(w)
           b == c[MaxWalk]
<1>1. MaxWalk \in Nat /\ 0 \in 0..MaxWalk
  BY CorrectionsAssumption
<1>2. turn \in [Seq(V) -> Seq(V)]
  BY BackTurns
<1>3. OneMore(V, Older(db), turn, d)
  BY BackTurns DEF OneMore
<1>4. Older(db) \in [V -> SUBSET V]
  BY DEF Older, Within
<1>5. b = Back(db, d)
  BY DEF Back
<1>6. Turns(c)
  <2>1. PICK w \in [0..MaxWalk -> Seq(V)] : InTurn(w, turn, MaxWalk)
    <3> HIDE DEF turn, V
    <3> QED BY <1>1, <1>2, WalkExists
  <2>2. ASSUME NEW n \in 0..MaxWalk, n # 0
        PROVE  w[n] = BackFrom(db, d, w[n - 1])
    <3>1. n \in 1..MaxWalk /\ n - 1 \in 0..MaxWalk
      BY <1>1, <2>2
    <3>2. w[n - 1] \in Seq(V)
      BY <3>1
    <3> QED BY <2>1, <3>1, <3>2 DEF InTurn
  <2>3. Turns(w)
    BY <2>1, <2>2 DEF InTurn
  <2> HIDE DEF Turns
  <2> QED BY <2>3
<1> HIDE DEF c
<1>7. c[0] = <<>> /\ c = [n \in 0..MaxWalk |-> c[n]]
  BY <1>1, <1>6
<1>8. ASSUME NEW n \in 1..MaxWalk, c[n - 1] \in Seq(V)
      PROVE  c[n] = turn[c[n - 1]]
  <2>1. n \in 0..MaxWalk /\ n # 0
    BY <1>1
  <2>2. c[n] = BackFrom(db, d, c[n - 1])
    BY <1>6, <2>1
  <2> QED BY <1>8, <2>2
<1>9. /\ b \in Seq(V) /\ Run(Older(db), d, b) /\ Len(b) \in 0..MaxWalk
      /\ Len(b) < MaxWalk => turn[b] = b
  <2>1. Turning(V, turn, c)
    <3> HIDE DEF turn
    <3> QED BY <1>7, <1>8 DEF Turning
  <2>2. d \in V
    OBVIOUS
  <2> HIDE DEF turn, V
  <2>3. b \in Seq(V) /\ Ended(Older(db), turn, d, MaxWalk, b)
    BY <1>2, <1>3, <1>4, <2>1, <2>2, TurnsEnd
  <2> QED BY <2>3 DEF Ended
<1> HIDE DEF b
<1>10. ASSUME Len(b) < MaxWalk
       PROVE  db[At(d, b)].points = NoDoc
  <2>1. BackFrom(db, d, b) = b
    BY <1>9, <1>10
  <2>2. SUFFICES ASSUME NEW i \in 1..Len(b), db[At(d, b)].points = b[i]
                 PROVE  FALSE
    BY <1>9, <2>1, BackTurns
  <2>3. Len(b) # 0
    BY <1>9
  <2>4. At(d, b) = b[Len(b)]
    BY <2>3 DEF At
  <2> QED BY <1>9, <2>2, <2>4, BackIsNew
<1> QED BY <1>5, <1>9, <1>10

LEMMA ForthIs ==
  ASSUME NEW db, Within(db), Linear(db), NEW d \in DOMAIN db
  PROVE  /\ Forth(db, d) \in Seq(DOMAIN db) /\ Run(Newer(db), d, Forth(db, d))
         /\ Len(Forth(db, d)) \in 0..MaxWalk
         /\ Len(Forth(db, d)) < MaxWalk => \A e \in DOMAIN db : db[e].points # At(d, Forth(db, d))
<1> DEFINE V == DOMAIN db
           turn == [b \in Seq(V) |-> ForthFrom(db, d, b)]
           Turns(c) == c = [n \in 0..MaxWalk |-> IF n = 0 THEN <<>>
                                                 ELSE ForthFrom(db, d, c[n - 1])]
           c == CHOOSE w : Turns(w)
           b == c[MaxWalk]
<1>1. MaxWalk \in Nat /\ 0 \in 0..MaxWalk
  BY CorrectionsAssumption
<1>2. turn \in [Seq(V) -> Seq(V)]
  BY ForthTurns
<1>3. OneMore(V, Newer(db), turn, d)
  BY ForthTurns DEF OneMore
<1>4. Newer(db) \in [V -> SUBSET V]
  BY DEF Newer, Within
<1>5. b = Forth(db, d)
  BY DEF Forth
<1>6. Turns(c)
  <2>1. PICK w \in [0..MaxWalk -> Seq(V)] : InTurn(w, turn, MaxWalk)
    <3> HIDE DEF turn, V
    <3> QED BY <1>1, <1>2, WalkExists
  <2>2. ASSUME NEW n \in 0..MaxWalk, n # 0
        PROVE  w[n] = ForthFrom(db, d, w[n - 1])
    <3>1. n \in 1..MaxWalk /\ n - 1 \in 0..MaxWalk
      BY <1>1, <2>2
    <3>2. w[n - 1] \in Seq(V)
      BY <3>1
    <3> QED BY <2>1, <3>1, <3>2 DEF InTurn
  <2>3. Turns(w)
    BY <2>1, <2>2 DEF InTurn
  <2> HIDE DEF Turns
  <2> QED BY <2>3
<1> HIDE DEF c
<1>7. c[0] = <<>> /\ c = [n \in 0..MaxWalk |-> c[n]]
  BY <1>1, <1>6
<1>8. ASSUME NEW n \in 1..MaxWalk, c[n - 1] \in Seq(V)
      PROVE  c[n] = turn[c[n - 1]]
  <2>1. n \in 0..MaxWalk /\ n # 0
    BY <1>1
  <2>2. c[n] = ForthFrom(db, d, c[n - 1])
    BY <1>6, <2>1
  <2> QED BY <1>8, <2>2
<1>9. /\ b \in Seq(V) /\ Run(Newer(db), d, b) /\ Len(b) \in 0..MaxWalk
      /\ Len(b) < MaxWalk => turn[b] = b
  <2>1. Turning(V, turn, c)
    <3> HIDE DEF turn
    <3> QED BY <1>7, <1>8 DEF Turning
  <2>2. d \in V
    OBVIOUS
  <2> HIDE DEF turn, V
  <2>3. b \in Seq(V) /\ Ended(Newer(db), turn, d, MaxWalk, b)
    BY <1>2, <1>3, <1>4, <2>1, <2>2, TurnsEnd
  <2> QED BY <2>3 DEF Ended
<1> HIDE DEF b
<1>10. ASSUME Len(b) < MaxWalk
       PROVE  \A e \in DOMAIN db : db[e].points # At(d, b)
  <2>1. ForthFrom(db, d, b) = b
    BY <1>9, <1>10
  <2>2. SUFFICES ASSUME NEW i \in 1..Len(b), db[b[i]].points = At(d, b)
                 PROVE  FALSE
    BY <1>9, <2>1, ForthTurns
  <2>3. Len(b) # 0
    BY <1>9
  <2>4. At(d, b) = b[Len(b)]
    BY <2>3 DEF At
  <2> QED BY <1>9, <2>2, <2>4, ForthIsNew
<1> QED BY <1>5, <1>9, <1>10

\* The list that chain_of() puts together, document by document.
Parts(c, b, d, f) ==
  /\ Len(c) = Len(b) + 1 + Len(f)
  /\ \A i \in 1..Len(b) : c[i] = b[Len(b) + 1 - i]
  /\ c[Len(b) + 1] = d
  /\ \A i \in 1..Len(f) : c[Len(b) + 1 + i] = f[i]

Joined(c, s, t) ==
  /\ Len(c) = Len(s) + Len(t)
  /\ \A i \in 1..Len(s) : c[i] = s[i]
  /\ \A i \in 1..Len(t) : c[Len(s) + i] = t[i]

LEMMA ConcatIs ==
  ASSUME NEW V, NEW s \in Seq(V), NEW t \in Seq(V)
  PROVE  s \o t \in Seq(V) /\ Joined(s \o t, s, t)
<1> DEFINE l == Len(s)
           m == Len(t)
           c == s \o t
<1>1. l \in Nat /\ m \in Nat
  BY LenProperties
<1>2. /\ c \in Seq(V) /\ Len(c) = l + m
      /\ \A i \in 1..(l + m) : c[i] = IF i <= l THEN s[i] ELSE t[i - l]
  BY ConcatProperties
<1> HIDE DEF l, m, c
<1>3. ASSUME NEW i \in 1..l
      PROVE  c[i] = s[i]
  <2>1. i \in 1..(l + m) /\ i <= l
    BY <1>1
  <2> QED BY <1>2, <2>1
<1>4. ASSUME NEW i \in 1..m
      PROVE  c[l + i] = t[i]
  <2> DEFINE n == l + i
  <2>1. n \in 1..(l + m) /\ ~ (n <= l) /\ n - l = i
    BY <1>1
  <2> HIDE DEF n
  <2>2. c[n] = t[n - l]
    BY <1>2, <2>1
  <2> QED BY <2>1, <2>2 DEF n
<1> QED BY <1>2, <1>3, <1>4 DEF c, l, m, Joined

LEMMA ChainParts ==
  ASSUME NEW V, NEW b \in Seq(V), NEW d \in V, NEW f \in Seq(V)
  PROVE  LET c == Reverse(b) \o <<d>> \o f IN c \in Seq(V) /\ Parts(c, b, d, f)
<1> DEFINE l == Len(b)
           m == Len(f)
           r == Reverse(b)
           o == <<d>>
           h == r \o o
           c == h \o f
<1>1. l \in Nat /\ m \in Nat
  BY LenProperties
<1>2. r \in Seq(V) /\ Len(r) = l /\ \A i \in 1..l : r[i] = b[l - i + 1]
  <2>1. r = [i \in 1..l |-> b[l - i + 1]]
    BY DEF Reverse
  <2>2. \A i \in 1..l : l - i + 1 \in 1..l
    BY <1>1
  <2>3. \A i \in 1..l : b[l - i + 1] \in V
    BY <2>2, LastIs
  <2> HIDE DEF l
  <2>4. r \in [1..l -> V]
    BY <2>1, <2>3
  <2>5. r \in Seq(V)
    BY <1>1, <2>4, SeqDef
  <2>6. DOMAIN r = 1..l
    BY <2>1
  <2> HIDE DEF r
  <2>7. Len(r) = l
    BY <1>1, <2>5, <2>6, LenProperties
  <2> QED BY <2>1, <2>5, <2>7
<1>3. o \in Seq(V) /\ Len(o) = 1 /\ o[1] = d
  OBVIOUS
<1> HIDE DEF r, o, l
<1>4. h \in Seq(V) /\ Joined(h, r, o)
  BY <1>2, <1>3, ConcatIs
<1> HIDE DEF h
<1>5. Len(h) = l + 1 /\ h[l + 1] = d /\ \A i \in 1..l : h[i] = r[i]
  <2>1. 1 \in 1..Len(o)
    BY <1>3
  <2>2. h[Len(r) + 1] = o[1]
    BY <1>4, <2>1 DEF Joined
  <2> QED BY <1>2, <1>3, <1>4, <2>2 DEF Joined
<1>6. /\ c \in Seq(V) /\ Len(c) = l + 1 + m
      /\ \A i \in 1..(l + 1) : c[i] = h[i]
      /\ \A i \in 1..m : c[l + 1 + i] = f[i]
  <2>1. c \in Seq(V) /\ Joined(c, h, f)
    BY <1>4, ConcatIs
  <2> HIDE DEF c
  <2> QED BY <1>5, <2>1 DEF Joined
<1> HIDE DEF c, m
<1>7. c[l + 1] = d
  BY <1>1, <1>5, <1>6
<1>8. ASSUME NEW i \in 1..l
      PROVE  c[i] = b[l + 1 - i]
  <2>1. i \in 1..(l + 1) /\ l - i + 1 = l + 1 - i
    BY <1>1
  <2> QED BY <1>2, <1>5, <1>6, <2>1
<1>9. Parts(c, b, d, f)
  BY <1>6, <1>7, <1>8 DEF Parts, l, m
<1> QED BY <1>6, <1>9 DEF c, h, r, o

(***************************************************************************)
(* A whole chain: each of its documents points to the one before, and      *)
(* nothing leads into it or out of it.                                     *)
(***************************************************************************)
Whole(db, c) ==
  /\ c \in Seq(DOMAIN db) /\ Len(c) # 0
  /\ \A i \in 2..Len(c) : db[c[i]].points = c[i - 1]
  /\ db[c[1]].points = NoDoc
  /\ \A e \in DOMAIN db : db[e].points # c[Len(c)]

\* The walks from a document of a whole chain stay in it.
LEMMA BackStays ==
  ASSUME NEW db, Within(db), NEW c, Whole(db, c), NEW k \in 1..Len(c),
         NEW b \in Seq(DOMAIN db), Run(Older(db), c[k], b)
  PROVE  Len(b) < k /\ \A i \in 1..Len(b) : b[i] = c[k - i]
<1> DEFINE m == Len(c)
           l == Len(b)
           A == {n \in Nat : n < k /\ (n # 0 => b[n] = c[k - n])}
<1>1. c \in Seq(DOMAIN db) /\ m \in Nat /\ l \in Nat /\ k \in 1..m
  BY LenProperties DEF Whole
<1>2. \A i \in 1..m : c[i] \in DOMAIN db /\ c[i] # NoDoc
  BY <1>1, ElementOfSeq DEF Within
<1>3. \A i \in 1..l : b[i] \in DOMAIN db
  BY ElementOfSeq
<1>4. 0 \in A
  BY <1>1
<1>5. ASSUME NEW n \in 1..l, n - 1 \in A
      PROVE  n \in A
  <2> DEFINE node == IF n = 1 THEN c[k] ELSE b[n - 1]
             j == k - (n - 1)
  <2>1. b[n] \in Older(db)[node]
    BY DEF Run
  <2>2. /\ n \in Nat /\ j \in 1..m /\ (n = 1 => j = k) /\ (n # 1 => n - 1 # 0)
        /\ (j # 1 => j \in 2..m /\ n < k) /\ j - 1 = k - n
    <3>1. l \in Nat /\ n \in 1..l /\ m \in Nat /\ k \in 1..m /\ n - 1 < k
      BY <1>1, <1>5
    <3> QED BY ONLY <3>1 DEF j
  <2>3. node = c[j]
    BY <1>5, <2>2
  <2> HIDE DEF node, j
  <2>4. b[n] = db[c[j]].points /\ b[n] # NoDoc
    BY <1>2, <2>1, <2>2, <2>3 DEF Older
  <2>5. j # 1
    BY <2>4 DEF Whole
  <2>6. db[c[j]].points = c[j - 1]
    BY <2>2, <2>5 DEF Whole
  <2> QED BY <2>2, <2>4, <2>5, <2>6
<1> HIDE DEF A
<1>6. 0..l \subseteq A
  BY <1>1, <1>4, <1>5, Climb
<1>7. l \in A /\ \A i \in 1..l : i \in A /\ i # 0
  BY <1>1, <1>6
<1> QED BY <1>7 DEF A

LEMMA ForthStays ==
  ASSUME NEW db, Within(db), Linear(db), NEW c, Whole(db, c), NEW k \in 1..Len(c),
         NEW f \in Seq(DOMAIN db), Run(Newer(db), c[k], f)
  PROVE  Len(f) <= Len(c) - k /\ \A i \in 1..Len(f) : f[i] = c[k + i]
<1> DEFINE m == Len(c)
           l == Len(f)
           A == {n \in Nat : n <= m - k /\ (n # 0 => f[n] = c[k + n])}
<1>1. c \in Seq(DOMAIN db) /\ m \in Nat /\ l \in Nat /\ k \in 1..m
  BY LenProperties DEF Whole
<1>2. \A i \in 1..m : c[i] \in DOMAIN db /\ c[i] # NoDoc
  BY <1>1, ElementOfSeq DEF Within
<1>3. \A i \in 1..l : f[i] \in DOMAIN db
  BY ElementOfSeq
<1>4. 0 \in A
  BY <1>1
<1>5. ASSUME NEW n \in 1..l, n - 1 \in A
      PROVE  n \in A
  <2> DEFINE node == IF n = 1 THEN c[k] ELSE f[n - 1]
             j == k + (n - 1)
  <2>1. f[n] \in Newer(db)[node]
    BY DEF Run
  <2>2. /\ n \in Nat /\ j \in 1..m /\ (n = 1 => j = k) /\ (n # 1 => n - 1 # 0)
        /\ (j # m => j + 1 \in 2..m /\ j + 1 \in 1..m /\ n <= m - k)
        /\ j + 1 = k + n /\ j + 1 - 1 = j
    <3>1. l \in Nat /\ n \in 1..l /\ m \in Nat /\ k \in 1..m /\ n - 1 <= m - k
      BY <1>1, <1>5
    <3> QED BY ONLY <3>1 DEF j
  <2>3. node = c[j]
    BY <1>5, <2>2
  <2> HIDE DEF node, j
  <2>4. f[n] \in DOMAIN db /\ db[f[n]].points = c[j] /\ c[j] # NoDoc
    BY <1>2, <2>1, <2>2, <2>3 DEF Newer
  <2>5. j # m
    BY <2>4 DEF Whole
  <2>6. db[c[j + 1]].points = c[j] /\ c[j + 1] \in DOMAIN db
    BY <1>2, <2>2, <2>5 DEF Whole
  <2>7. f[n] = c[j + 1]
    BY <2>4, <2>6 DEF Linear
  <2> QED BY <2>2, <2>5, <2>7
<1> HIDE DEF A
<1>6. 0..l \subseteq A
  BY <1>1, <1>4, <1>5, Climb
<1>7. l \in A /\ \A i \in 1..l : i \in A /\ i # 0
  BY <1>1, <1>6
<1> QED BY <1>7 DEF A

\* A chain that is not longer than the walk is found whole,
LEMMA FoundWhole ==
  ASSUME NEW db, Within(db), Linear(db), NEW d \in DOMAIN db, Len(ChainOf(db, d)) <= MaxWalk
  PROVE  Whole(db, ChainOf(db, d))
<1> DEFINE V == DOMAIN db
           b == Back(db, d)
           f == Forth(db, d)
           c == ChainOf(db, d)
           l == Len(b)
           m == Len(f)
<1>1. /\ b \in Seq(V) /\ Run(Older(db), d, b) /\ l \in 0..MaxWalk
      /\ l < MaxWalk => db[At(d, b)].points = NoDoc
  BY BackIs
<1>2. /\ f \in Seq(V) /\ Run(Newer(db), d, f) /\ m \in 0..MaxWalk
      /\ m < MaxWalk => \A e \in V : db[e].points # At(d, f)
  BY ForthIs
<1>3. c \in Seq(V) /\ Parts(c, b, d, f)
  BY <1>1, <1>2, ChainParts DEF ChainOf
<1>4. Len(c) <= MaxWalk
  OBVIOUS
<1> HIDE DEF b, f, c
<1>5. l \in Nat /\ m \in Nat /\ MaxWalk \in Nat /\ Len(c) = l + 1 + m
  BY <1>1, <1>2, <1>3, CorrectionsAssumption DEF Parts
<1>6. /\ \A i \in 1..l : c[i] = b[l + 1 - i]
      /\ c[l + 1] = d
      /\ \A i \in 1..m : c[l + 1 + i] = f[i]
  BY <1>3 DEF Parts
<1>7. \A i \in 1..l : /\ b[i] \in V
                      /\ db[IF i = 1 THEN d ELSE b[i - 1]].points = b[i]
  <2> SUFFICES ASSUME NEW i \in 1..l
               PROVE  b[i] \in V /\ db[IF i = 1 THEN d ELSE b[i - 1]].points = b[i]
    OBVIOUS
  <2>1. b[i] \in V /\ (i # 1 => i - 1 \in 1..l)
    BY <1>1, <1>5, ElementOfSeq
  <2> DEFINE node == IF i = 1 THEN d ELSE b[i - 1]
  <2>2. node \in V
    BY <1>1, <2>1, ElementOfSeq
  <2>3. b[i] \in Older(db)[node]
    BY <1>1 DEF Run
  <2> HIDE DEF node
  <2>4. db[node].points = b[i]
    BY <2>2, <2>3 DEF Older
  <2> QED BY <2>1, <2>4 DEF node
<1>8. \A i \in 1..m : /\ f[i] \in V
                      /\ db[f[i]].points = IF i = 1 THEN d ELSE f[i - 1]
  <2> SUFFICES ASSUME NEW i \in 1..m
               PROVE  f[i] \in V /\ db[f[i]].points = IF i = 1 THEN d ELSE f[i - 1]
    OBVIOUS
  <2>1. f[i] \in V /\ (i # 1 => i - 1 \in 1..m)
    BY <1>2, <1>5, ElementOfSeq
  <2> DEFINE node == IF i = 1 THEN d ELSE f[i - 1]
  <2>2. node \in V
    BY <1>2, <2>1, ElementOfSeq
  <2>3. f[i] \in Newer(db)[node]
    BY <1>2 DEF Run
  <2> HIDE DEF node
  <2>4. db[f[i]].points = node
    BY <2>2, <2>3 DEF Newer
  <2> QED BY <2>1, <2>4 DEF node
<1>9. c[1] = At(d, b)
  <2>1. CASE l = 0
    BY <1>6, <2>1 DEF At
  <2>2. CASE l # 0
    <3>1. 1 \in 1..l /\ l + 1 - 1 = l
      BY <1>5, <2>2
    <3> QED BY <1>6, <2>2, <3>1 DEF At
  <2> QED BY <2>1, <2>2
<1>10. c[Len(c)] = At(d, f)
  <2>1. CASE m = 0
    <3>1. Len(c) = l + 1
      BY <1>5, <2>1
    <3> QED BY <1>6, <2>1, <3>1 DEF At
  <2>2. CASE m # 0
    <3>1. m \in 1..m
      BY <1>5, <2>2
    <3> QED BY <1>5, <1>6, <2>2, <3>1 DEF At
  <2> QED BY <2>1, <2>2
<1>11. l < MaxWalk /\ m < MaxWalk /\ Len(c) # 0
  <2>1. l \in Nat /\ m \in Nat /\ MaxWalk \in Nat /\ Len(c) = l + 1 + m /\ Len(c) <= MaxWalk
    BY <1>4, <1>5
  <2> QED BY ONLY <2>1
<1> HIDE DEF l, m
<1>12. ASSUME NEW i \in 2..Len(c)
       PROVE  db[c[i]].points = c[i - 1]
  <2>1. i \in 2..(l + 1 + m)
    BY <1>5
  <2>2. CASE i <= l
    <3> DEFINE j == l + 1 - (i - 1)
    <3>1. /\ i \in 1..l /\ i - 1 \in 1..l /\ j \in 1..l /\ j # 1 /\ j - 1 = l + 1 - i
      BY <1>5, <2>1, <2>2
    <3>2. c[i - 1] = b[j]
      BY <1>6, <3>1
    <3> HIDE DEF j
    <3>3. c[i] = b[j - 1]
      BY <1>6, <3>1
    <3>4. db[b[j - 1]].points = b[j]
      BY <1>7, <3>1
    <3> QED BY <3>2, <3>3, <3>4
  <2>3. CASE i = l + 1
    <3>1. 1 \in 1..l /\ i - 1 = l /\ l \in 1..l /\ l + 1 - l = 1
      BY <1>5, <2>1, <2>3
    <3>2. c[i] = d /\ c[i - 1] = b[1]
      BY <1>6, <2>3, <3>1
    <3> QED BY <1>7, <3>1, <3>2
  <2>4. CASE ~ (i <= l) /\ i # l + 1
    <3> DEFINE j == i - (l + 1)
    <3>1. /\ j \in 1..m /\ l + 1 + j = i /\ (j = 1 => i - 1 = l + 1)
          /\ (j # 1 => j - 1 \in 1..m /\ l + 1 + (j - 1) = i - 1)
      BY <1>5, <2>1, <2>4
    <3> HIDE DEF j
    <3>2. c[i] = f[j]
      BY <1>6, <3>1
    <3>3. c[i - 1] = IF j = 1 THEN d ELSE f[j - 1]
      BY <1>6, <3>1
    <3> QED BY <1>8, <3>1, <3>2, <3>3
  <2> QED BY <2>2, <2>3, <2>4
<1>13. db[c[1]].points = NoDoc /\ \A e \in V : db[e].points # c[Len(c)]
  BY <1>1, <1>2, <1>9, <1>10, <1>11 DEF l, m
<1>14. Whole(db, c)
  BY <1>3, <1>11, <1>12, <1>13 DEF Whole
<1> QED BY <1>14 DEF c

\* and from any of its documents.
LEMMA FoundFromAny ==
  ASSUME NEW db, Within(db), Linear(db), NEW c, Whole(db, c), Len(c) <= MaxWalk,
         NEW k \in 1..Len(c)
  PROVE  ChainOf(db, c[k]) = c
<1> DEFINE V == DOMAIN db
           d == c[k]
           b == Back(db, d)
           f == Forth(db, d)
           q == ChainOf(db, d)
           n == Len(c)
           l == Len(b)
           m == Len(f)
<1>1. c \in Seq(V) /\ n \in Nat /\ k \in 1..n /\ MaxWalk \in Nat /\ n <= MaxWalk
  BY CorrectionsAssumption, LenProperties DEF Whole
<1>2. \A i \in 1..n : c[i] \in V /\ c[i] # NoDoc
  BY <1>1, ElementOfSeq DEF Within
<1>3. d \in V
  BY <1>2
<1> HIDE DEF d
<1>4. /\ b \in Seq(V) /\ Run(Older(db), d, b) /\ l \in 0..MaxWalk
      /\ l < MaxWalk => db[At(d, b)].points = NoDoc
  BY <1>3, BackIs
<1>5. /\ f \in Seq(V) /\ Run(Newer(db), d, f) /\ m \in 0..MaxWalk
      /\ m < MaxWalk => \A e \in V : db[e].points # At(d, f)
  BY <1>3, ForthIs
<1>6. q \in Seq(V) /\ Parts(q, b, d, f)
  BY <1>3, <1>4, <1>5, ChainParts DEF ChainOf
<1> HIDE DEF b, f, q
<1>7. l < k /\ \A i \in 1..l : b[i] = c[k - i]
  BY <1>1, <1>4, BackStays DEF d
<1>8. m <= n - k /\ \A i \in 1..m : f[i] = c[k + i]
  BY <1>1, <1>5, ForthStays DEF d
<1>9. l \in Nat /\ m \in Nat /\ l < MaxWalk /\ m < MaxWalk
  <2>1. /\ l \in 0..MaxWalk /\ m \in 0..MaxWalk /\ MaxWalk \in Nat
        /\ n \in Nat /\ n <= MaxWalk /\ k \in 1..n /\ l < k /\ m <= n - k
    BY <1>1, <1>4, <1>5, <1>7, <1>8
  <2> QED BY ONLY <2>1
<1>10. At(d, b) = c[k - l] /\ At(d, f) = c[k + m]
  <2>1. (l # 0 => l \in 1..l) /\ (m # 0 => m \in 1..m) /\ k - 0 = k /\ k + 0 = k
    BY <1>1, <1>9
  <2> QED BY <1>7, <1>8, <2>1 DEF At, d
<1>11. db[c[k - l]].points = NoDoc /\ \A e \in V : db[e].points # c[k + m]
  BY <1>4, <1>5, <1>9, <1>10
<1> HIDE DEF l, m, n
<1>12. l = k - 1
  <2> SUFFICES ASSUME l # k - 1 PROVE FALSE
    OBVIOUS
  <2> DEFINE j == k - l
  <2>1. j \in 2..n /\ j - 1 \in 1..n
    BY <1>1, <1>7, <1>9
  <2> HIDE DEF j
  <2>2. db[c[j]].points = c[j - 1]
    BY <2>1 DEF Whole, n
  <2> QED BY <1>2, <1>11, <2>1, <2>2 DEF j
<1>13. m = n - k
  <2> SUFFICES ASSUME m # n - k PROVE FALSE
    OBVIOUS
  <2> DEFINE j == k + m + 1
  <2>1. j \in 2..n /\ j \in 1..n /\ j - 1 = k + m
    BY <1>1, <1>8, <1>9
  <2> HIDE DEF j
  <2>2. db[c[j]].points = c[j - 1]
    BY <2>1 DEF Whole, n
  <2> QED BY <1>2, <1>11, <2>1, <2>2
<1>14. Len(q) = n
  <2>1. Len(q) = l + 1 + m
    BY <1>6 DEF Parts, l, m
  <2> QED BY <1>1, <1>12, <1>13, <2>1
<1>15. /\ \A i \in 1..l : q[i] = b[l + 1 - i]
       /\ q[l + 1] = d
       /\ \A i \in 1..m : q[l + 1 + i] = f[i]
  BY <1>6 DEF Parts, l, m
<1>16. ASSUME NEW i \in 1..n
       PROVE  q[i] = c[i]
  <2>1. CASE i <= l
    <3> DEFINE j == l + 1 - i
    <3>1. i \in 1..l /\ j \in 1..l /\ k - j = i
      BY <1>1, <1>9, <1>12, <2>1
    <3>2. q[i] = b[j]
      BY <1>15, <3>1
    <3> HIDE DEF j
    <3> QED BY <1>7, <3>1, <3>2
  <2>2. CASE i = l + 1
    <3>1. i = k
      BY <1>1, <1>12, <2>2
    <3> QED BY <1>15, <2>2, <3>1 DEF d
  <2>3. CASE ~ (i <= l) /\ i # l + 1
    <3> DEFINE j == i - (l + 1)
    <3>1. j \in 1..m /\ l + 1 + j = i /\ k + j = i
      BY <1>1, <1>9, <1>12, <1>13, <2>3
    <3> HIDE DEF j
    <3>2. q[i] = f[j]
      BY <1>15, <3>1
    <3> QED BY <1>8, <3>1, <3>2
  <2> QED BY <2>1, <2>2, <2>3
<1>17. q = c
  BY <1>1, <1>6, <1>14, <1>16, SeqEqual DEF n
<1> QED BY <1>17 DEF q, d

(***************************************************************************)
(* Whatever the corpus, chain_of() returns a whole chain, from a document  *)
(* that supersedes none to one that none supersedes, unless the chain      *)
(* branches or is longer than the walk,                                    *)
(***************************************************************************)
THEOREM ChainsAreWhole ==
  Spec => [](Linear(rows) =>
               \A d \in DOMAIN rows :
                 Len(ChainOf(rows, d)) <= MaxWalk => Whole(rows, ChainOf(rows, d)))
<1>1. IInv => Within(rows)
  BY CorrectionsAssumption DEF IInv, Typed, TypeOK, Within
<1>2. IInv => (Linear(rows) =>
                 \A d \in DOMAIN rows :
                   Len(ChainOf(rows, d)) <= MaxWalk => Whole(rows, ChainOf(rows, d)))
  BY <1>1, FoundWhole
<1> QED BY <1>2, InvariantHolds, PTL

(***************************************************************************)
(* and the same one for every document of it.                              *)
(***************************************************************************)
THEOREM ChainsAreTheSame == Spec => []SameChain
<1>1. IInv => SameChain
  <2> SUFFICES ASSUME IInv, Linear(rows), NEW d \in DOMAIN rows,
                      Len(ChainOf(rows, d)) <= MaxWalk, NEW n \in DOMAIN ChainOf(rows, d)
               PROVE  ChainOf(rows, ChainOf(rows, d)[n]) = ChainOf(rows, d)
    BY DEF SameChain
  <2> DEFINE c == ChainOf(rows, d)
  <2>1. Within(rows)
    BY CorrectionsAssumption DEF IInv, Typed, TypeOK, Within
  <2>2. Whole(rows, c)
    BY <2>1, FoundWhole
  <2>3. c \in Seq(DOMAIN rows) /\ Len(c) <= MaxWalk /\ n \in DOMAIN c
    BY <2>2 DEF Whole
  <2> HIDE DEF c
  <2>4. n \in 1..Len(c)
    BY <2>3, LenProperties
  <2>5. ChainOf(rows, c[n]) = c
    BY <2>1, <2>2, <2>3, <2>4, FoundFromAny
  <2> QED BY <2>5 DEF c
<1> QED BY <1>1, InvariantHolds, PTL
=============================================================================
