---------------------------- MODULE Corrections ----------------------------
(***************************************************************************)
(* The correction chains of store/corrections.py.  A correction names the  *)
(* day its original was submitted, a holding report the day of the report  *)
(* before it; resolve_chains() turns both into pointers between the        *)
(* documents of the database, and marks as effective, that is counted and  *)
(* citable, the documents nothing points to.  It is one transaction of the *)
(* only writer, so one step.                                               *)
(*                                                                         *)
(* Runs of the builder with --limit or --groups load a corpus in parts,    *)
(* and each ends with a resolution; one that is interrupted leaves         *)
(* documents without.  Dates are day numbers, 0 is a missing date, and all *)
(* documents are of one company: no query leaves the company of its        *)
(* document.                                                               *)
(***************************************************************************)
EXTENDS Integers, Sequences, FiniteSets, FiniteSetsExt, SequencesExt

CONSTANTS
  Docs,        \* document ids
  NoDoc,       \* a null supersedes_doc_id
  Contents,    \* what the parsers may find in a document
  Window,      \* date_window
  Ratio,       \* Ratio[c][d]: how similar d's type is to what c says it
               \* corrects, in percent
  MaxWalk      \* the 20 steps of chain_of()

ASSUME CorrectionsAssumption ==
  /\ NoDoc \notin Docs
  /\ Contents \subseteq [group : {"exchange", "holding"}, rcept : Nat, corr : BOOLEAN,
                         target : Nat, report : Nat, prev : Nat]
  /\ Window \in Nat
  /\ Ratio \in [Docs -> [Docs -> 0..100]]
  /\ MaxWalk \in Nat

VARIABLES
  rows,        \* the documents of the database: what was parsed, the pointer
               \* supersedes_doc_id and the flag is_effective
  resolved     \* no document was loaded since the last resolution

vars == <<rows, resolved>>
-----------------------------------------------------------------------------
\* The n-th date that _find_original() tries for t: t, t + 1, t - 1, t + 2 ...
DateTried(t, n) == IF n % 2 = 0 THEN t - n \div 2 ELSE t + (n + 1) \div 2

CandidatesAndItself(db, c, t) ==
  {d \in DOMAIN db : db[d].group = db[c].group /\ db[d].rcept = t /\ ~ db[d].corr}

\* The documents that could be what c corrects, submitted on day t.
Candidates(db, c, t) ==
  {d \in DOMAIN db \ {c} :
     db[d].group = db[c].group /\ db[d].rcept = t /\ ~ db[d].corr}

Tries(db, c) ==
  {n \in 0..(2 * Window) : Candidates(db, c, DateTried(db[c].target, n)) # {}}

MostSimilar(c, S) == {d \in S : \A e \in S : Ratio[c][d] >= Ratio[c][e]}

\* The results _find_original() may have: which of several equally similar
\* candidates comes first is up to the database.
Originals(db, c) ==
  IF db[c].target = 0 \/ Tries(db, c) = {} THEN {}
  ELSE MostSimilar(c, Candidates(db, c, DateTried(db[c].target, Min(Tries(db, c)))))

\* The reports of the day before, whoever reported: the query has LIMIT 1.
PrevReports(db, h) ==
  {d \in DOMAIN db \ {h} : db[d].group = "holding" /\ db[d].report = db[h].prev}

\* The documents that d may be made to supersede.
Found(db, d) ==
  IF db[d].group # "holding" THEN Originals(db, d)
  ELSE IF db[d].prev = 0 THEN {} ELSE PrevReports(db, d)

OnlyUnlinked(db, d) ==
  IF db[d].points = NoDoc /\ Found(db, d) # {} THEN Found(db, d) ELSE {db[d].points}

\* The pointers d may have after a resolution: one that isn't found again stays.
Pointers(db, d) == IF Found(db, d) # {} THEN Found(db, d) ELSE {db[d].points}

Pointing(db, links) == {d \in DOMAIN db : links[d] # NoDoc}

\* The documents a supersedes_doc_id names.
Superseded(db, links) == {links[d] : d \in DOMAIN db} \ {NoDoc}
-----------------------------------------------------------------------------
Init ==
  /\ rows = [d \in {} |-> {}]
  /\ resolved = FALSE

\* store(): the row of a document that wasn't in the database.
Load(d) ==
  /\ d \notin DOMAIN rows
  /\ \E c \in Contents :
       rows' = [e \in DOMAIN rows \cup {d} |->
                  IF e # d THEN rows[e]
                  ELSE [group |-> c.group, rcept |-> c.rcept, corr |-> c.corr,
                        target |-> c.target, report |-> c.report, prev |-> c.prev,
                        points |-> NoDoc, eff |-> TRUE]]
  /\ resolved' = FALSE

\* resolve_chains()
Resolve ==
  \E links \in [DOMAIN rows -> Docs \cup {NoDoc}] :
    /\ \A d \in DOMAIN rows : links[d] \in Pointers(rows, d)
    /\ rows' = [d \in DOMAIN rows |->
                  [rows[d] EXCEPT !.points = links[d],
                                  !.eff = d \notin Superseded(rows, links)]]
    /\ resolved' = TRUE

Next == Resolve \/ \E d \in Docs : Load(d)

Spec == Init /\ [][Next]_vars
-----------------------------------------------------------------------------
\* Turns of the two loops of chain_of(): to the document that is superseded,
\* and to one that supersedes; of several, the one LIMIT 1 returns.
BackFrom(db, d, walk) ==
  LET node == IF walk = <<>> THEN d ELSE Last(walk)
      next == db[node].points
  IN  IF next = NoDoc \/ next \in Range(walk) THEN walk ELSE Append(walk, next)

ForthFrom(db, d, walk) ==
  LET node == IF walk = <<>> THEN d ELSE Last(walk)
      next == {e \in DOMAIN db : db[e].points = node}
      e    == CHOOSE e \in next : TRUE
  IN  IF next = {} \/ e \in Range(walk) THEN walk ELSE Append(walk, e)

\* chain_of(): the documents that d supersedes, directly or not, newest first,
\* and those that supersede d, oldest first.
Back(db, d) ==
  LET walk[n \in 0..MaxWalk] == IF n = 0 THEN <<>> ELSE BackFrom(db, d, walk[n - 1])
  IN  walk[MaxWalk]

Forth(db, d) ==
  LET walk[n \in 0..MaxWalk] == IF n = 0 THEN <<>> ELSE ForthFrom(db, d, walk[n - 1])
  IN  walk[MaxWalk]

ForthOnly(db, d) == <<d>> \o Forth(db, d)

ChainOf(db, d) == Reverse(Back(db, d)) \o <<d>> \o Forth(db, d)
-----------------------------------------------------------------------------
(***************************************************************************)
(* Types: a pointer names another document of the database.                *)
(***************************************************************************)
TypeOK ==
  /\ DOMAIN rows \subseteq Docs
  /\ \A d \in DOMAIN rows :
       /\ rows[d].points \in (DOMAIN rows \cup {NoDoc}) \ {d}
       /\ rows[d].eff \in BOOLEAN
  /\ resolved \in BOOLEAN

\* The day a document is of.
DayOf(db, d) == IF db[d].group = "holding" THEN db[d].report ELSE db[d].rcept

\* Every document is of a later day than the one it supersedes.
Chronological(db) ==
  \A d \in DOMAIN db :
    db[d].points # NoDoc => DayOf(db, db[d].points) < DayOf(db, d)

\* A set of documents that the pointers do not leave.
Closed(db, S) == \A f \in S : db[f].points # NoDoc => db[f].points \in S

\* e is reached from d along one or more pointers.
Supersedes(db, d, e) ==
  /\ db[d].points # NoDoc
  /\ \A S \in SUBSET DOMAIN db : db[d].points \in S /\ Closed(db, S) => e \in S

(***************************************************************************)
(* AC-C3: no information is lost: after a resolution each document that is *)
(* not counted any more is superseded, over any number of corrections, by  *)
(* one that is.                                                            *)
(***************************************************************************)
NothingLost ==
  resolved /\ Chronological(rows) =>
    \A e \in DOMAIN rows :
      rows[e].eff \/ \E d \in DOMAIN rows : rows[d].eff /\ Supersedes(rows, d, e)

(***************************************************************************)
(* AC-S4: after a resolution the pointers are those that a resolution of   *)
(* the same documents from nothing could have set, in whatever parts the   *)
(* corpus was loaded and however often it was resolved in between: no      *)
(* pointer remains that was found when nearer candidates were missing.     *)
(***************************************************************************)
HistoryFree ==
  resolved =>
    \A d \in DOMAIN rows :
      IF Found(rows, d) = {} THEN rows[d].points = NoDoc
      ELSE rows[d].points \in Found(rows, d)

\* No document is superseded by two, and no document by itself over others.
Linear(db) ==
  /\ \A d, e \in DOMAIN db : db[d].points = db[e].points /\ db[d].points # NoDoc => d = e
  /\ \A d \in DOMAIN db : ~ Supersedes(db, d, d)

(***************************************************************************)
(* chain_of() returns the whole chain, oldest first (corrections.py:154):  *)
(* unless a chain branches or is longer than the walk, every document of   *)
(* it has the same chain.                                                  *)
(***************************************************************************)
SameChain ==
  Linear(rows) =>
    \A d \in DOMAIN rows :
      LET chain == ChainOf(rows, d)
      IN  Len(chain) <= MaxWalk => \A n \in DOMAIN chain : ChainOf(rows, chain[n]) = chain

(***************************************************************************)
(* D3 of the technical specification: after a resolution only the latest   *)
(* version of a document is counted, so not two corrections of the same    *)
(* original.                                                               *)
(***************************************************************************)
OnlyLatestCounted ==
  resolved =>
    \A d, e \in DOMAIN rows :
      /\ d # e /\ rows[d].corr /\ rows[e].corr
      /\ rows[d].points = rows[e].points /\ rows[d].points # NoDoc
      => ~ (rows[d].eff /\ rows[e].eff)
=============================================================================
