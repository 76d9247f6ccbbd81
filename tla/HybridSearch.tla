---------------------------- MODULE HybridSearch ----------------------------
(***************************************************************************)
(* A question that is answered by search: the server has loaded the        *)
(* vectors when it was started, asks the full-text index (or the legacy    *)
(* one in its memory), then a remote service for the question's embedding, *)
(* fuses both rankings and reads the missing texts from the database.  The *)
(* builder and the embedding job go on meanwhile.                          *)
(***************************************************************************)
EXTENDS EmbedJob, Retrieval

CONSTANTS
  YearOf,        \* YearOf[d]: the base year of a document
  EmptyTexts,    \* sections whose text is empty, all is in their tables
  ServerModel,   \* the model of the server's configuration
  Setups,        \* what a server finds: its index, whether DART_HYBRID and a key are set
  Questions      \* the companies and years a question names, {} for any

ASSUME HybridAssumption ==
  /\ DOMAIN YearOf = Docs
  /\ EmptyTexts \subseteq Sections
  /\ ServerModel \in Models
  /\ Setups \subseteq [index : {"fts", "pickle", None}, hybrid : BOOLEAN]
  /\ \A q \in Questions : q.corps \subseteq Corps

VARIABLES
  server,        \* index: "fts", "pickle" or None; pickled: the database the
                 \* pickle was made of; memory: the sections of the vectors
  ask            \* the request; seen is history: the databases of its time

vars == <<embedVars, server, ask>>

NoAsk == [pc |-> "none", began |-> 0, question |-> None, bm25 |-> <<>>, texts |-> None,
          left |-> <<>>, out |-> <<>>, seen |-> {}]
-----------------------------------------------------------------------------
\* VectorStore.load(): of one model's rows, which have one dimension.
Loaded(hybrid) == IF hybrid THEN Existing(ServerModel) ELSE {}

StartServer(setup) ==
  /\ server.pc = "off"
  /\ server' = [pc |-> "up", index |-> setup.index, memory |-> Loaded(setup.hybrid),
                pickled |-> IF setup.index = "pickle" THEN database ELSE None]
  /\ UNCHANGED <<embedVars, ask>>

\* A section that may be cited.
Served(db, s) == db.text[s] # None /\ DocOf[s] \in db.effective

\* What is searched, and where its texts come from.
Source == IF server.index = "pickle" THEN server.pickled ELSE database

Named(question, s) ==
  /\ question.corps # {} => CorpOf[DocOf[s]] \in question.corps
  /\ question.years # {} => YearOf[DocOf[s]] \in question.years

Candidates(question) == {s \in Sections : Served(Source, s) /\ Named(question, s)}

\* A mutant's: without the filters.
AnyNeighbour(question) == server.memory

\* The vectors filter by what was stored with them.
Neighbours(question) == {s \in server.memory : Named(question, s)}

\* What a ranking of BM25 is without the vectors: no text is looked up.
Plainly(bm25, texts) == [i \in DOMAIN bm25 |-> [section |-> bm25[i], text |-> texts[bm25[i]]]]

\* Without an index there is no search, whatever vectors there are; without
\* vectors it is that of the index.
Search(question, bm25) ==
  /\ server.pc = "up" /\ ask.pc = "none"
  /\ bm25 \in Rankings(Candidates(question), IF server.memory = {} THEN TopK ELSE ArmK)
  /\ server.index = None => bm25 = <<>>
  /\ LET ends == server.index = None \/ server.memory = {}
     IN ask' = [pc |-> IF ends THEN "replied" ELSE "embed", began |-> builds,
                question |-> question, bm25 |-> bm25, texts |-> Source.text, left |-> <<>>,
                out |-> IF ends THEN Plainly(bm25, Source.text) ELSE <<>>,
                seen |-> {database}]
  /\ UNCHANGED <<embedVars, server>>

\* The question can't be embedded, or nothing is near it: BM25 alone.
Degrade ==
  /\ ask.pc = "embed"
  /\ ask' = [ask EXCEPT !.pc = "replied", !.texts = None,
                        !.out = Plainly(Cut(ask.bm25, TopK), ask.texts)]
  /\ UNCHANGED <<embedVars, server>>

Fuse(vec) ==
  /\ ask.pc = "embed"
  /\ vec \in FullRankings(Neighbours(ask.question), ArmK)
  /\ vec # <<>>
  /\ ask' = [ask EXCEPT !.pc = "fetch", !.left = Chosen(ask.bm25, vec)]
  /\ UNCHANGED <<embedVars, server>>

\* Mutants': fetch_doc() without d.is_effective=1; a hit without a text is kept.
Fetchable(s) == database.text[s] # None
AlwaysThere(s) == TRUE

\* fetch_doc() finds the section, in an effective document.
Fetched(s) == Served(database, s)

HasText(s) == Contains(ask.bm25, s) /\ s \notin EmptyTexts

\* One hit of the fused ranking: those without a text are read, or left out.
Fetch ==
  /\ ask.pc = "fetch" /\ ask.left # <<>>
  /\ LET s == Head(ask.left)
         text == IF HasText(s) THEN ask.texts[s] ELSE database.text[s]
     IN ask' = [ask EXCEPT !.left = Tail(@),
                           !.out = IF HasText(s) \/ Fetched(s)
                                   THEN Append(@, [section |-> s, text |-> text]) ELSE @]
  /\ UNCHANGED <<embedVars, server>>

Reply ==
  /\ ask.pc = "fetch" /\ ask.left = <<>>
  /\ ask' = [ask EXCEPT !.pc = "replied", !.texts = None]
  /\ UNCHANGED <<embedVars, server>>

Build(new) ==
  /\ Rebuild(new)
  /\ ask' = IF ask.pc \in {"embed", "fetch"} THEN [ask EXCEPT !.seen = @ \cup {new}] ELSE ask
  /\ UNCHANGED server
-----------------------------------------------------------------------------
Init ==
  /\ EmbedInit
  /\ server = [pc |-> "off", index |-> None, pickled |-> None, memory |-> {}]
  /\ ask = NoAsk

Jobs == EmbedNext /\ UNCHANGED <<server, ask>>

AskStep ==
  \/ Degrade
  \/ \E vec \in FullRankings(Sections, ArmK) : Fuse(vec)
  \/ Fetch
  \/ Reply

Next ==
  \/ Jobs
  \/ \E new \in Databases : Build(new)
  \/ \E setup \in Setups : StartServer(setup)
  \/ \E question \in Questions : \E bm25 \in Rankings(Sections, ArmK) : Search(question, bm25)
  \/ AskStep

Spec == Init /\ [][Next]_vars

\* Every request of the job ends by its own timeout, and the job's pauses do.
FairSpec == Spec /\ WF_vars(JobStep /\ UNCHANGED <<server, ask>>)
-----------------------------------------------------------------------------
Hits == [section : Sections, text : Texts]

TypeOK ==
  /\ EmbedTypeOK
  /\ server \in [pc : {"off", "up"}, index : {"fts", "pickle", None},
                 pickled : Databases \cup {None}, memory : SUBSET Sections]
  /\ ask.pc \in {"none", "embed", "fetch", "replied"}
  /\ ask.out \in Seq(Hits)
  /\ ask.seen \subseteq Databases

(***************************************************************************)
(* doc_search(), "always in the result": whatever the vectors rank above   *)
(* it, the first hit of BM25 is in the reply, since its score decides      *)
(* whether the question is answered at all; unless its text is read from a *)
(* database built after the search, or after the pickle.                   *)
(***************************************************************************)
TopSurvives ==
  /\ ask.pc = "replied" /\ ask.bm25 # <<>>
  /\ \/ ask.bm25[1] \notin EmptyTexts
     \/ server.index = "fts" /\ ask.began = builds
  => \E i \in DOMAIN ask.out : ask.out[i].section = ask.bm25[1]

(***************************************************************************)
(* D3: with the full-text index a reply cites only sections that were of   *)
(* an effective document, with that very text, at some time of the         *)
(* request; though the vectors may be of documents superseded since, and   *)
(* of texts the sections no longer have.                                   *)
(***************************************************************************)
RepliesCurrent ==
  server.index = "fts" =>
    \A i \in DOMAIN ask.out :
      \E db \in ask.seen :
        Served(db, ask.out[i].section) /\ db.text[ask.out[i].section] = ask.out[i].text

(***************************************************************************)
(* A reply has no section twice and none of another company or year than   *)
(* the question names, whichever arm found it.                             *)
(***************************************************************************)
RepliesFit ==
  ask.pc # "none" =>
    \A i \in DOMAIN ask.out :
      /\ Named(ask.question, ask.out[i].section)
      /\ \A j \in DOMAIN ask.out : ask.out[i].section = ask.out[j].section => i = j

(***************************************************************************)
(* A job that isn't killed ends, though every request may be answered      *)
(* with an error that is retried.                                          *)
(***************************************************************************)
JobEnds == job.pc \in Running ~> job.pc \notin Running
=============================================================================
