------------------------------ MODULE EmbedJob ------------------------------
(***************************************************************************)
(* The job that fills the vector store, scripts/embed_sections.py with     *)
(* retrieval/vectors.py: hours of paid single requests, which may be       *)
(* killed and is started again, while the builder may replace the          *)
(* database that the job has read its sections from.                       *)
(*                                                                         *)
(* The database is what a finished run of the builder leaves (BuildIndex   *)
(* has the runs): the texts of the sections and the effective documents.   *)
(* A section keeps its id from build to build, whatever its text becomes.  *)
(* Left out: the pauses of Pacer and between two attempts, --dry-run and a *)
(* missing key, which change nothing.                                      *)
(***************************************************************************)
EXTENDS Integers, FiniteSets

CONSTANTS
  Docs, Corps,
  CorpOf,        \* CorpOf[d]: the company of a document
  Annual,        \* the documents that are annual reports
  Rank,          \* Rank[d]: their order by year and date, ties as SQLite breaks them
  Sections,      \* section_ids
  DocOf,         \* DocOf[s]: the document of a section
  RegistryTables,\* sections of the content class table_registry
  Texts,         \* versions of texts
  Databases,     \* what a finished run of the builder may leave
  GoldCorps,     \* GOLDSET_CORPS
  Models,        \* embedding models
  Errors,        \* the marks that the text of an exception may have
  Limits,        \* --limit, 0 for none
  Attempts,      \* requests for one section
  MaxFail,       \* failed sections after which a job without a success stops
  SaveEvery,     \* --save-every
  MaxJobs,       \* jobs
  MaxBuilds,     \* further builds
  None

\* What the text of an exception has if the failure will pass: an error of
\* transport, a status 429 or 50x, but also any body that speaks of 500 tokens.
PassingMarks == {"429", "transport", "5xx", " 50"}

ASSUME EmbedAssumption ==
  /\ CorpOf \in [Docs -> Corps]
  /\ Annual \subseteq Docs
  /\ Rank \in [Docs -> Nat]
  /\ \A d, e \in Docs : CorpOf[d] = CorpOf[e] /\ Rank[d] = Rank[e] => d = e
  /\ DocOf \in [Sections -> Docs]
  /\ IsFiniteSet(Sections)
  /\ RegistryTables \subseteq Sections
  /\ None \notin Texts \cup Models
  /\ Databases \subseteq [text : [Sections -> Texts \cup {None}], effective : SUBSET Docs]
  /\ Errors \subseteq SUBSET PassingMarks
  /\ Limits \subseteq Nat
  /\ {Attempts, MaxFail, SaveEvery} \subseteq Nat \ {0}
  /\ MaxJobs \in Nat /\ MaxBuilds \in Nat

VARIABLES
  database,      \* the database of sections, as committed
  builds,        \* how often it has been built again
  vectors,       \* the table embedding: the model of each section's vector
  job            \* the process of the job

embedVars == <<database, builds, vectors, job>>

Scopes == {"goldset-corps", "all-annual", "all"}
Running == {"request", "save", "last"}
-----------------------------------------------------------------------------
Present(db) == {s \in Sections : db.text[s] # None}

\* The latest effective annual report of each company.
Latest(db) ==
  LET reports == Annual \cap db.effective
  IN {d \in reports : \A e \in reports : CorpOf[e] = CorpOf[d] => Rank[e] <= Rank[d]}

\* The SELECT of each scope.
Rows(db, scope) ==
  {s \in Present(db) :
     \/ scope = "goldset-corps" /\ DocOf[s] \in Latest(db) /\ CorpOf[DocOf[s]] \in GoldCorps
     \/ scope = "all-annual" /\ DocOf[s] \in Latest(db)
     \/ scope = "all" /\ DocOf[s] \in db.effective /\ s \notin RegistryTables}

\* Mutants': a job begins from the start, or takes any model's vectors for its own.
NothingExists(model) == {}
ExistingOfAnyModel(model) == {s \in Sections : vectors[s] # None}

\* existing_ids()
Existing(model) == {s \in Sections : vectors[s] = model}

Retryable(marks) == marks # {}

\* Mutants': all is saved at the end; a job goes on without any success.
SaveAtEnd(pending) == FALSE
NeverHopeless(failed) == FALSE

SaveDue(pending) == Cardinality(pending) >= SaveEvery
Hopeless(failed) == failed >= MaxFail /\ job.ok = 0

MoreAttempts == job.tries < Attempts - 1

\* save_vectors(): INSERT OR REPLACE by section_id, one commit.
Saved(model, pending) == [s \in Sections |-> IF s \in pending THEN model ELSE vectors[s]]
-----------------------------------------------------------------------------
NoJob ==
  [pc |-> "none", jobs |-> 0, model |-> None, rows |-> {}, first |-> {}, todo |-> {},
   whole |-> FALSE, pending |-> {}, ok |-> 0, failed |-> 0, tries |-> 0]

EmbedInit ==
  /\ database \in Databases
  /\ builds = 0
  /\ vectors = [s \in Sections |-> None]
  /\ job = NoJob

\* The process is over; what it was about is history.
Over(how) ==
  IF how = "done" THEN [NoJob EXCEPT !.pc = how, !.jobs = job.jobs, !.model = job.model,
                                     !.rows = job.rows, !.whole = job.whole]
  ELSE [NoJob EXCEPT !.pc = how, !.jobs = job.jobs]

\* All rows are read at once; the database may be another one afterwards.
StartJob(scope, model, limit) ==
  /\ job.pc \notin Running
  /\ job.jobs < MaxJobs
  /\ LET rows == Rows(database, scope)
         left == rows \ Existing(model)
     IN \E first \in SUBSET left :
          /\ IF limit = 0 \/ limit >= Cardinality(left) THEN first = left
             ELSE Cardinality(first) = limit
          /\ job' = [pc |-> IF first = {} THEN "done" ELSE "request", jobs |-> job.jobs + 1,
                     model |-> model, rows |-> rows, first |-> first, todo |-> first,
                     whole |-> first = left, pending |-> {}, ok |-> 0, failed |-> 0, tries |-> 0]
  /\ UNCHANGED <<database, builds, vectors>>

\* The sections come in some fixed order.
Current == CHOOSE s \in job.todo : TRUE

AfterThis == IF job.todo = {Current} THEN "last" ELSE "request"

Answered ==
  /\ job.pc = "request"
  /\ LET pending == job.pending \cup {Current}
     IN job' = [job EXCEPT !.pc = IF SaveDue(pending) THEN "save" ELSE AfterThis,
                           !.todo = @ \ {Current}, !.pending = pending, !.ok = @ + 1,
                           !.tries = 0]
  /\ UNCHANGED <<database, builds, vectors>>

Retry(marks) ==
  /\ job.pc = "request" /\ Retryable(marks)
  /\ MoreAttempts
  /\ job' = [job EXCEPT !.tries = @ + 1]
  /\ UNCHANGED <<database, builds, vectors>>

\* The section is skipped: the error is permanent, or this was the last attempt.
GiveUp(marks) ==
  /\ job.pc = "request"
  /\ Retryable(marks) => ~ MoreAttempts
  /\ job' = [job EXCEPT !.pc = IF Hopeless(job.failed + 1) THEN "last" ELSE AfterThis,
                        !.todo = @ \ {Current}, !.failed = @ + 1, !.tries = 0]
  /\ UNCHANGED <<database, builds, vectors>>

Save ==
  /\ job.pc = "save"
  /\ vectors' = Saved(job.model, job.pending)
  /\ job' = [job EXCEPT !.pc = IF job.todo = {} THEN "last" ELSE "request", !.pending = {}]
  /\ UNCHANGED <<database, builds>>

\* A mutant's: it waits for the sections that failed.
FinishWhenComplete ==
  /\ job.pc = "last" /\ job.failed = 0
  /\ vectors' = Saved(job.model, job.pending)
  /\ job' = Over("done")
  /\ UNCHANGED <<database, builds>>

\* The rest is saved, the exit status says whether a section failed.
Finish ==
  /\ job.pc = "last"
  /\ vectors' = Saved(job.model, job.pending)
  /\ job' = Over(IF job.failed = 0 THEN "done" ELSE "failed")
  /\ UNCHANGED <<database, builds>>

\* The answers not yet saved are lost with the process.
KillJob ==
  /\ job.pc \in Running
  /\ job' = Over("dead")
  /\ UNCHANGED <<database, builds, vectors>>

JobStep ==
  \/ Answered
  \/ \E marks \in Errors : Retry(marks) \/ GiveUp(marks)
  \/ Save
  \/ Finish

EmbedNext ==
  \/ JobStep
  \/ KillJob
  \/ \E scope \in Scopes, model \in Models, limit \in Limits : StartJob(scope, model, limit)

\* A finished run of the builder, which does not know of the vectors.
Rebuild(new) ==
  /\ builds < MaxBuilds
  /\ new # database
  /\ database' = new
  /\ builds' = builds + 1
  /\ UNCHANGED <<vectors, job>>
-----------------------------------------------------------------------------
EmbedTypeOK ==
  /\ database \in Databases
  /\ builds \in 0..MaxBuilds
  /\ vectors \in [Sections -> Models \cup {None}]
  /\ job \in [pc : Running \cup {"none", "done", "failed", "dead"}, jobs : 0..MaxJobs,
              model : Models \cup {None}, rows : SUBSET Sections, first : SUBSET Sections,
              todo : SUBSET Sections, whole : BOOLEAN, pending : SUBSET Sections,
              ok : Nat, failed : Nat, tries : 0..(Attempts - 1)]

(***************************************************************************)
(* embed_sections.py:222: a job without --limit that ends with status 0    *)
(* leaves a vector of its own model for every section of its scope as it   *)
(* was read, whichever jobs of whatever models were killed or failed       *)
(* before it.                                                              *)
(***************************************************************************)
DoneIsCovered ==
  job.pc = "done" /\ job.whole => \A s \in job.rows : vectors[s] = job.model

(***************************************************************************)
(* "resumable": every answer that was paid for is in the store or among    *)
(* the at most --save-every ones that a kill would lose.                   *)
(***************************************************************************)
AnswersKept ==
  job.pc \in Running =>
    /\ job.ok = Cardinality(job.pending) + Cardinality(job.first \cap Existing(job.model))
    /\ Cardinality(job.pending) <= SaveEvery

(***************************************************************************)
(* A job with a wrong key or model, none of whose requests succeeds, stops *)
(* after MaxFail sections, whatever the size of its scope.                 *)
(***************************************************************************)
HopelessJobStops ==
  job.ok = 0 => job.failed <= MaxFail

(***************************************************************************)
(* No section is embedded that has a vector of the job's model already, by *)
(* this job or by one before it.                                           *)
(***************************************************************************)
NothingPaidTwice ==
  [][\A s \in Sections : s \in job'.pending \ job.pending => vectors[s] # job.model]_embedVars
=============================================================================
