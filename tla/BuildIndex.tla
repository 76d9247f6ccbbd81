----------------------------- MODULE BuildIndex -----------------------------
(***************************************************************************)
(* The builder, scripts/build_index.py: a process that reads a corpus and  *)
(* commits it document by document, then the chains, the meta data and the *)
(* full-text index.  It may be killed between any two commits and run      *)
(* again, on all documents or on some, over the file it left or over a new *)
(* one, while the corpus changes between runs.                             *)
(*                                                                         *)
(* A database file is an inode: after an unlink whoever has it open goes   *)
(* on with it.  Each action that changes disk is one commit.               *)
(***************************************************************************)
EXTENDS Store

CONSTANTS
  Manifest,    \* the order of the documents in manifest.jsonl
  Groups,      \* doc_groups
  GroupOf,     \* GroupOf[d]: the doc_group of a document
  Corpora,     \* what a run may find: the file of each document or None
  Unparsable,  \* files that make a parser raise
  Universes,   \* what universe.csv may contain: sets of <<name, company>>
  Manual,      \* MANUAL_ALIASES
  Choices,     \* the --groups, --limit, --rebuild and --also-pickle of runs
  BuilderMode, \* the tokenizer of the builder's host
  MaxRuns,     \* runs of the builder
  MaxInodes    \* database files

ASSUME BuildAssumption ==
  /\ Manifest \in Seq(Docs)
  /\ \A d \in Docs : \E i \in DOMAIN Manifest : Manifest[i] = d
  /\ GroupOf \in [Docs -> Groups]
  /\ Choices \subseteq [groups : SUBSET Groups, limit : Nat, rebuild : BOOLEAN, also : BOOLEAN]
  /\ BuilderMode \in Modes
  /\ Corpora \subseteq [Docs -> Files \cup {None}]
  /\ Universes \subseteq SUBSET (Names \X Corps) /\ Manual \subseteq Names \X Corps
  /\ MaxRuns \in Nat /\ MaxInodes \in Nat

VARIABLES
  disk,        \* disk[i]: the committed content of a database file
  path,        \* the inode that --db names, 0 when there is no file
  inodes,      \* the number of files created so far
  corpus,      \* corpus[d]: the file of a document, None when it isn't there
  universe,    \* the rows of universe.csv
  pickle,      \* the legacy index on disk: None or its mode and rows
  builder      \* the process of the builder

fileVars == <<disk, path, inodes, pickle>>
corpusVars == <<corpus, universe>>
buildVars == <<fileVars, corpusVars, builder>>

Inodes == 1..MaxInodes

Steps == {"start", "connect", "schema", "aliases", "load", "resolve", "meta", "drop", "create",
          "scan", "insert", "commit", "count", "pickle"}

Ended == {"none", "done", "dead"}

DB == disk[builder.inode]
-----------------------------------------------------------------------------
BuildInit ==
  /\ disk = [i \in Inodes |-> EmptyFile]
  /\ path = 0
  /\ inodes = 0
  /\ corpus = [d \in Docs |-> None]
  /\ universe = {}
  /\ pickle = None
  /\ builder = [pc |-> "none", runs |-> 0, inode |-> 0, rebuild |-> FALSE, todo |-> {},
                loaded |-> {}, also |-> FALSE, found |-> {}]

\* The process is over, its connection is closed.
Over(how) ==
  [pc |-> how, runs |-> builder.runs, inode |-> 0, rebuild |-> FALSE, todo |-> {},
   loaded |-> {}, also |-> FALSE, found |-> {}]

Goto(step) ==
  builder' = IF step \in Ended THEN Over(step) ELSE [builder EXCEPT !.pc = step]

\* One commit of the builder, after which it goes on with a step.
Commit(db, step) ==
  /\ disk' = [disk EXCEPT ![builder.inode] = Committed(db, "builder")]
  /\ Goto(step)
  /\ UNCHANGED <<path, inodes, pickle, corpusVars>>

\* The lines of the manifest whose documents are of the groups and, counted
\* per group, among the first of them.
Selected(files, choice) ==
  LET present == {i \in DOMAIN Manifest :
                    files[Manifest[i]] # None /\ GroupOf[Manifest[i]] \in choice.groups}
      Before(i) == {j \in present : j < i /\ GroupOf[Manifest[j]] = GroupOf[Manifest[i]]}
  IN {i \in present : choice.limit = 0 \/ Cardinality(Before(i)) < choice.limit}

\* The arguments, the corpus as this run finds it and the selection of documents.
Start(choice) ==
  /\ builder.pc \in Ended
  /\ builder.runs < MaxRuns
  /\ choice.rebuild => inodes < MaxInodes
  /\ corpus' \in Corpora
  /\ universe' \in Universes
  /\ builder' = [builder EXCEPT !.pc = "start", !.runs = @ + 1, !.rebuild = choice.rebuild,
                                !.todo = Selected(corpus', choice), !.also = choice.also]
  /\ UNCHANGED fileVars

\* --rebuild unlinks the database; whoever has it open keeps it.
Unlink ==
  /\ builder.pc = "start"
  /\ path' = IF builder.rebuild THEN 0 ELSE path
  /\ Goto("connect")
  /\ UNCHANGED <<disk, inodes, pickle, corpusVars>>

\* connect() for writing creates a file where there is none.
Opened ==
  /\ path = 0 => inodes < MaxInodes
  /\ inodes' = IF path = 0 THEN inodes + 1 ELSE inodes
  /\ path' = IF path = 0 THEN inodes' ELSE path

Connect ==
  /\ builder.pc = "connect"
  /\ Opened
  /\ builder' = [builder EXCEPT !.pc = "schema", !.inode = path']
  /\ UNCHANGED <<disk, pickle, corpusVars>>

\* init_schema(), each table a commit of its own: those before the sections are
\* of no use to a reader, those after them only to the builder, which creates
\* what is missing in its next run.
CreateTables ==
  /\ builder.pc = "schema"
  /\ ~ DB.schema
  /\ ~ LockedOut(DB, "builder")
  /\ Commit(WithSchema(DB), "aliases")

TablesAreThere ==
  /\ builder.pc = "schema"
  /\ DB.schema
  /\ Goto("aliases")
  /\ UNCHANGED <<fileVars, corpusVars>>

LoadAliases ==
  /\ builder.pc = "aliases"
  /\ ~ LockedOut(DB, "builder")
  /\ LET names == NamesOf(universe, Manual)
     IN /\ ~ AliasConflict(DB, names)
        /\ Commit(WithCompanies(DB, names), "load")

\* The exception leaves main(): the run ends, nothing of the aliases is committed.
ConflictOfAliases ==
  /\ builder.pc = "aliases"
  /\ AliasConflict(DB, NamesOf(universe, Manual))
  /\ builder' = Over("dead")
  /\ UNCHANGED <<fileVars, corpusVars>>

FirstLine == CHOOSE i \in builder.todo : \A j \in builder.todo : i <= j

Current == Manifest[FirstLine]

NextDoc(loaded) ==
  builder' = [builder EXCEPT !.todo = @ \ {FirstLine}, !.loaded = loaded,
                             !.pc = IF builder.todo = {FirstLine} THEN "resolve" ELSE "load"]

LoadDoc ==
  /\ builder.pc = "load" /\ builder.todo # {}
  /\ ~ LockedOut(DB, "builder")
  /\ corpus[Current] \notin Unparsable
  /\ Storable(DB, Current)
  /\ disk' = [disk EXCEPT ![builder.inode] =
                Committed(Stored(Cleared(DB, Current), Current, corpus[Current]), "builder")]
  /\ NextDoc(builder.loaded \cup {Current})
  /\ UNCHANGED <<path, inodes, pickle, corpusVars>>

\* The parser raises, nothing was begun.
ParseFails ==
  /\ builder.pc = "load" /\ builder.todo # {}
  /\ corpus[Current] \in Unparsable
  /\ NextDoc(builder.loaded)
  /\ UNCHANGED <<fileVars, corpusVars>>

\* clear_doc() or store() raises: the transaction of both is rolled back.
StoreFails ==
  /\ builder.pc = "load" /\ builder.todo # {}
  /\ corpus[Current] \notin Unparsable
  /\ ~ Storable(DB, Current) \/ LockedOut(DB, "builder")
  /\ NextDoc(builder.loaded)
  /\ UNCHANGED <<fileVars, corpusVars>>

NothingSelected ==
  /\ builder.pc = "load" /\ builder.todo = {}
  /\ Goto("resolve")
  /\ UNCHANGED <<fileVars, corpusVars>>

ResolveChains ==
  /\ builder.pc = "resolve"
  /\ ~ LockedOut(DB, "builder")
  /\ Commit(Resolved(DB), "meta")

\* set_meta(): doc_count is of this run.
WriteMeta ==
  /\ builder.pc = "meta"
  /\ ~ LockedOut(DB, "builder")
  /\ Commit([DB EXCEPT !.counted = builder.loaded], "drop")

Drop ==
  /\ builder.pc = "drop"
  /\ ~ LockedOut(DB, "builder")
  /\ Commit(Dropped(DB), "create")

Create ==
  /\ builder.pc = "create"
  /\ ~ LockedOut(DB, "builder")
  /\ DB.fts = None
  /\ Commit(Created(DB), "scan")

\* The SELECT over all sections: what it finds is tokenized.
Scan ==
  /\ builder.pc = "scan"
  /\ disk' = [disk EXCEPT ![builder.inode].fresh = @ \cup {"builder"}]
  /\ builder' = [builder EXCEPT !.pc = "insert", !.found = Indexable(DB)]
  /\ UNCHANGED <<path, inodes, pickle, corpusVars>>

\* The first INSERT takes the lock.
Insert ==
  /\ builder.pc = "insert"
  /\ ~ LockedOut(DB, "builder")
  /\ Fillable(DB, builder.found, "builder")
  /\ disk' = [disk EXCEPT ![builder.inode].lock = "builder"]
  /\ Goto("commit")
  /\ UNCHANGED <<path, inodes, pickle, corpusVars>>

CommitIndex ==
  /\ builder.pc = "commit"
  /\ Commit(Released(Filled(DB, builder.found, BuilderMode), "builder"), "count")

\* set_meta() of the rows that were found, and whether there is more to do.
CountSections ==
  /\ builder.pc = "count"
  /\ ~ LockedOut(DB, "builder")
  /\ Commit([DB EXCEPT !.sections = Cardinality(builder.found)],
            IF builder.also THEN "pickle" ELSE "done")

\* load_index() and save_index(): a file beside it is moved into place.
SavePickle ==
  /\ builder.pc = "pickle"
  /\ pickle' = [mode |-> BuilderMode, rows |-> Indexable(DB)]
  /\ Goto("done")
  /\ UNCHANGED <<disk, path, inodes, corpusVars>>

\* A statement outside the loop over the documents raises: the database is
\* locked by the other process, its table is there or is gone, its open SELECT
\* is older than another commit, its rowids are taken.
Fails ==
  /\ \/ /\ builder.pc \in {"aliases", "resolve", "meta", "drop", "create", "insert", "count"}
        /\ LockedOut(DB, "builder")
     \/ builder.pc = "schema" /\ ~ DB.schema /\ LockedOut(DB, "builder")
     \/ builder.pc = "create" /\ DB.fts # None
     \/ builder.pc = "insert" /\ ~ Fillable(DB, builder.found, "builder")
  /\ builder' = Over("dead")
  /\ disk' = [disk EXCEPT ![builder.inode] = Released(@, "builder")]
  /\ UNCHANGED <<path, inodes, pickle, corpusVars>>

\* The process is killed, between two commits or within a transaction.
Kill ==
  /\ builder.pc \in Steps
  /\ builder' = Over("dead")
  /\ disk' = IF builder.inode = 0 THEN disk
             ELSE [disk EXCEPT ![builder.inode] = Released(@, "builder")]
  /\ UNCHANGED <<path, inodes, pickle, corpusVars>>

\* What the process does when it is not killed.
BuildStep ==
  \/ Unlink \/ Connect \/ CreateTables \/ TablesAreThere \/ LoadAliases \/ ConflictOfAliases
  \/ LoadDoc \/ ParseFails \/ StoreFails \/ NothingSelected
  \/ ResolveChains \/ WriteMeta \/ Drop \/ Create \/ Scan \/ Insert \/ CommitIndex
  \/ CountSections \/ SavePickle \/ Fails

BuildNext ==
  \/ \E c \in Choices : Start(c)
  \/ BuildStep
  \/ Kill
-----------------------------------------------------------------------------
BuildTypeOK ==
  /\ disk \in [Inodes -> Database]
  /\ path \in Inodes \cup {0}
  /\ corpus \in [Docs -> Files \cup {None}]
  /\ universe \in Universes \cup {{}}
  /\ pickle = None \/ pickle \in [mode : Modes, rows : SUBSET Row]
  /\ inodes \in 0..MaxInodes
  /\ builder \in [pc : Steps \cup Ended, runs : 0..MaxRuns, inode : Inodes \cup {0},
                  rebuild : BOOLEAN, todo : SUBSET DOMAIN Manifest, loaded : SUBSET Docs, also : BOOLEAN,
                  found : SUBSET Row]
=============================================================================
