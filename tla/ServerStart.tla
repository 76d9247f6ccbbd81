---------------------------- MODULE ServerStart ----------------------------
(***************************************************************************)
(* The start-up of the server, _startup() of api/server.py, beside a       *)
(* builder that may be at work on the same file: it looks for a full-text  *)
(* index, then for the legacy pickle, and else builds the index itself     *)
(* through a second connection.  Once it is up it searches what it has     *)
(* chosen until it is stopped.                                             *)
(*                                                                         *)
(* server.conn is the read-only connection of the process, server.rw the   *)
(* one of its own build, both an inode, and found what that has scanned;   *)
(* index says what it searches, nothing for None; the rows of the pickle   *)
(* are kept in memory; size is counted once.  alone is history: the        *)
(* builder did nothing, and the own build met no error, since the database *)
(* was opened.                                                             *)
(***************************************************************************)
EXTENDS BuildIndex

CONSTANTS
  ServerModes, \* the tokenizers of the hosts the server is started on
  MaxStarts    \* starts of the server

ASSUME ServerAssumption ==
  /\ ServerModes \subseteq Modes
  /\ MaxStarts \in Nat
  /\ None \notin {"fts", "pickle"}

VARIABLE server

vars == <<buildVars, server>>

SelfBuild == {"rw", "drop", "create", "scan", "insert", "commit", "recount"}
Starting == {"open", "check", "count", "legacy", "sections"} \cup SelfBuild

Rw == disk[server.rw]
-----------------------------------------------------------------------------
ServerInit ==
  server = [pc |-> "off", starts |-> 0, mode |-> None, conn |-> 0, rw |-> 0,
            index |-> None, memory |-> {}, size |-> 0, found |-> {}, alone |-> TRUE]

Step(pc) == server' = [server EXCEPT !.pc = pc]

StartServer(mode) ==
  /\ server.pc = "off"
  /\ server.starts < MaxStarts
  /\ server' = [server EXCEPT !.pc = "open", !.starts = @ + 1, !.mode = mode]
  /\ UNCHANGED buildVars

\* connect(read_only): without a file the server runs, but is never ready.
Open ==
  /\ server.pc = "open"
  /\ server' = IF path = 0 THEN [server EXCEPT !.pc = "missing"]
               ELSE [server EXCEPT !.pc = "check", !.conn = path]
  /\ UNCHANGED buildVars

CheckIndex ==
  /\ server.pc = "check"
  /\ Step(IF FtsReady(disk[server.conn], server.mode) THEN "count" ELSE "legacy")
  /\ UNCHANGED buildVars

Up(index, memory, size) ==
  server' = [server EXCEPT !.pc = "up", !.rw = 0, !.index = index, !.memory = memory,
                           !.size = size]

\* FtsIndex(): without the table the exception ends the start-up, after the
\* server's own build it is caught.
Count ==
  /\ server.pc \in {"count", "recount"}
  /\ LET fts == disk[server.conn].fts
     IN IF fts # None THEN Up("fts", {}, Cardinality(fts))
        ELSE IF server.pc = "count" THEN Step("crashed")
        ELSE server' = [server EXCEPT !.pc = "up", !.rw = 0, !.alone = FALSE]
  /\ UNCHANGED buildVars

\* load_saved_index(): only with the tokenizer of the host.
Legacy ==
  /\ server.pc = "legacy"
  /\ IF pickle # None /\ pickle.mode = server.mode
     THEN Up("pickle", pickle.rows, Cardinality(pickle.rows))
     ELSE Step("sections")
  /\ UNCHANGED buildVars

\* The count of the sections for the log is outside of the try: on a file whose
\* tables are not there yet the exception ends the start-up.
CountStored ==
  /\ server.pc = "sections"
  /\ Step(IF disk[server.conn].schema THEN "rw" ELSE "crashed")
  /\ UNCHANGED buildVars

\* One commit of the server's own build.
ServerCommit(db, pc) ==
  /\ disk' = [disk EXCEPT ![server.rw] = Committed(db, "server")]
  /\ Step(pc)
  /\ UNCHANGED <<path, inodes, pickle, corpusVars, builder>>

OpenToWrite ==
  /\ server.pc = "rw"
  /\ Opened
  /\ server' = [server EXCEPT !.pc = "drop", !.rw = path']
  /\ UNCHANGED <<disk, pickle, corpusVars, builder>>

DropOwn ==
  /\ server.pc = "drop"
  /\ ~ LockedOut(Rw, "server")
  /\ ServerCommit(Dropped(Rw), "create")

CreateOwn ==
  /\ server.pc = "create"
  /\ ~ LockedOut(Rw, "server")
  /\ Rw.fts = None
  /\ ServerCommit(Created(Rw), "scan")

ScanOwn ==
  /\ server.pc = "scan"
  /\ Rw.schema
  /\ disk' = [disk EXCEPT ![server.rw].fresh = @ \cup {"server"}]
  /\ server' = [server EXCEPT !.pc = "insert", !.found = Indexable(Rw)]
  /\ UNCHANGED <<path, inodes, pickle, corpusVars, builder>>

InsertOwn ==
  /\ server.pc = "insert"
  /\ ~ LockedOut(Rw, "server")
  /\ Fillable(Rw, server.found, "server")
  /\ disk' = [disk EXCEPT ![server.rw].lock = "server"]
  /\ Step("commit")
  /\ UNCHANGED <<path, inodes, pickle, corpusVars, builder>>

CommitOwn ==
  /\ server.pc = "commit"
  /\ disk' = [disk EXCEPT ![server.rw] =
                Committed(Released(Filled(Rw, server.found, server.mode), "server"), "server")]
  /\ server' = [server EXCEPT !.pc = "recount", !.found = {}]
  /\ UNCHANGED <<path, inodes, pickle, corpusVars, builder>>

\* Any error of the own build, as on a read-only file system or by a conflict
\* with the builder, leaves the server without search, but up.
OwnBuildFails ==
  /\ server.pc \in SelfBuild \ {"recount"}
  /\ disk' = IF server.rw = 0 THEN disk ELSE [disk EXCEPT ![server.rw] = Released(@, "server")]
  /\ server' = [server EXCEPT !.pc = "up", !.rw = 0, !.found = {}, !.alone = FALSE]
  /\ UNCHANGED <<path, inodes, pickle, corpusVars, builder>>

\* The server is stopped, or killed in its start-up, and may be started again.
Stop ==
  /\ server.pc # "off"
  /\ server' = [server EXCEPT !.pc = "off", !.mode = None, !.conn = 0, !.rw = 0,
                              !.index = None, !.memory = {}, !.size = 0, !.found = {},
                              !.alone = TRUE]
  /\ disk' = IF server.rw = 0 THEN disk ELSE [disk EXCEPT ![server.rw] = Released(@, "server")]
  /\ UNCHANGED <<path, inodes, pickle, corpusVars, builder>>

ServerStep ==
  \/ Open \/ CheckIndex \/ Count \/ Legacy \/ CountStored \/ OpenToWrite \/ DropOwn
  \/ CreateOwn \/ ScanOwn \/ InsertOwn \/ CommitOwn \/ OwnBuildFails

ServerNext == ServerStep \/ Stop \/ \E m \in ServerModes : StartServer(m)

\* What the builder does while a server is up or starting.
Beside(step) ==
  /\ step
  /\ server' = [server EXCEPT !.alone = @ /\ server.pc \in {"off", "open"}]
-----------------------------------------------------------------------------
Init == BuildInit /\ ServerInit
Next == Beside(BuildNext) \/ ServerNext
Spec == Init /\ [][Next]_vars
-----------------------------------------------------------------------------
TypeOK ==
  /\ BuildTypeOK
  /\ server \in [pc : Starting \cup {"off", "missing", "crashed", "up"},
                 starts : 0..MaxStarts, mode : Modes \cup {None}, conn : Inodes \cup {0},
                 rw : Inodes \cup {0}, index : {"fts", "pickle", None},
                 memory : SUBSET Row, size : Nat, found : SUBSET Row, alone : BOOLEAN]

(***************************************************************************)
(* AC-S1 to AC-S3: whatever files a document had, whichever runs were      *)
(* killed or failed to store it, the rows of a document in all seven       *)
(* tables are exactly those of the one file loaded last, in every          *)
(* committed state; and no two sections share a rowid.                     *)
(***************************************************************************)
DocumentWhole ==
  \A i \in Inodes :
    /\ \A d \in Docs : DocumentIsWhole(disk[i], d)
    /\ RowidsUnique(disk[i])

(***************************************************************************)
(* README.md:332: when the builder has finished, after any number of       *)
(* interrupted runs and beside any start of the server, a document is      *)
(* effective exactly if no other points to it, and of an index that a      *)
(* server takes for ready searches find every section of an effective      *)
(* document, as it is stored, and nothing else: even if a server that had  *)
(* scanned an earlier state of the file filled the table last, and its old *)
(* rows are still there.                                                   *)
(***************************************************************************)
FinishedIsConsistent ==
  builder.pc = "done" /\ path # 0 =>
    LET db == disk[path]
    IN /\ \A d \in Docs : db.docs[d] # None =>
            (Effective(db, d) <=>
               ~ \E e \in Docs : db.docs[e] # None /\ db.docs[e].points = d)
       /\ \A m \in Modes : FtsReady(db, m) => SearchIsCurrent(db)

(***************************************************************************)
(* Proposal D3: a server on the full-text index never returns a section of *)
(* a document that another document of its file points to as superseded,   *)
(* though the index may be older than the chains; and when the builder has *)
(* finished the very file the server has open, the text that matched is    *)
(* the text of the hit.                                                    *)
(***************************************************************************)
HitsAreHonest ==
  server.pc = "up" /\ server.index = "fts" =>
    \A h \in FtsHits(disk[server.conn]) :
      /\ ~ \E e \in Docs : /\ disk[server.conn].docs[e] # None
                           /\ disk[server.conn].docs[e].points = h[2].doc
      /\ builder.pc = "done" /\ server.conn = path => h[1] = h[2]

(***************************************************************************)
(* Whatever killed runs have left of the index, a start that no builder    *)
(* disturbs, and whose own build meets no error, leaves the full-text      *)
(* index of its file ready for its tokenizer, unless no section is to be   *)
(* indexed; or it has taken a legacy pickle, which may be older than the   *)
(* file and even empty, but is of its tokenizer and is taken only while    *)
(* the full-text index is not ready.  It crashes only on a file without    *)
(* the table of sections.                                                  *)
(***************************************************************************)
StartRepairs ==
  LET db == disk[server.conn]
  IN /\ server.pc = "up" /\ server.alone =>
          \/ /\ server.index = "fts"
             /\ FtsReady(db, server.mode) \/ Indexable(db) = {}
          \/ /\ server.index = "pickle"
             /\ pickle.mode = server.mode /\ ~ FtsReady(db, server.mode)
     /\ server.pc = "crashed" /\ server.alone => ~ db.schema

(***************************************************************************)
(* AC-A2: in one database file a name never changes its company, however   *)
(* universe.csv is edited between runs.                                    *)
(***************************************************************************)
NamesKeepOwners ==
  [][\A i \in Inodes, n \in Names :
       disk[i].alias[n] # None => disk'[i].alias[n] = disk[i].alias[n]]_vars
=============================================================================
