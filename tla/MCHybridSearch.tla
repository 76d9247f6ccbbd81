--------------------------- MODULE MCHybridSearch ---------------------------
(***************************************************************************)
(* Two reports of a company, of which the later one supersedes the earlier *)
(* one in one of the databases, and a report of another company; each has  *)
(* one section.  That of the later report has all its text in a table, the *)
(* other company's is not in both databases.                               *)
(***************************************************************************)
EXTENDS HybridSearch, TLC

CONSTANTS A, B, a1, a2, b1, s1, s2, s3, old, new, m, n

MCCorpOf == (a1 :> A) @@ (a2 :> A) @@ (b1 :> B)
MCRank == (a1 :> 1) @@ (a2 :> 2) @@ (b1 :> 1)
MCYearOf == (a1 :> 2023) @@ (a2 :> 2023) @@ (b1 :> 2024)
MCDocOf == (s1 :> a1) @@ (s2 :> a2) @@ (s3 :> b1)
MCDatabases ==
  {[text |-> (s1 :> old) @@ (s2 :> old) @@ (s3 :> old), effective |-> {a1, a2, b1}],
   [text |-> (s1 :> old) @@ (s2 :> new) @@ (s3 :> None), effective |-> {a2, b1}]}
MCQuestions == {[corps |-> {}, years |-> {}], [corps |-> {A}, years |-> {2023}]}
MCErrors == {{"transport"}, {}}
MCSetups ==
  {[index |-> "fts", hybrid |-> TRUE], [index |-> "pickle", hybrid |-> TRUE],
   [index |-> None, hybrid |-> FALSE]}
=============================================================================
