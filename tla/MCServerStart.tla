--------------------------- MODULE MCServerStart ---------------------------
(***************************************************************************)
(* An original and its correction, of two groups and companies, each in    *)
(* one of two files with other numbers of rows or in one that no parser    *)
(* takes; the first universe names both companies, the second only one of  *)
(* them, by a name of the other one's.                                     *)
(***************************************************************************)
EXTENDS ServerStart, TLC

CONSTANTS o, c, f, g, h, k, l, a, b, A, B

MCDocs == {o, c}
MCFiles == {f, g, h}
MCKeys == {k, l}
MCNames == {a, b}
MCCorps == {A, B}

\* f has a path and a field of a fact twice, and facts without one; g has less.
MCParsed ==
  [x \in MCFiles |->
    [t \in Tables |->
       CASE t = "section" -> IF x = f THEN <<k, l, k>> ELSE <<l>>
         [] t = "fin_fact" -> IF x = f THEN <<k, k, None, None>> ELSE <<k>>
         [] t \in {"contract_event", "registry_row"} -> IF x = f THEN <<k>> ELSE <<>>
         [] t = "correction_diff" -> IF x = g THEN <<k, k>> ELSE <<>>
         [] OTHER -> <<>>]]

MCOriginal == (c :> o) @@ (o :> None)
MCCorpOf == (o :> A) @@ (c :> B)
MCManifest == <<o, c>>
MCGroupOf == (o :> "major") @@ (c :> "exchange")
MCCorpora ==
  {(o :> f) @@ (c :> None), (o :> f) @@ (c :> g), (o :> g) @@ (c :> f), (o :> h) @@ (c :> f)}
MCUniverses == {{<<a, A>>, <<b, B>>}, {<<a, B>>}}
MCManual == {<<b, B>>}
All == {"major", "exchange"}
MCChoices ==
  {[groups |-> All, limit |-> 0, rebuild |-> FALSE, also |-> FALSE],
   [groups |-> All, limit |-> 0, rebuild |-> TRUE, also |-> TRUE],
   [groups |-> {"exchange"}, limit |-> 1, rebuild |-> FALSE, also |-> TRUE]}
=============================================================================
